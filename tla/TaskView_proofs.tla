---------------------------- MODULE TaskView_proofs ----------------------------
(***************************************************************************)
(* Theorems about TaskStream and TaskView, for every number of events,     *)
(* streams and subscribers, every ring and every page size: the hub's      *)
(* memory is bounded, the streams implement the feed of TaskFeed, with the *)
(* page above them or without, and no event of the log is missing on the   *)
(* page.                                                                   *)
(***************************************************************************)
EXTENDS TaskView, FiniteSetTheorems, SequenceTheorems, WellFoundedInduction, TLAPS

LEMMA Limits == /\ MaxEvents \in Nat /\ MaxFaults \in Nat /\ PageLimit \in Nat \ {0}
                /\ Cap \in Nat \ {0} /\ HighWater \in Nat \ {0}
                /\ Ids \subseteq Nat \ {0} /\ Large \subseteq Ids
                /\ None \notin Ids /\ None # 0 /\ \A x \in Ids : x <= MaxEvents
BY StreamAssumption DEF Ids

-----------------------------------------------------------------------------
(* Least and greatest ids                                                  *)

LEMMA LessIsWellFounded == \A x, y \in Nat : x < y => <<x, y>> \in OpToRel(<, Nat)
BY DEF OpToRel

LEMMA MinOf ==
  ASSUME NEW S \in SUBSET Nat, S # {}
  PROVE  Min(S) \in S /\ \A x \in S : Min(S) <= x
<1>1. PICK R : IsWellFoundedOn(R, Nat) /\ \A x, y \in Nat : x < y => <<x, y>> \in R
  BY LessIsWellFounded, NatLessThanWellFounded, Zenon
<1>2. IsWellFoundedOn(R, Nat)
  BY <1>1
<1>3. PICK m \in S : \A y \in S : ~(<<y, m>> \in R)
  BY <1>2, WFMin
<1>4. ASSUME NEW y \in S PROVE m <= y
  <2>1. y \in Nat /\ m \in Nat /\ ~(<<y, m>> \in R)
    BY <1>3
  <2>2. ~(y < m)
    BY <1>1, <2>1
  <2> QED
    BY <2>1, <2>2
<1> QED
  BY <1>4 DEF Min

LEMMA MaxOf ==
  ASSUME NEW S \in SUBSET Nat, S # {}, NEW n \in Nat, \A x \in S : x <= n
  PROVE  Max(S) \in S /\ \A x \in S : x <= Max(S)
<1> DEFINE U == {m \in Nat : \A x \in S : x <= m}
<1>1. U \in SUBSET Nat /\ n \in U
  OBVIOUS
<1>2. PICK m \in U : \A u \in U : m <= u
  BY <1>1, MinOf
<1>3. m \in S
  <2>1. SUFFICES ASSUME m \notin S PROVE FALSE
    OBVIOUS
  <2>2. \A x \in S : x < m
    BY <1>2, <2>1
  <2>3. PICK y \in S : TRUE
    OBVIOUS
  <2>4. m - 1 \in Nat /\ \A x \in S : x <= m - 1
    BY <2>2, <2>3
  <2> QED
    BY <1>2, <2>4
<1> QED
  BY <1>2, <1>3 DEF Max

LEMMA IdsFinite == IsFiniteSet(Ids) /\ \A S \in SUBSET Ids : IsFiniteSet(S) /\ Cardinality(S) \in Nat
<1>1. IsFiniteSet(Ids)
  BY Limits, FS_Interval DEF Ids
<1> QED
  BY <1>1, FS_Subset, FS_CardinalityType

LEMMA MoreCounts == \A S \in SUBSET Ids : \A T \in SUBSET S : Cardinality(T) <= Cardinality(S)
BY IdsFinite, FS_Subset

LEMMA LeastId ==
  ASSUME NEW S \in SUBSET Ids, S # {}
  PROVE  Min(S) \in S /\ \A x \in S : Min(S) <= x
BY Limits, MinOf

LEMMA GreatestId ==
  ASSUME NEW S \in SUBSET Ids, S # {}
  PROVE  Max(S) \in S /\ \A x \in S : x <= Max(S)
BY Limits, MaxOf

-----------------------------------------------------------------------------
(* A connection and what is written to it                                  *)

LEMMA NoConnOK ==
  /\ NoConn \in Conn /\ NoConn.open = FALSE /\ NoConn.wire = {} /\ NoConn.oversized = None
  /\ NoConn.needDrain = FALSE /\ NoConn.lastSent = None /\ NoConn.sync = "none"
  /\ NoConn.page = {} /\ NoConn.full = FALSE /\ NoConn.resync = FALSE /\ NoConn.buffer = {}
BY DEF NoConn, Conn, SyncStates

LEMMA NothingBounded ==
  ASSUME NEW n \in Conn, n.wire = {}, n.buffer = {}
  PROVE  Bounded(n)
BY Limits, FS_EmptySet DEF Bounded, Counted

\* drop() leaves nothing to promise but the ids the client has.
LEMMA DroppedFits ==
  ASSUME NEW log \in SUBSET Ids, NEW way \in SUBSET log, NEW told \in BOOLEAN,
         NEW l \in log \cup {0, None}
  PROVE  ClientFits(NoConn, l, log, way, told)
<1>1. ConnOK(NoConn) /\ Bounded(NoConn)
  BY NoConnOK, NothingBounded DEF ConnOK
<1>2. StreamFits(NoConn, l, log, way, told)
  BY NoConnOK DEF StreamFits, AtTheEnd
<1>3. SegmentFits(NoConn, l, log)
  BY NoConnOK DEF SegmentFits
<1> QED
  BY <1>1, <1>2, <1>3 DEF ClientFits

\* What write() leaves: nothing, or the frames of new behind those before, within
\* the cap and with one oversized frame at most.
LEMMA WriteLaw ==
  ASSUME NEW n \in Conn, NEW new \in SUBSET Ids
  PROVE  LET r == Write(n, new)
         IN  \/ r = NoConn
             \/ /\ r \in Conn /\ r.wire = n.wire \cup new
                /\ r.oversized # None => r.oversized \in r.wire \cap Large
                /\ Counted(r) <= Cap /\ Cardinality(r.wire \cap Large) <= 1
                /\ r.open = n.open /\ r.lastSent = n.lastSent /\ r.sync = n.sync
                /\ r.page = n.page /\ r.full = n.full /\ r.resync = n.resync
                /\ r.buffer = n.buffer
<1> DEFINE big  == (n.wire \cup new) \cap Large
           over == IF big = {} THEN None ELSE Min(big)
           need == \/ n.needDrain
                   \/ Cardinality(n.wire \cup new) >= HighWater
                   \/ big # {}
           w    == [n EXCEPT !.wire = n.wire \cup new, !.oversized = over, !.needDrain = need]
<1>1. n.wire \in SUBSET Ids
  BY DEF Conn
<1>2. over \in Ids \cup {None} /\ (over # None => over \in big)
  <2>1. big \in SUBSET Ids
    BY <1>1
  <2> HIDE DEF big
  <2>2. CASE big = {}
    BY <2>2
  <2>3. CASE big # {}
    BY <2>1, <2>3, LeastId
  <2> QED
    BY <2>2, <2>3
<1>3. Write(n, new) = IF Cardinality(big) > 1 \/ Counted(w) > Cap THEN NoConn ELSE w
  BY DEF Write, Dropped
<1>4. need \in BOOLEAN
  OBVIOUS
<1> HIDE DEF over, need
<1>5. /\ w \in Conn /\ w.wire = n.wire \cup new /\ w.oversized = over
      /\ w.open = n.open /\ w.lastSent = n.lastSent /\ w.sync = n.sync /\ w.page = n.page
      /\ w.full = n.full /\ w.resync = n.resync /\ w.buffer = n.buffer
  BY <1>1, <1>2, <1>4 DEF Conn
<1> HIDE DEF w
<1>6. Cardinality(big) \in Nat /\ Counted(w) \in Nat
  BY <1>1, <1>5, IdsFinite DEF Counted
<1> QED
  BY <1>2, <1>3, <1>5, <1>6, Limits

\* What send() leaves: nothing, the stream as it was, or the ids written.
Sent(n, ids, l, log, r) ==
  \/ r = NoConn
  \/ r = n /\ \A x \in ids : x <= n.lastSent
  \/ /\ r \in Conn /\ r.wire \subseteq log
     /\ r.oversized # None => r.oversized \in r.wire \cap Large
     /\ Counted(r) <= Cap /\ Cardinality(r.wire \cap Large) <= 1
     /\ SegmentFits(r, l, log)
     /\ r.lastSent \in ids /\ n.lastSent < r.lastSent
     /\ \A x \in ids : x <= r.lastSent
     /\ r.open = n.open /\ r.sync = n.sync /\ r.page = n.page
     /\ r.full = n.full /\ r.resync = n.resync /\ r.buffer = n.buffer

\* send() of ids that leave no gap above the last one sent keeps the output a
\* part of the log.
LEMMA SendLaw ==
  ASSUME NEW log \in SUBSET Ids, NEW l \in log \cup {0, None}, NEW n \in Conn,
         n.open, n.lastSent \in log \cup {0}, n.wire \subseteq log, SegmentFits(n, l, log),
         NEW ids \in SUBSET log,
         \A x \in log, s \in ids : n.lastSent < x /\ x <= s => x \in ids
  PROVE  Sent(n, ids, l, log, Send(n, ids))
<1> DEFINE new == {id \in ids : id > n.lastSent}
           m   == [n EXCEPT !.lastSent = Max(new)]
           r   == Write(m, new)
<1>3. Ids \subseteq Nat /\ 0 \in Nat /\ MaxEvents \in Nat /\ \A x \in Ids : x <= MaxEvents
  BY Limits
<1>0. n.lastSent \in Nat /\ ids \in SUBSET Nat /\ log \in SUBSET Nat /\ (l # None => l \in Nat)
  BY <1>3
<1>4. new \in SUBSET Ids /\ \A x : x \in new <=> x \in ids /\ x > n.lastSent
  OBVIOUS
<1>1. CASE new = {}
  <2>1. Send(n, ids) = n
    BY <1>1 DEF Send
  <2>2. \A x \in ids : x <= n.lastSent
    BY <1>0, <1>1
  <2> QED
    BY <2>1, <2>2 DEF Sent
<1>2. CASE new # {}
  <2>1. Send(n, ids) = r
    BY <1>2 DEF Send
  <2>2. Max(new) \in new /\ \A x \in new : x <= Max(new)
    BY <1>4, <1>2, GreatestId
  <2> DEFINE top == Max(new)
  <2> HIDE DEF new, top
  <2>8. top \in new /\ \A x \in new : x <= top
    BY <2>2 DEF top
  <2>9. top \in ids /\ top \in Nat /\ n.lastSent < top
    BY <1>0, <1>4, <2>8
  <2>3. top \in ids /\ top \in Nat /\ n.lastSent < top /\ \A x \in ids : x <= top
    <3>1. ASSUME NEW x \in ids PROVE x <= top
      <4>1. x \in Nat /\ (x > n.lastSent => x \in new)
        BY <1>0, <1>4
      <4> QED
        BY <1>0, <2>8, <2>9, <4>1
    <3> QED
      BY <2>9, <3>1
  <2>4. top \in 0 .. MaxEvents
    BY <2>3, <1>3
  <2>5. /\ m \in Conn /\ m.lastSent = top /\ m.wire = n.wire /\ m.open = n.open
        /\ m.sync = n.sync /\ m.page = n.page /\ m.full = n.full /\ m.resync = n.resync
        /\ m.buffer = n.buffer
    BY <2>4 DEF Conn, top
  <2> HIDE DEF m, r
  <2>6. CASE r = NoConn
    BY <2>1, <2>6 DEF Sent
  <2>7. CASE r # NoConn
    <3>1. /\ r \in Conn /\ r.wire = n.wire \cup new /\ r.lastSent = top
          /\ r.oversized # None => r.oversized \in r.wire \cap Large
          /\ Counted(r) <= Cap /\ Cardinality(r.wire \cap Large) <= 1
          /\ r.open = n.open /\ r.sync = n.sync /\ r.page = n.page
          /\ r.full = n.full /\ r.resync = n.resync /\ r.buffer = n.buffer
      <4>1. m \in Conn /\ new \in SUBSET Ids
        BY <1>4, <2>5
      <4>2. /\ r \in Conn /\ r.wire = m.wire \cup new
            /\ r.oversized # None => r.oversized \in r.wire \cap Large
            /\ Counted(r) <= Cap /\ Cardinality(r.wire \cap Large) <= 1
            /\ r.open = m.open /\ r.lastSent = m.lastSent /\ r.sync = m.sync
            /\ r.page = m.page /\ r.full = m.full /\ r.resync = m.resync
            /\ r.buffer = m.buffer
        BY <2>7, <4>1, WriteLaw DEF r
      <4> QED
        BY <2>5, <4>2
    <3>2. r.wire \subseteq log
      BY <1>4, <3>1
    <3>3. new \in SUBSET Nat /\ \A y \in new : n.lastSent < y
      BY <1>0, <1>4
    <3>9. n.wire \in SUBSET Nat /\ r.wire \in SUBSET Nat
      BY <1>0, <3>2
    <3>4. n.lastSent # None /\ top # None
      BY <1>0, <2>4, StreamAssumption
    <3>5. /\ \A y \in n.wire : y <= n.lastSent
          /\ l # None => l <= n.lastSent
          /\ \A x \in log : Ahead(n, l, x) /\ x <= n.lastSent => x \in n.wire
      BY <3>4 DEF SegmentFits
    <3>6. ASSUME NEW x \in log, Ahead(r, l, x), x <= top PROVE x \in r.wire
      <4>1. CASE x <= n.lastSent
        <5>1. Ahead(n, l, x)
          <6>1. CASE l = None
            <7>1. PICK w \in r.wire : w <= x
              BY <3>6, <6>1 DEF Ahead
            <7>2. w \notin new
              <8>1. x \in Nat /\ (w \in new => w \in Nat /\ n.lastSent < w)
                BY <1>0, <3>3
              <8> QED
                BY <1>0, <4>1, <7>1, <8>1
            <7> QED
              BY <3>1, <6>1, <7>1, <7>2 DEF Ahead
          <6> QED
            BY <3>6, <6>1 DEF Ahead
        <5> QED
          BY <3>1, <3>5, <4>1, <5>1
      <4>2. CASE n.lastSent < x
        <5>1. x \in ids
          BY <2>3, <3>6, <4>2
        <5> QED
          BY <1>0, <1>4, <3>1, <4>2, <5>1
      <4> QED
        BY <1>0, <4>1, <4>2
    <3>7. ASSUME NEW y \in r.wire PROVE y <= top
      <4>1. y \in Nat /\ top \in Nat
        BY <2>3, <3>9
      <4>2. CASE y \in new
        BY <2>8, <4>2
      <4>3. CASE y \in n.wire
        BY <1>0, <2>3, <3>5, <4>1, <4>3
      <4> QED
        BY <3>1, <4>2, <4>3
    <3>8. SegmentFits(r, l, log)
      <4>1. l # None => l \in log \cup {0} /\ \A y \in r.wire : l < y
        <5>1. ASSUME l # None, NEW y \in new PROVE l < y
          BY <1>0, <3>3, <3>5, <5>1
        <5> QED
          BY <3>1, <5>1 DEF SegmentFits
      <4>2. ASSUME NEW x \in log, NEW y \in r.wire, Ahead(r, l, x), x <= y
            PROVE  x \in r.wire
        <5>1. x <= top
          BY <1>0, <2>3, <3>7, <3>9, <4>2
        <5> QED
          BY <3>6, <4>2, <5>1
      <4>3. l # None => l <= top
        BY <1>0, <2>3, <3>5
      <4> QED
        BY <3>1, <3>6, <3>7, <4>1, <4>2, <4>3 DEF SegmentFits
    <3> QED
      BY <2>1, <2>3, <3>1, <3>2, <3>8 DEF Sent
  <2> QED
    BY <2>6, <2>7
<1> QED
  BY <1>1, <1>2

-----------------------------------------------------------------------------
(* What one connection does, the log and the notifications around it given *)

\* The facts of an id set and its log that every step below needs.
LEMMA LogNumbers ==
  ASSUME NEW log \in SUBSET Ids, NEW l \in log \cup {0, None}
  PROVE  /\ log \in SUBSET Nat /\ (l # None => l \in Nat) /\ 0 \in Nat /\ None \notin Nat
BY Limits, StreamAssumption

\* A commit: the new event is behind all others, and is told of when LISTEN is in
\* effect.
LEMMA CommitFits ==
  ASSUME NEW log \in SUBSET Ids, NEW way \in SUBSET log, NEW told \in BOOLEAN,
         NEW l \in log \cup {0, None}, NEW n, ClientFits(n, l, log, way, told),
         NEW id \in Ids, \A x \in log : x < id,
         NEW way2, way2 = IF told THEN way \cup {id} ELSE way
  PROVE  ClientFits(n, l, log \cup {id}, way2, told)
<1> DEFINE more == log \cup {id}
<1>1. /\ log \in SUBSET Nat /\ id \in Nat /\ more \in SUBSET Nat /\ way \in SUBSET Nat
      /\ l # None => l \in Nat /\ l < id
  BY LogNumbers, Limits
<1>2. /\ ConnOK(n) /\ Bounded(n) /\ StreamFits(n, l, log, way, told) /\ SegmentFits(n, l, log)
  BY DEF ClientFits
<1>3. /\ n.wire \cup n.page \cup n.buffer \subseteq log
      /\ n.lastSent # None => n.lastSent \in Nat /\ n.lastSent < id
  <2>1. n.wire \cup n.page \cup n.buffer \subseteq log
    BY <1>2 DEF StreamFits
  <2>2. n.lastSent # None => n.lastSent \in log \/ n.lastSent = 0
    BY <1>2 DEF StreamFits
  <2>3. 0 < id /\ 0 \in Nat
    BY <1>1, Limits
  <2>4. ASSUME n.lastSent \in log PROVE n.lastSent \in Nat /\ n.lastSent < id
    BY <1>1, <2>4
  <2> QED
    BY <2>1, <2>2, <2>3, <2>4
<1>4. \A x \in more, y \in log : x <= y => x \in log
  BY <1>1
<1>5. SegmentFits(n, l, more)
  <2>1. l # None => l \in more \cup {0} /\ \A y \in n.wire : l < y
    BY <1>2 DEF SegmentFits
  <2>2. \A x \in more, y \in n.wire : Ahead(n, l, x) /\ x <= y => x \in n.wire
    BY <1>2, <1>3, <1>4 DEF SegmentFits
  <2>3. n.lastSent # None => \A x \in more : Ahead(n, l, x) /\ x <= n.lastSent => x \in n.wire
    BY <1>1, <1>2, <1>3 DEF SegmentFits
  <2> QED
    BY <1>2, <2>1, <2>2, <2>3 DEF SegmentFits
<1>6. StreamFits(n, l, more, way2, told)
  <2>1. n.wire \cup n.page \cup n.buffer \subseteq more
    BY <1>3
  <2>2. \A b \in n.buffer, q \in way2 : b < q
    BY <1>2, <1>3 DEF StreamFits
  <2>3. n.lastSent # None => n.lastSent \in more \cup {0}
    BY <1>2 DEF StreamFits
  <2>4. \A p \in n.page : /\ n.lastSent < p
                          /\ \A x \in more : n.lastSent < x /\ x <= p => x \in n.page
    BY <1>2, <1>3, <1>4 DEF StreamFits
  <2>5. ASSUME AtTheEnd(n), NEW x \in more, n.lastSent < x,
               told \/ \E q \in n.buffer \cup way2 : x < q
        PROVE  x \in n.page \cup n.buffer \cup way2
    <3>1. CASE x \in log
      <4>1. told \/ \E q \in n.buffer \cup way : x < q
        BY <2>5
      <4> QED
        BY <1>2, <2>5, <3>1, <4>1 DEF StreamFits
    <3>2. CASE x = id
      <4>1. CASE told
        BY <3>2, <4>1
      <4>2. CASE ~told
        <5>1. PICK q \in n.buffer \cup way : id < q
          BY <2>5, <3>2, <4>2
        <5> QED
          <6>1. q \in log /\ q \in Nat /\ q < id
            BY <1>1, <1>3
          <6> QED
            BY <1>1, <5>1, <6>1
      <4> QED
        BY <4>1, <4>2
    <3> QED
      BY <3>1, <3>2
  <2> HIDE DEF more
  <2> QED
    BY <1>2, <2>1, <2>2, <2>3, <2>4, <2>5 DEF StreamFits
<1> QED
  BY <1>2, <1>5, <1>6 DEF ClientFits

\* Notifications that are lost with LISTEN are about later events than those
\* still on their way.
LEMMA LostFits ==
  ASSUME NEW log \in SUBSET Ids, NEW way \in SUBSET log, NEW told \in BOOLEAN,
         NEW l \in log \cup {0, None}, NEW n, ClientFits(n, l, log, way, told),
         NEW way2 \in SUBSET way, \A x \in way \ way2, y \in way2 : y < x
  PROVE  ClientFits(n, l, log, way2, FALSE)
<1>1. /\ log \in SUBSET Nat /\ way \in SUBSET Nat
  BY LogNumbers
<1>2. /\ ConnOK(n) /\ Bounded(n) /\ StreamFits(n, l, log, way, told) /\ SegmentFits(n, l, log)
  BY DEF ClientFits
<1>3. n.buffer \in SUBSET Nat /\ \A b \in n.buffer, q \in way : b < q
  BY <1>1, <1>2 DEF StreamFits
<1>4. ASSUME AtTheEnd(n), NEW x \in log, n.lastSent < x, NEW q \in n.buffer \cup way2, x < q
      PROVE  x \in n.page \cup n.buffer \cup way2
  <2>1. x \in n.page \cup n.buffer \cup way
    BY <1>2, <1>4 DEF StreamFits
  <2>2. ASSUME x \in way \ way2 PROVE FALSE
    <3>1. q \in Nat /\ x \in Nat /\ q < x
      BY <1>1, <1>3, <1>4, <2>2
    <3> QED
      BY <1>4, <3>1
  <2> QED
    BY <2>1, <2>2
<1> QED
  BY <1>2, <1>3, <1>4 DEF ClientFits, StreamFits

\* Nothing more is promised of a stream that reads again.
LEMMA RereadFits ==
  ASSUME NEW log \in SUBSET Ids, NEW way \in SUBSET log, NEW told \in BOOLEAN,
         NEW l \in log \cup {0, None}, NEW n, ClientFits(n, l, log, way, told),
         NEW way2 \in SUBSET way, NEW told2 \in BOOLEAN
  PROVE  /\ ~AtTheEnd(n) => ClientFits(n, l, log, way2, told2)
         /\ n.open /\ n.lastSent # None => ClientFits(StartBacklog(n), l, log, way2, told2)
         /\ ClientFits(Resync(n), l, log, way2, told2)
<1>1. /\ ConnOK(n) /\ Bounded(n) /\ StreamFits(n, l, log, way, told) /\ SegmentFits(n, l, log)
      /\ n \in Conn
  BY DEF ClientFits, ConnOK
<1>2. ASSUME ~AtTheEnd(n) PROVE ClientFits(n, l, log, way2, told2)
  BY <1>1, <1>2 DEF ClientFits, StreamFits
<1>3. ASSUME n.open, n.lastSent # None PROVE ClientFits(StartBacklog(n), l, log, way2, told2)
  <2> DEFINE m == StartBacklog(n)
  <2>1. /\ m \in Conn /\ m.sync = "query" /\ m.page = {} /\ m.resync = FALSE
        /\ m.open = n.open /\ m.wire = n.wire /\ m.oversized = n.oversized
        /\ m.lastSent = n.lastSent /\ m.buffer = n.buffer
    BY <1>1 DEF StartBacklog, Conn, SyncStates
  <2> HIDE DEF m
  <2>2. ConnOK(m) /\ Bounded(m)
    BY <1>1, <2>1 DEF ConnOK, Bounded, Counted
  <2>3. StreamFits(m, l, log, way2, told2)
    BY <1>1, <1>3, <2>1 DEF StreamFits, AtTheEnd
  <2>4. SegmentFits(m, l, log)
    BY <1>1, <2>1 DEF SegmentFits, Ahead
  <2> QED
    BY <2>2, <2>3, <2>4 DEF ClientFits, m
<1>4. ASSUME n.open, n.sync # "none" PROVE ClientFits([n EXCEPT !.resync = TRUE], l, log, way2, told2)
  <2> DEFINE m == [n EXCEPT !.resync = TRUE]
  <2>1. /\ m \in Conn /\ m.sync = n.sync /\ m.page = n.page /\ m.resync = TRUE
        /\ m.open = n.open /\ m.wire = n.wire /\ m.oversized = n.oversized
        /\ m.lastSent = n.lastSent /\ m.buffer = n.buffer
    BY <1>1 DEF Conn
  <2> HIDE DEF m
  <2>2. ConnOK(m) /\ Bounded(m)
    BY <1>1, <1>4, <2>1 DEF ConnOK, Bounded, Counted
  <2>3. StreamFits(m, l, log, way2, told2)
    BY <1>1, <2>1 DEF StreamFits, AtTheEnd
  <2>4. SegmentFits(m, l, log)
    BY <1>1, <2>1 DEF SegmentFits, Ahead
  <2> QED
    BY <2>2, <2>3, <2>4 DEF ClientFits, m
<1>5. n.open /\ n.sync = "none" => n.lastSent # None
  BY <1>1 DEF StreamFits
<1>6. ~n.open => ~AtTheEnd(n)
  BY DEF AtTheEnd
<1> QED
  BY <1>2, <1>3, <1>4, <1>5, <1>6 DEF Resync

\* An event is delivered to a stream: it is buffered, or nothing is between it
\* and what was sent.
LEMMA PushFits ==
  ASSUME NEW log \in SUBSET Ids, NEW way \in SUBSET log, NEW told \in BOOLEAN,
         NEW l \in log \cup {0, None}, NEW n, ClientFits(n, l, log, way, told),
         NEW id \in way, \A y \in way \ {id} : id < y
  PROVE  ClientFits(Push(n, id), l, log, way \ {id}, told)
<1> DEFINE way2 == way \ {id}
<1>0. /\ log \in SUBSET Nat /\ way \in SUBSET Nat /\ id \in Nat /\ id \in log /\ id \in Ids
      /\ way2 \in SUBSET log
  BY LogNumbers
<1>1. /\ ConnOK(n) /\ Bounded(n) /\ StreamFits(n, l, log, way, told) /\ SegmentFits(n, l, log)
      /\ n \in Conn
  BY DEF ClientFits, ConnOK
<1>2. CASE ~n.open
  <2>1. Push(n, id) = n
    BY <1>2 DEF Push, Send
  <2>2. ~AtTheEnd(n)
    BY <1>2 DEF AtTheEnd
  <2> QED
    BY <2>1, <2>2, RereadFits
\* A stream that is not syncing sends it.
<1>3. CASE n.open /\ n.sync = "none"
  <2> DEFINE r == Send(n, {id})
  <2>1. /\ n.buffer = {} /\ ~n.resync /\ n.page = {} /\ n.lastSent \in log \cup {0}
        /\ n.wire \subseteq log
    BY <1>1, <1>3 DEF ConnOK, StreamFits
  <2> HIDE DEF r
  <2>10. n.lastSent \in Nat /\ id \in Nat
    <3>1. n.lastSent \in log \/ n.lastSent = 0
      BY <2>1
    <3>2. n.lastSent \in log => n.lastSent \in Nat
      BY <1>0, Zenon
    <3>3. 0 \in Nat
      OBVIOUS
    <3> QED
      BY <1>0, <3>1, <3>2, <3>3, Zenon
  <2>2. AtTheEnd(n)
    BY <1>3, <2>1 DEF AtTheEnd
  <2>3. ASSUME NEW x \in log, n.lastSent < x, x <= id PROVE x \in {id}
    <3>1. CASE x < id
      <4>1. x \in way
        BY <1>1, <2>1, <2>2, <2>3, <3>1 DEF StreamFits
      <4>2. x \in Nat /\ (x # id => id < x)
        BY <1>0, <4>1
      <4> QED
        BY <1>0, <3>1, <4>2
    <3> QED
      BY <1>0, <2>3, <3>1
  <2>4. Sent(n, {id}, l, log, r)
    <3>1. {id} \in SUBSET log
      BY <1>0
    <3>2. \A x \in log, s \in {id} : n.lastSent < x /\ x <= s => x \in {id}
      BY <2>3
    <3> DEFINE ids == {id}
    <3> HIDE DEF ids
    <3>3. /\ ids \in SUBSET log /\ n.open /\ SegmentFits(n, l, log) /\ n \in Conn
          /\ \A x \in log, s \in ids : n.lastSent < x /\ x <= s => x \in ids
      BY <1>1, <1>3, <3>1, <3>2 DEF ids
    <3>4. Sent(n, ids, l, log, Send(n, ids))
      BY <2>1, <3>3, SendLaw
    <3> QED
      BY <3>4 DEF ids, r
  <2>5. Push(n, id) = r
    BY <1>3 DEF Push, r
  <2>6. CASE r = NoConn
    BY <1>0, <2>5, <2>6, DroppedFits
  <2>7. ASSUME r \in Conn, r.buffer = {}, r.page = {}, r.open, r.sync = "none", ~r.resync,
               r.wire \subseteq log, r.lastSent \in log \cup {0}, n.lastSent <= r.lastSent,
               id <= r.lastSent
        PROVE  StreamFits(r, l, log, way2, told)
    <3>1. ASSUME NEW x \in log, r.lastSent < x, told \/ \E q \in r.buffer \cup way2 : x < q
          PROVE  x \in r.page \cup r.buffer \cup way2
      <4>0. x \in Nat /\ r.lastSent \in Nat
        <5>1. r.lastSent \in log \/ r.lastSent = 0
          BY <2>7
        <5>2. r.lastSent \in log => r.lastSent \in Nat
          BY <1>0, Zenon
        <5>3. x \in Nat /\ 0 \in Nat
          BY <1>0
        <5> QED
          BY <5>1, <5>2, <5>3, Zenon
      <4>1. n.lastSent < x /\ x # id
        BY <2>10, <4>0, <2>7, <3>1
      <4>2. told \/ \E q \in n.buffer \cup way : x < q
        BY <2>1, <2>7, <3>1
      <4>3. x \in n.page \cup n.buffer \cup way
        BY <1>1, <2>2, <4>1, <4>2 DEF StreamFits
      <4> QED
        BY <2>1, <4>1, <4>3
    <3>2. r.lastSent # None
      BY <1>0, <2>7, Limits
    <3> QED
      BY <2>7, <3>1, <3>2 DEF StreamFits
  <2>8. CASE r = n /\ id <= n.lastSent
    <3>1. n.lastSent <= n.lastSent
      BY <2>10
    <3>2. StreamFits(r, l, log, way2, told)
      BY <1>1, <1>3, <2>1, <2>7, <2>8, <3>1
    <3> QED
      BY <1>1, <2>5, <2>8, <3>2 DEF ClientFits
  <2>9. CASE /\ r \in Conn /\ r.wire \subseteq log
             /\ r.oversized # None => r.oversized \in r.wire \cap Large
             /\ Counted(r) <= Cap /\ Cardinality(r.wire \cap Large) <= 1
             /\ SegmentFits(r, l, log)
             /\ r.lastSent = id /\ n.lastSent < r.lastSent
             /\ r.open = n.open /\ r.sync = n.sync /\ r.page = n.page
             /\ r.full = n.full /\ r.resync = n.resync /\ r.buffer = n.buffer
    <3>1. n.lastSent <= r.lastSent /\ id <= r.lastSent
      BY <2>9, <2>10
    <3>2. StreamFits(r, l, log, way2, told)
      BY <1>0, <1>3, <2>1, <2>7, <2>9, <3>1
    <3>3. ConnOK(r) /\ Bounded(r)
      BY <1>1, <1>3, <2>1, <2>9 DEF ConnOK, Bounded
    <3> QED
      BY <2>5, <2>9, <3>2, <3>3 DEF ClientFits
  <2>11. \A x : x \in {id} <=> x = id
    OBVIOUS
  <2> QED
    BY <2>4, <2>6, <2>8, <2>9, <2>11 DEF Sent
\* A stream that is syncing keeps it, or is dropped.
<1>4. CASE n.open /\ n.sync # "none"
  <2> DEFINE r == [n EXCEPT !.buffer = n.buffer \cup {id}]
  <2>1. /\ r \in Conn /\ r.buffer = n.buffer \cup {id} /\ r.open = n.open /\ r.wire = n.wire
        /\ r.oversized = n.oversized /\ r.lastSent = n.lastSent /\ r.sync = n.sync
        /\ r.page = n.page /\ r.full = n.full /\ r.resync = n.resync
    BY <1>0, <1>1 DEF Conn
  <2>2. Push(n, id) = IF PastCap(n, id) THEN NoConn ELSE r
    BY <1>4 DEF Push, Dropped
  <2> HIDE DEF r
  <2>3. CASE PastCap(n, id)
    BY <1>0, <2>2, <2>3, DroppedFits
  <2>4. CASE ~PastCap(n, id)
    <3>1. Bounded(r)
      <4>1. n.wire \in SUBSET Ids /\ n.buffer \in SUBSET Ids
        BY <1>1 DEF Conn
      <4> DEFINE b == n.buffer \ Large
                 g == n.buffer \cap Large
      <4>2. IsFiniteSet(b) /\ Cardinality(b) \in Nat /\ Counted(n) \in Nat
        BY <4>1, IdsFinite DEF Counted
      <4>3. CASE id \in Large
        <5>1. g = {} /\ r.buffer \ Large = b /\ r.buffer \cap Large = {id}
          BY <2>1, <2>4, <4>3 DEF PastCap
        <5>0. Cardinality({id}) = 1
          BY FS_Singleton
        <5>2. Cardinality({id}) <= 1
          BY <5>0
        <5> QED
          BY <1>1, <2>1, <5>1, <5>2 DEF Bounded, Counted
      <4>4. CASE id \notin Large
        <5>1. r.buffer \ Large = b \cup {id} /\ r.buffer \cap Large = g
          BY <2>1, <4>4
        <5>0. Cardinality(b \cup {id}) = IF id \in b THEN Cardinality(b) ELSE Cardinality(b) + 1
          BY <4>2, FS_AddElement
        <5>2. Cardinality(b \cup {id}) <= Cardinality(b) + 1
          BY <4>2, <5>0
        <5>3. Counted(n) + Cardinality(b) + 1 <= Cap
          BY <2>4, <4>2, <4>4, Limits DEF PastCap
        <5>4. Cardinality(b \cup {id}) \in Nat
          BY <4>2, FS_AddElement, FS_CardinalityType
        <5>5. Cardinality(b \cup {id}) <= Cap
          BY <4>2, <5>2, <5>3, <5>4, Limits
        <5> QED
          BY <1>1, <2>1, <5>1, <5>5 DEF Bounded, Counted
      <4> QED
        BY <4>3, <4>4
    <3>2. ConnOK(r)
      BY <1>1, <1>4, <2>1 DEF ConnOK
    <3>3. SegmentFits(r, l, log)
      BY <1>1, <2>1 DEF SegmentFits, Ahead
    <3>4. StreamFits(r, l, log, way2, told)
      <4>1. ASSUME NEW y \in r.buffer, NEW q \in way2 PROVE y < q
        BY <1>1, <2>1 DEF StreamFits
      <4>2. ASSUME AtTheEnd(r), NEW x \in log, r.lastSent < x,
                   told \/ \E q \in r.buffer \cup way2 : x < q
            PROVE  x \in r.page \cup r.buffer \cup way2
        <5>1. AtTheEnd(n)
          BY <2>1, <4>2 DEF AtTheEnd
        <5>2. told \/ \E q \in n.buffer \cup way : x < q
          BY <2>1, <4>2
        <5>3. x \in n.page \cup n.buffer \cup way
          BY <1>1, <2>1, <4>2, <5>1, <5>2 DEF StreamFits
        <5> QED
          BY <2>1, <5>3
      <4>3. r.wire \cup r.page \cup r.buffer \subseteq log
        BY <1>0, <1>1, <2>1 DEF StreamFits
      <4> HIDE DEF way2
      <4> QED
        BY <1>1, <2>1, <4>1, <4>2, <4>3 DEF StreamFits
    <3> QED
      BY <2>2, <2>4, <3>1, <3>2, <3>3, <3>4 DEF ClientFits
  <2> QED
    BY <2>3, <2>4
<1> QED
  BY <1>2, <1>3, <1>4

\* The end of sync() at the end of the log: the buffered events are the next ones.
LEMMA FlushFits ==
  ASSUME NEW log \in SUBSET Ids, NEW way \in SUBSET log, NEW told \in BOOLEAN,
         NEW l \in log \cup {0, None}, NEW n, ClientFits(n, l, log, way, told),
         AtTheEnd(n), n.sync # "none", n.page = {}
  PROVE  ClientFits(Flush(n), l, log, way, told)
<1> DEFINE m == [n EXCEPT !.sync = "none", !.page = {}, !.buffer = {}]
           r == Send(m, n.buffer)
<1>1. /\ ConnOK(n) /\ Bounded(n) /\ StreamFits(n, l, log, way, told) /\ SegmentFits(n, l, log)
      /\ n \in Conn
  BY DEF ClientFits, ConnOK
<1>2. /\ n.open /\ ~n.resync /\ n.sync # "anchor"
  BY DEF AtTheEnd
<1>3. /\ n.buffer \in SUBSET log /\ n.wire \subseteq log
      /\ n.lastSent # None /\ n.lastSent \in log \cup {0}
      /\ \A b \in n.buffer, q \in way : b < q
  BY <1>1, <1>2 DEF StreamFits
<1>4. /\ log \in SUBSET Nat /\ way \in SUBSET Nat
  BY LogNumbers
<1>5. n.lastSent \in Nat /\ n.buffer \in SUBSET Nat
  <2>1. n.lastSent \in log \/ n.lastSent = 0
    BY <1>3
  <2>2. n.lastSent \in log => n.lastSent \in Nat
    BY <1>4, Zenon
  <2>3. 0 \in Nat
    OBVIOUS
  <2> QED
    BY <1>3, <1>4, <2>1, <2>2, <2>3, Zenon
<1>6. /\ m \in Conn /\ m.sync = "none" /\ m.page = {} /\ m.buffer = {}
      /\ m.open = n.open /\ m.wire = n.wire /\ m.oversized = n.oversized
      /\ m.lastSent = n.lastSent /\ m.full = n.full /\ m.resync = n.resync
  BY <1>1 DEF Conn, SyncStates
<1>7. Flush(n) = r
  BY DEF Flush
<1> HIDE DEF m, r
<1>8. SegmentFits(m, l, log)
  BY <1>1, <1>6 DEF SegmentFits, Ahead
<1>9. ASSUME NEW x \in log, NEW s \in n.buffer, n.lastSent < x, x <= s PROVE x \in n.buffer
  <2>1. x \in Nat /\ s \in Nat
    BY <1>4, <1>5
  <2>2. CASE x < s
    <3>1. x \in n.buffer \/ x \in way
      BY <1>1, <1>9, <2>2 DEF StreamFits
    <3>2. x \in way => s < x
      BY <1>3
    <3> QED
      BY <2>1, <2>2, <3>1, <3>2
  <2> QED
    BY <1>9, <2>1, <2>2
<1>10. Sent(m, n.buffer, l, log, r)
  <2>1. /\ m.open /\ m.lastSent \in log \cup {0} /\ m.wire \subseteq log
        /\ \A x \in log, s \in n.buffer : m.lastSent < x /\ x <= s => x \in n.buffer
    BY <1>2, <1>3, <1>6, <1>9
  <2> QED
    BY <1>3, <1>6, <1>8, <2>1, SendLaw DEF r
\* What follows needs only that all that was buffered is sent.
<1>11. ASSUME r \in Conn, r.buffer = {}, r.page = {}, r.open, r.sync = "none", ~r.resync,
              r.wire \subseteq log, r.lastSent \in log \cup {0}, r.lastSent \in Nat,
              n.lastSent <= r.lastSent, \A b \in n.buffer : b <= r.lastSent
       PROVE  StreamFits(r, l, log, way, told)
  <2>1. ASSUME NEW x \in log, r.lastSent < x, told \/ \E q \in r.buffer \cup way : x < q
        PROVE  x \in r.page \cup r.buffer \cup way
    <3>1. x \in Nat
      BY <1>4
    <3>2. n.lastSent < x
      BY <1>5, <1>11, <2>1, <3>1
    <3>3. x \notin n.buffer
      <4>1. SUFFICES ASSUME x \in n.buffer PROVE FALSE
        OBVIOUS
      <4>2. x <= r.lastSent
        BY <1>11, <4>1
      <4> QED
        BY <1>11, <2>1, <3>1, <4>2
    <3>4. told \/ \E q \in n.buffer \cup way : x < q
      BY <1>11, <2>1
    <3>5. x \in n.page \cup n.buffer \cup way
      BY <1>1, <3>2, <3>4 DEF StreamFits
    <3> QED
      BY <3>3, <3>5
  <2>2. r.lastSent # None
    BY <1>11, LogNumbers
  <2> QED
    BY <1>11, <2>1, <2>2 DEF StreamFits
<1>12. CASE r = NoConn
  BY <1>7, <1>12, DroppedFits
<1>13. CASE r = m /\ \A x \in n.buffer : x <= m.lastSent
  <2>1. n.lastSent <= r.lastSent /\ r.lastSent \in Nat /\ \A b \in n.buffer : b <= r.lastSent
    BY <1>5, <1>6, <1>13
  <2>2. StreamFits(r, l, log, way, told)
    BY <1>2, <1>3, <1>6, <1>11, <1>13, <2>1
  <2>3. Bounded(r)
    <3>1. r.buffer \ Large = {} /\ r.buffer \cap Large = {}
      BY <1>6, <1>13
    <3>2. Cardinality({}) = 0
      BY FS_EmptySet
    <3>3. Counted(r) = Counted(n) /\ r.wire = n.wire
      BY <1>6, <1>13 DEF Counted
    <3>4. Counted(n) <= Cap /\ Cardinality(n.wire \cap Large) <= 1
      BY <1>1 DEF Bounded
    <3> QED
      BY <3>1, <3>2, <3>3, <3>4, Limits DEF Bounded
  <2>4. ConnOK(r)
    BY <1>1, <1>2, <1>6, <1>13 DEF ConnOK
  <2> QED
    BY <1>7, <1>8, <1>13, <2>2, <2>3, <2>4 DEF ClientFits
<1>14. CASE /\ r \in Conn /\ r.wire \subseteq log
            /\ r.oversized # None => r.oversized \in r.wire \cap Large
            /\ Counted(r) <= Cap /\ Cardinality(r.wire \cap Large) <= 1
            /\ SegmentFits(r, l, log)
            /\ r.lastSent \in n.buffer /\ m.lastSent < r.lastSent
            /\ \A x \in n.buffer : x <= r.lastSent
            /\ r.open = m.open /\ r.sync = m.sync /\ r.page = m.page
            /\ r.full = m.full /\ r.resync = m.resync /\ r.buffer = m.buffer
  <2>1. n.lastSent <= r.lastSent /\ r.lastSent \in Nat /\ r.lastSent \in log
    BY <1>3, <1>5, <1>6, <1>14
  <2>2. StreamFits(r, l, log, way, told)
    BY <1>2, <1>6, <1>11, <1>14, <2>1
  <2>3. Bounded(r)
    <3>1. r.buffer \ Large = {} /\ r.buffer \cap Large = {}
      BY <1>6, <1>14
    <3>2. Cardinality({}) = 0
      BY FS_EmptySet
    <3> QED
      BY <1>14, <3>1, <3>2, Limits DEF Bounded
  <2>4. ConnOK(r)
    BY <1>2, <1>6, <1>14 DEF ConnOK
  <2> QED
    BY <1>7, <1>14, <2>2, <2>3, <2>4 DEF ClientFits
<1> QED
  BY <1>10, <1>12, <1>13, <1>14 DEF Sent

\* A failed query ends the stream: what was written still arrives.
LEMMA EndedFits ==
  ASSUME NEW log \in SUBSET Ids, NEW way \in SUBSET log, NEW told \in BOOLEAN,
         NEW l \in log \cup {0, None}, NEW n, ClientFits(n, l, log, way, told)
  PROVE  ClientFits(Ended(n), l, log, way, told)
<1> DEFINE m == Ended(n)
<1>1. /\ Bounded(n) /\ StreamFits(n, l, log, way, told) /\ SegmentFits(n, l, log) /\ n \in Conn
  BY DEF ClientFits, ConnOK
<1>2. /\ m \in Conn /\ m.open = FALSE /\ m.wire = n.wire /\ m.oversized = None
      /\ m.lastSent = None /\ m.sync = "none" /\ m.page = {} /\ m.resync = FALSE
      /\ m.buffer = {}
  BY <1>1, NoConnOK DEF Ended, NoConn, Conn
<1> HIDE DEF m
<1>3. ConnOK(m)
  BY <1>2 DEF ConnOK
<1>4. Bounded(m)
  <2>1. m.buffer \ Large = {} /\ m.buffer \cap Large = {}
    BY <1>2
  <2>2. Cardinality({}) = 0
    BY FS_EmptySet
  <2>3. Counted(m) = Counted(n)
    BY <1>2 DEF Counted
  <2> QED
    BY <1>1, <1>2, <2>1, <2>2, <2>3, Limits DEF Bounded
<1>5. StreamFits(m, l, log, way, told)
  <2>1. n.wire \subseteq log
    BY <1>1 DEF StreamFits
  <2>2. ~AtTheEnd(m)
    BY <1>2 DEF AtTheEnd
  <2> QED
    BY <1>2, <2>1, <2>2 DEF StreamFits
<1>6. SegmentFits(m, l, log)
  BY <1>1, <1>2 DEF SegmentFits, Ahead
<1> QED
  BY <1>3, <1>4, <1>5, <1>6 DEF ClientFits, m

\* A new stream starts from the id of the last event received.
LEMMA OpenedFits ==
  ASSUME NEW log \in SUBSET Ids, NEW way \in SUBSET log, NEW told \in BOOLEAN,
         NEW l \in log \cup {0, None}
  PROVE  ClientFits(Opened(l), l, log, way, told)
<1> DEFINE m == Opened(l)
<1>0. log \in SUBSET Nat /\ (l # None => l \in Nat)
  BY LogNumbers
<1>1. l \in 0 .. MaxEvents \cup {None}
  BY <1>0, Limits
<1>2. /\ m \in Conn /\ m.open /\ m.wire = {} /\ m.oversized = None /\ m.lastSent = l
      /\ m.sync = (IF l = None THEN "anchor" ELSE "query")
      /\ m.page = {} /\ m.resync = FALSE /\ m.buffer = {}
  BY <1>1, NoConnOK DEF Opened, NoConn, Conn, SyncStates
<1> HIDE DEF m
<1>3. ConnOK(m)
  BY <1>2 DEF ConnOK
<1>4. Bounded(m)
  BY <1>2, NothingBounded
<1>5. StreamFits(m, l, log, way, told)
  BY <1>2 DEF StreamFits, AtTheEnd
<1>6. SegmentFits(m, l, log)
  <2>1. ASSUME l # None, NEW x \in log, l < x, x <= l PROVE FALSE
    BY <1>0, <2>1
  <2>2. l # None => l <= l
    BY <1>0
  <2> QED
    BY <1>2, <2>1, <2>2 DEF SegmentFits, Ahead
<1> QED
  BY <1>3, <1>4, <1>5, <1>6 DEF ClientFits, m

\* The anchor read finds the newest event: the stream is at the end of the log.
LEMMA AnchorFits ==
  ASSUME NEW log \in SUBSET Ids, NEW way \in SUBSET log, NEW told \in BOOLEAN,
         NEW l \in log \cup {0, None}, NEW n, ClientFits(n, l, log, way, told),
         n.sync = "anchor", NEW a, a = Max(log \cup {0})
  PROVE  /\ a \in 0 .. MaxEvents
         /\ \A from \in {l, a} :
              ClientFits([n EXCEPT !.sync = "anchored", !.lastSent = a], from, log, way, told)
<1> DEFINE m == [n EXCEPT !.sync = "anchored", !.lastSent = a]
<1>1. /\ ConnOK(n) /\ Bounded(n) /\ StreamFits(n, l, log, way, told) /\ n \in Conn
  BY DEF ClientFits, ConnOK
<1>2. a \in log \cup {0} /\ (\A x \in log : x <= a) /\ a \in 0 .. MaxEvents
  <2>1. log \cup {0} \in SUBSET Nat /\ MaxEvents \in Nat /\ \A x \in log \cup {0} : x <= MaxEvents
    BY Limits
  <2> DEFINE S == log \cup {0}
  <2>2. S # {} /\ S \in SUBSET Nat /\ \A x \in S : x <= MaxEvents
    BY <2>1
  <2>3. a = Max(S)
    OBVIOUS
  <2> HIDE DEF S
  <2>4. a \in S /\ \A x \in S : x <= a
    BY <2>1, <2>2, <2>3, MaxOf
  <2>5. a \in 0 .. MaxEvents
    BY <2>1, <2>2, <2>4
  <2> QED
    BY <2>4, <2>5 DEF S
<1>3. /\ m \in Conn /\ m.sync = "anchored" /\ m.lastSent = a /\ m.open = n.open
      /\ m.wire = n.wire /\ m.oversized = n.oversized /\ m.page = n.page
      /\ m.resync = n.resync /\ m.buffer = n.buffer
  BY <1>1, <1>2 DEF Conn, SyncStates
<1> HIDE DEF m
<1>4. n.open /\ n.wire = {} /\ l = None /\ n.page = {}
  BY <1>1 DEF StreamFits
<1>5. ConnOK(m) /\ Bounded(m)
  BY <1>1, <1>3 DEF ConnOK, Bounded, Counted
<1>6. \A from \in {l, a} : StreamFits(m, from, log, way, told)
  <2>1. ASSUME NEW x \in log, a < x PROVE FALSE
    <3>1. x \in Nat /\ a \in Nat /\ x <= a
      BY <1>2, LogNumbers
    <3> QED
      BY <2>1, <3>1
  <2>2. a # None
    BY <1>2, StreamAssumption
  <2> QED
    BY <1>1, <1>2, <1>3, <1>4, <2>1, <2>2 DEF StreamFits
<1>7. \A from \in {l, a} : SegmentFits(m, from, log)
  <2>1. a \in Nat /\ a <= a /\ \A x \in log : x \in Nat
    BY <1>2, LogNumbers
  <2>2. SegmentFits(m, l, log)
    BY <1>3, <1>4 DEF SegmentFits, Ahead
  <2>3. ASSUME NEW x \in log, a < x, x <= a PROVE FALSE
    BY <2>1, <2>3
  <2>4. SegmentFits(m, a, log)
    BY <1>2, <1>3, <1>4, <2>1, <2>3 DEF SegmentFits, Ahead
  <2> QED
    BY <2>2, <2>4
<1> QED
  BY <1>2, <1>5, <1>6, <1>7 DEF ClientFits, m

\* Page(after) of a log and a page size that are parameters.
PageOf(log, after, limit) ==
  {id \in log : /\ id > after
               /\ Cardinality({i \in log : after < i /\ i <= id}) <= limit}

\* A page is the part of the log right after the cursor, and all that is left of it
\* when it is not full.
LEMMA PageLaw ==
  ASSUME NEW log \in SUBSET Ids, NEW after \in Nat, NEW limit \in Nat, NEW page,
         page = PageOf(log, after, limit)
  PROVE  /\ page \in SUBSET log
         /\ \A p \in page : after < p /\ \A x \in log : after < x /\ x <= p => x \in page
         /\ Cardinality(page) < limit => \A x \in log : after < x => x \in page
<1> DEFINE upto(id) == {i \in log : after < i /\ i <= id}
<1>1. log \in SUBSET Nat /\ limit \in Nat
  BY Limits
<1>2. page \in SUBSET log /\ \A x : x \in page <=> /\ x \in log /\ x > after
                                                   /\ Cardinality(upto(x)) <= limit
  BY DEF PageOf
<1>3. \A x : upto(x) \in SUBSET Ids /\ Cardinality(upto(x)) \in Nat
  BY IdsFinite
<1>4. ASSUME NEW p \in page, NEW x \in log, after < x, x <= p PROVE x \in page
  <2>1. p \in Nat /\ x \in Nat
    BY <1>1, <1>2
  <2>2. upto(x) \in SUBSET upto(p)
    <3>1. ASSUME NEW i \in upto(x) PROVE i \in upto(p)
      <4>1. i \in log /\ i \in Nat /\ after < i /\ i <= x
        BY <1>1
      <4> QED
        BY <1>4, <2>1, <4>1
    <3> QED
      BY <3>1
  <2>3. Cardinality(upto(x)) <= Cardinality(upto(p)) /\ Cardinality(upto(p)) <= limit
    <3> HIDE DEF upto
    <3> QED
      BY <1>2, <1>3, <2>2, MoreCounts
  <2>4. Cardinality(upto(x)) <= limit
    <3> HIDE DEF upto
    <3> QED
      BY <1>1, <1>3, <2>3
  <2>5. x > after
    BY <1>4, <2>1
  <2> QED
    BY <1>2, <2>4, <2>5
<1>5. ASSUME Cardinality(page) < limit PROVE \A x \in log : after < x => x \in page
  <2> DEFINE left == {x \in log : after < x /\ x \notin page}
  <2>1. SUFFICES ASSUME left # {} PROVE FALSE
    OBVIOUS
  <2>2. PICK m \in left : \A x \in left : m <= x
    <3>1. left \in SUBSET Ids
      OBVIOUS
    <3> HIDE DEF left
    <3> QED
      BY <2>1, <3>1, LeastId
  <2>3. m \in log /\ m \in Nat /\ after < m /\ m \notin page
    BY <1>1
  <2>4. upto(m) \in SUBSET (page \cup {m})
    <3>1. ASSUME NEW i \in upto(m), i # m PROVE i \in page
      <4>1. i \in log /\ i \in Nat /\ after < i /\ i <= m
        BY <1>1
      <4>2. i \notin left
        BY <2>2, <2>3, <3>1, <4>1
      <4> QED
        BY <4>1, <4>2
    <3> QED
      BY <3>1
  <2>5. page \in SUBSET Ids /\ page \cup {m} \in SUBSET Ids /\ IsFiniteSet(page)
        /\ Cardinality(page) \in Nat
    BY <1>2, <2>3, IdsFinite
  <2>6. Cardinality(page \cup {m}) = Cardinality(page) + 1
    BY <2>3, <2>5, FS_AddElement
  <2>7. Cardinality(upto(m)) <= Cardinality(page \cup {m})
    <3> HIDE DEF upto
    <3> QED
      BY <2>4, <2>5, MoreCounts
  <2>8. Cardinality(upto(m)) <= limit
    <3> HIDE DEF upto
    <3> QED
      BY <1>1, <1>3, <1>5, <2>5, <2>6, <2>7
  <2>9. m > after
    BY <2>3
  <2> QED
    BY <1>2, <2>3, <2>8, <2>9
<1>6. \A p \in page : after < p
  BY <1>1, <1>2
<1> QED
  BY <1>2, <1>4, <1>5, <1>6

\* A page is read: when it is not full the stream is on the last page of the log.
LEMMA PageFits ==
  ASSUME NEW log \in SUBSET Ids, NEW way \in SUBSET log, NEW told \in BOOLEAN,
         NEW l \in log \cup {0, None}, NEW n, ClientFits(n, l, log, way, told),
         n.sync = "query", NEW page, page = PageOf(log, n.lastSent, PageLimit)
  PROVE  ClientFits([n EXCEPT !.sync = "page", !.page = page,
                              !.full = Cardinality(page) >= PageLimit], l, log, way, told)
<1> DEFINE full == Cardinality(page) >= PageLimit
           m == [n EXCEPT !.sync = "page", !.page = page, !.full = full]
<1>1. /\ ConnOK(n) /\ Bounded(n) /\ StreamFits(n, l, log, way, told) /\ SegmentFits(n, l, log)
      /\ n \in Conn
  BY DEF ClientFits, ConnOK
<1>2. n.open /\ n.lastSent # None /\ n.lastSent \in log \cup {0}
  BY <1>1 DEF StreamFits
<1>3. n.lastSent \in Nat
  <2>1. n.lastSent \in log \/ n.lastSent = 0
    BY <1>2
  <2>2. n.lastSent \in log => n.lastSent \in Nat
    BY LogNumbers, Zenon
  <2>3. 0 \in Nat
    OBVIOUS
  <2> QED
    BY <2>1, <2>2, <2>3, Zenon
<1>4. /\ page \in SUBSET log
      /\ \A p \in page : n.lastSent < p /\ \A x \in log : n.lastSent < x /\ x <= p => x \in page
      /\ Cardinality(page) < PageLimit => \A x \in log : n.lastSent < x => x \in page
  <2>1. PageLimit \in Nat /\ log \in SUBSET Ids /\ page = PageOf(log, n.lastSent, PageLimit)
    BY Limits
  <2> QED
    BY <1>3, <2>1, PageLaw
<1>5. full \in BOOLEAN /\ (~full => Cardinality(page) < PageLimit)
  <2>1. Cardinality(page) \in Nat /\ PageLimit \in Nat
    BY <1>4, IdsFinite, Limits
  <2> QED
    BY <2>1
<1> HIDE DEF full
<1>6. /\ m \in Conn /\ m.sync = "page" /\ m.page = page /\ m.full = full
      /\ m.lastSent = n.lastSent /\ m.open = n.open
      /\ m.wire = n.wire /\ m.oversized = n.oversized
      /\ m.resync = n.resync /\ m.buffer = n.buffer
  BY <1>1, <1>4, <1>5 DEF Conn, SyncStates
<1> HIDE DEF m
<1>7. ConnOK(m) /\ Bounded(m)
  BY <1>1, <1>6 DEF ConnOK, Bounded, Counted
<1>8. StreamFits(m, l, log, way, told)
  BY <1>1, <1>2, <1>4, <1>5, <1>6 DEF StreamFits, AtTheEnd
<1>9. SegmentFits(m, l, log)
  BY <1>1, <1>6 DEF SegmentFits, Ahead
<1> QED
  BY <1>7, <1>8, <1>9 DEF ClientFits, m, full

\* A full page is followed by the next one.
LEMMA MoreFits ==
  ASSUME NEW log \in SUBSET Ids, NEW way \in SUBSET log, NEW told \in BOOLEAN,
         NEW l \in log \cup {0, None}, NEW n, ClientFits(n, l, log, way, told),
         n.sync = "page", n.page = {}
  PROVE  ClientFits([n EXCEPT !.sync = "query"], l, log, way, told)
<1> DEFINE m == [n EXCEPT !.sync = "query"]
<1>1. /\ ConnOK(n) /\ Bounded(n) /\ StreamFits(n, l, log, way, told) /\ SegmentFits(n, l, log)
      /\ n \in Conn
  BY DEF ClientFits, ConnOK
<1>2. /\ m \in Conn /\ m.sync = "query" /\ m.page = {}
      /\ m.lastSent = n.lastSent /\ m.open = n.open
      /\ m.wire = n.wire /\ m.oversized = n.oversized
      /\ m.resync = n.resync /\ m.buffer = n.buffer
  BY <1>1 DEF Conn, SyncStates
<1> HIDE DEF m
<1>3. ConnOK(m) /\ Bounded(m)
  BY <1>1, <1>2 DEF ConnOK, Bounded, Counted
<1>4. StreamFits(m, l, log, way, told)
  BY <1>1, <1>2 DEF StreamFits, AtTheEnd
<1>5. SegmentFits(m, l, log)
  BY <1>1, <1>2 DEF SegmentFits, Ahead
<1> QED
  BY <1>3, <1>4, <1>5 DEF ClientFits, m

\* The next row of a page is the next event of the log.
LEMMA RowSentFits ==
  ASSUME NEW log \in SUBSET Ids, NEW way \in SUBSET log, NEW told \in BOOLEAN,
         NEW l \in log \cup {0, None}, NEW n, ClientFits(n, l, log, way, told),
         n.sync = "page", n.page # {}, NEW id, id = Min(n.page)
  PROVE  ClientFits(Send([n EXCEPT !.page = n.page \ {id}], {id}), l, log, way, told)
<1> DEFINE left == n.page \ {id}
           m == [n EXCEPT !.page = left]
           r == Send(m, {id})
<1>1. /\ ConnOK(n) /\ Bounded(n) /\ StreamFits(n, l, log, way, told) /\ SegmentFits(n, l, log)
      /\ n \in Conn
  BY DEF ClientFits, ConnOK
<1>2. /\ n.open /\ n.lastSent # None /\ n.lastSent \in log \cup {0}
      /\ n.page \in SUBSET log /\ n.wire \subseteq log /\ n.buffer \subseteq log
      /\ \A p \in n.page : /\ n.lastSent < p
                           /\ \A x \in log : n.lastSent < x /\ x <= p => x \in n.page
  BY <1>1 DEF StreamFits
<1>3. log \in SUBSET Nat /\ n.page \in SUBSET Ids
  BY <1>2, LogNumbers
<1>4. n.lastSent \in Nat
  <2>1. n.lastSent \in log \/ n.lastSent = 0
    BY <1>2
  <2>2. n.lastSent \in log => n.lastSent \in Nat
    BY <1>3, Zenon
  <2>3. 0 \in Nat
    OBVIOUS
  <2> QED
    BY <2>1, <2>2, <2>3, Zenon
<1>5. id \in n.page /\ \A p \in n.page : id <= p
  BY <1>3, LeastId
<1>6. id \in log /\ id \in Nat /\ n.lastSent < id
  BY <1>2, <1>3, <1>5
<1>7. \A x \in log : n.lastSent < x /\ x <= id => x = id
  <2>1. ASSUME NEW x \in log, n.lastSent < x, x <= id PROVE x = id
    <3>1. id <= x /\ x \in Nat
      BY <1>2, <1>3, <1>5, <2>1
    <3> QED
      BY <1>6, <2>1, <3>1
  <2> QED
    BY <2>1
<1>8. /\ m \in Conn /\ m.sync = "page" /\ m.page = left
      /\ m.lastSent = n.lastSent /\ m.open = n.open /\ m.full = n.full
      /\ m.wire = n.wire /\ m.oversized = n.oversized
      /\ m.resync = n.resync /\ m.buffer = n.buffer
  BY <1>1 DEF Conn
<1> HIDE DEF m, r
<1>9. Sent(m, {id}, l, log, r)
  <2> DEFINE ids == {id}
  <2>1. ids \in SUBSET log /\ \A x \in log, s \in ids : m.lastSent < x /\ x <= s => x \in ids
    BY <1>6, <1>7, <1>8
  <2> HIDE DEF ids
  <2>2. SegmentFits(m, l, log)
    BY <1>1, <1>8 DEF SegmentFits, Ahead
  <2>3. m.open /\ m.lastSent \in log \cup {0} /\ m.wire \subseteq log
    BY <1>2, <1>8
  <2>4. Sent(m, ids, l, log, Send(m, ids))
    BY <1>8, <2>1, <2>2, <2>3, SendLaw
  <2> QED
    BY <2>4 DEF ids, r
<1>10. CASE r = NoConn
  BY <1>10, DroppedFits DEF r, m
<1>11. CASE r = m /\ id <= m.lastSent
  BY <1>4, <1>6, <1>8, <1>11
<1>12. CASE /\ r \in Conn /\ r.wire \subseteq log
            /\ r.oversized # None => r.oversized \in r.wire \cap Large
            /\ Counted(r) <= Cap /\ Cardinality(r.wire \cap Large) <= 1
            /\ SegmentFits(r, l, log) /\ r.lastSent = id
            /\ r.open = m.open /\ r.sync = m.sync /\ r.page = m.page
            /\ r.full = m.full /\ r.resync = m.resync /\ r.buffer = m.buffer
  <2>1. ConnOK(r)
    BY <1>8, <1>12 DEF ConnOK
  <2>2. Bounded(r)
    BY <1>1, <1>8, <1>12 DEF Bounded
  <2>3. ASSUME NEW p \in r.page
        PROVE  r.lastSent < p /\ \A x \in log : r.lastSent < x /\ x <= p => x \in r.page
    <3>1. p \in n.page /\ p # id /\ p \in Nat /\ id <= p
      BY <1>2, <1>3, <1>5, <1>8, <1>12, <2>3
    <3>2. id < p
      BY <1>6, <3>1
    <3>3. ASSUME NEW x \in log, id < x, x <= p PROVE x \in left
      <4>1. x \in Nat
        BY <1>3
      <4>2. n.lastSent < x /\ x # id
        BY <1>4, <1>6, <3>3, <4>1
      <4> QED
        BY <1>2, <3>1, <3>3, <4>2
    <3> QED
      BY <1>8, <1>12, <3>2, <3>3
  <2>4. ASSUME AtTheEnd(r), NEW x \in log, r.lastSent < x,
               told \/ \E q \in r.buffer \cup way : x < q
        PROVE  x \in r.page \cup r.buffer \cup way
    <3>1. AtTheEnd(n)
      BY <1>1, <1>8, <1>12, <2>4 DEF AtTheEnd
    <3>2. x \in Nat /\ n.lastSent < x /\ x # id
      <4>1. x \in Nat
        BY <1>3
      <4>2. id < x
        BY <1>12, <2>4
      <4> QED
        BY <1>4, <1>6, <4>1, <4>2
    <3>3. x \in n.page \cup n.buffer \cup way
      BY <1>1, <1>8, <1>12, <2>4, <3>1, <3>2 DEF StreamFits
    <3> QED
      BY <1>8, <1>12, <3>2, <3>3
  <2>5. r.lastSent # None /\ r.lastSent \in log \cup {0}
    BY <1>6, <1>12, LogNumbers
  <2>6. StreamFits(r, l, log, way, told)
    <3>1. r.wire \cup r.page \cup r.buffer \subseteq log /\ r.open /\ r.sync = "page"
          /\ \A b \in r.buffer, q \in way : b < q
      BY <1>1, <1>2, <1>8, <1>12 DEF StreamFits
    <3> QED
      BY <2>3, <2>4, <2>5, <3>1 DEF StreamFits
  <2> QED
    BY <1>12, <2>1, <2>2, <2>6 DEF ClientFits, r, m
<1>13. \A x : x \in {id} <=> x = id
  OBVIOUS
<1> QED
  BY <1>9, <1>10, <1>11, <1>12, <1>13 DEF Sent

\* The connection once the client has taken frame id.
Taken(n, id, need) ==
  [n EXCEPT !.wire = n.wire \ {id}, !.needDrain = need,
            !.oversized = IF n.oversized = id THEN None ELSE n.oversized]

\* The first frame of the output is the next event after position l, and the
\* stream fits it as a position once the client has taken it.
FirstFits(n, l, log, way, told) ==
  LET id == Min(n.wire)
  IN  /\ id \in log
      /\ l = None \/ (l < id /\ \A other \in log : other <= l \/ id <= other)
      /\ \A need \in BOOLEAN : ClientFits(Taken(n, id, need), id, log, way, told)

LEMMA ReceivedFits ==
  ASSUME NEW log \in SUBSET Ids, NEW way \in SUBSET log, NEW told \in BOOLEAN,
         NEW l \in log \cup {0, None}, NEW n, ClientFits(n, l, log, way, told),
         n.wire # {}
  PROVE  FirstFits(n, l, log, way, told)
<1> DEFINE id == Min(n.wire)
<1>0. id = Min(n.wire)
  OBVIOUS
<1> HIDE DEF id
<1>13. SUFFICES ASSUME NEW need \in BOOLEAN
       PROVE  /\ id \in log
              /\ l = None \/ (l < id /\ \A other \in log : other <= l \/ id <= other)
              /\ ClientFits(Taken(n, id, need), id, log, way, told)
  BY DEF id, FirstFits
<1> DEFINE left == n.wire \ {id}
           over == IF n.oversized = id THEN None ELSE n.oversized
           m == [n EXCEPT !.wire = left, !.oversized = over, !.needDrain = need]
<1>1. /\ ConnOK(n) /\ Bounded(n) /\ StreamFits(n, l, log, way, told) /\ SegmentFits(n, l, log)
      /\ n \in Conn
  BY DEF ClientFits, ConnOK
<1>2. log \in SUBSET Nat /\ n.wire \in SUBSET log /\ n.wire \in SUBSET Ids
      /\ (l # None => l \in Nat)
  BY <1>1, LogNumbers DEF StreamFits
<1>3. id \in n.wire /\ (\A y \in n.wire : id <= y) /\ id \in log /\ id \in Nat
  BY <1>0, <1>2, LeastId
<1>4. l = None \/ (l < id /\ \A other \in log : other <= l \/ id <= other)
  <2>1. SUFFICES ASSUME l # None PROVE l < id /\ \A other \in log : other <= l \/ id <= other
    OBVIOUS
  <2>2. l < id
    BY <1>1, <1>3, <2>1 DEF SegmentFits
  <2>3. ASSUME NEW other \in log, ~(other <= l) PROVE id <= other
    <3>1. other \in Nat /\ l \in Nat /\ l < other
      BY <1>2, <2>1, <2>3
    <3>2. CASE other <= id
      <4>1. other \in n.wire
        BY <1>1, <1>3, <2>1, <3>1, <3>2 DEF SegmentFits, Ahead
      <4> QED
        BY <1>3, <4>1
    <3> QED
      BY <1>3, <3>1, <3>2
  <2> QED
    BY <2>2, <2>3
<1>5. left \in SUBSET n.wire /\ \A y \in left : y \in Nat /\ id < y
  <2>1. \A y \in left : y \in n.wire /\ y # id
    OBVIOUS
  <2>2. \A y \in n.wire : y \in Nat /\ id <= y /\ id \in Nat
    BY <1>2, <1>3
  <2>3. \A y \in left : y \in Nat /\ id < y
    BY <2>1, <2>2
  <2> QED
    BY <2>1, <2>3
<1>6. over \in Ids \cup {None} /\ (over # None => over # id /\ over = n.oversized)
  <2>1. n.oversized \in Ids \cup {None}
    BY <1>1 DEF Conn
  <2> QED
    BY <2>1
<1>7. left \in SUBSET Ids
  BY <1>2
<1> HIDE DEF over
<1>8. /\ m \in Conn /\ m.wire = left /\ m.oversized = over /\ m.sync = n.sync
      /\ m.lastSent = n.lastSent /\ m.open = n.open /\ m.full = n.full
      /\ m.page = n.page /\ m.resync = n.resync /\ m.buffer = n.buffer
  BY <1>1, <1>6, <1>7 DEF Conn
<1> HIDE DEF m
<1>9. ConnOK(m)
  BY <1>1, <1>6, <1>8 DEF ConnOK
<1>10. Bounded(m)
  <2>1. m.wire \ Large \in SUBSET (n.wire \ Large) /\ m.wire \cap Large \in SUBSET (n.wire \cap Large)
    BY <1>8
  <2>2. n.wire \ Large \in SUBSET Ids /\ n.wire \cap Large \in SUBSET Ids
    BY <1>2
  <2>3. Cardinality(m.wire \ Large) <= Cardinality(n.wire \ Large)
    BY <2>1, <2>2, MoreCounts
  <2>4. Cardinality(m.wire \cap Large) <= Cardinality(n.wire \cap Large)
    BY <2>1, <2>2, MoreCounts
  <2>5. /\ Cardinality(m.wire \ Large) \in Nat /\ Cardinality(n.wire \ Large) \in Nat
        /\ Cardinality(m.wire \cap Large) \in Nat /\ Cardinality(n.wire \cap Large) \in Nat
        /\ Cap \in Nat
    <3>1. m.wire \ Large \in SUBSET Ids /\ m.wire \cap Large \in SUBSET Ids
      BY <2>1, <2>2
    <3> QED
      BY <2>2, <3>1, IdsFinite, Limits
  <2>6. Cardinality(n.wire \ Large) <= Cap /\ Cardinality(n.wire \cap Large) <= 1
    BY <1>1 DEF Bounded, Counted
  <2>7. Cardinality(m.wire \ Large) <= Cap /\ Cardinality(m.wire \cap Large) <= 1
    BY <2>3, <2>4, <2>5, <2>6
  <2> QED
    BY <1>1, <1>8, <2>7 DEF Bounded, Counted
<1>11. StreamFits(m, id, log, way, told)
  <2>1. ~(n.open /\ n.lastSent = None)
    BY <1>1 DEF StreamFits
  <2>2. AtTheEnd(m) <=> AtTheEnd(n)
    BY <1>8 DEF AtTheEnd
  <2>3. m.wire \subseteq log
    BY <1>2, <1>5, <1>8
  <2> QED
    BY <1>1, <1>8, <2>1, <2>2, <2>3 DEF StreamFits
<1>12. SegmentFits(m, id, log)
  <2>1. id # None
    BY <1>3, StreamAssumption
  <2>2. \A x \in log : id < x => Ahead(n, l, x)
    <3>1. ASSUME NEW x \in log, id < x PROVE Ahead(n, l, x)
      <4>1. x \in Nat /\ id <= x
        BY <1>2, <1>3, <3>1
      <4> QED
        BY <1>2, <1>3, <1>4, <3>1, <4>1 DEF Ahead
    <3> QED
      BY <3>1
  <2>3. \A x \in log : id < x => x # id
    BY <1>2, <1>3
  <2>4. \A x \in log, y \in left : id < x /\ x <= y => x \in left
    BY <1>1, <1>5, <2>2, <2>3 DEF SegmentFits
  <2>5. ASSUME n.lastSent # None
        PROVE  /\ \A y \in left : y <= n.lastSent
               /\ id <= n.lastSent
               /\ \A x \in log : id < x /\ x <= n.lastSent => x \in left
    BY <1>1, <1>3, <1>5, <2>2, <2>3, <2>5 DEF SegmentFits
  <2> QED
    BY <1>3, <1>5, <1>8, <2>1, <2>4, <2>5 DEF SegmentFits, Ahead
<1> QED
  BY <1>3, <1>4, <1>9, <1>10, <1>11, <1>12 DEF ClientFits, m, over, Taken

-----------------------------------------------------------------------------
(* Sequences                                                               *)

LEMMA TailHolds ==
  ASSUME NEW S, NEW s \in Seq(S), s # <<>>
  PROVE  /\ Tail(s) \in Seq(S) /\ DOMAIN s \subseteq Nat /\ DOMAIN Tail(s) \subseteq Nat
         /\ 1 \in DOMAIN s /\ Head(s) = s[1]
         /\ \A i \in DOMAIN Tail(s) : i + 1 \in DOMAIN s /\ Tail(s)[i] = s[i + 1] /\ 1 < i + 1
         /\ \A i \in DOMAIN s : i = 1 \/ (i - 1 \in DOMAIN Tail(s) /\ Tail(s)[i - 1] = s[i])
OBVIOUS

LEMMA AppendHolds ==
  ASSUME NEW S, NEW s \in Seq(S), NEW x \in S
  PROVE  LET t == Append(s, x)
         IN  /\ t \in Seq(S) /\ DOMAIN t = DOMAIN s \cup {Len(s) + 1} /\ t[Len(s) + 1] = x
             /\ DOMAIN s \subseteq Nat /\ Len(s) \in Nat
             /\ \A i \in DOMAIN s : t[i] = s[i] /\ i < Len(s) + 1
OBVIOUS

\* An increasing sequence of ids, and one with a later id behind.
LEMMA AppendGrows ==
  ASSUME NEW s \in Seq(Ids), NEW id \in Ids, \A i \in DOMAIN s : s[i] < id,
         \A i, j \in DOMAIN s : i < j => s[i] < s[j]
  PROVE  LET t == Append(s, id)
         IN  /\ t \in Seq(Ids) /\ {t[i] : i \in DOMAIN t} = {s[i] : i \in DOMAIN s} \cup {id}
             /\ \A i, j \in DOMAIN t : i < j => t[i] < t[j]
<1> DEFINE t == Append(s, id)
           k == Len(s) + 1
<1>1. /\ t \in Seq(Ids) /\ DOMAIN t = DOMAIN s \cup {k} /\ t[k] = id
      /\ DOMAIN s \subseteq Nat /\ k \in Nat /\ \A i \in DOMAIN s : t[i] = s[i] /\ i < k
  BY AppendHolds
<1> HIDE DEF t, k
<1>2. {t[i] : i \in DOMAIN t} = {s[i] : i \in DOMAIN s} \cup {id}
  BY <1>1
<1>3. ASSUME NEW i \in DOMAIN t, NEW j \in DOMAIN t, i < j PROVE t[i] < t[j]
  <2>1. i \in DOMAIN s
    <3>1. i = k /\ j \in DOMAIN s => FALSE
      <4>1. j \in DOMAIN s => j \in Nat /\ j < k
        BY <1>1
      <4> QED
        BY <1>1, <1>3, <4>1
    <3>2. i = k /\ j = k => FALSE
      BY <1>1, <1>3
    <3> QED
      BY <1>1, <3>1, <3>2
  <2>2. CASE j = k
    BY <1>1, <2>1, <2>2
  <2>3. CASE j \in DOMAIN s
    BY <1>1, <1>3, <2>1, <2>3
  <2> QED
    BY <1>1, <2>2, <2>3
<1> QED
  BY <1>1, <1>2, <1>3 DEF t

-----------------------------------------------------------------------------
(* The invariant                                                           *)

Delivery == [event : Ids, row : {"loading", "loaded", "failed"}]

LEMMA WayNumbers ==
  ASSUME HubOK, WayFits, committed \subseteq Ids
  PROVE  /\ OnTheWay \in SUBSET committed /\ OnTheWay \in SUBSET Nat
         /\ Notified \in SUBSET Nat /\ Delivering \in SUBSET Nat
         /\ channel \in Seq(Ids) /\ delivery \in Seq(Delivery)
         /\ \A i \in DOMAIN channel : channel[i] \in Nat
         /\ \A i \in DOMAIN delivery : delivery[i].event \in Nat
<1>1. OnTheWay \in SUBSET committed /\ committed \in SUBSET Nat
  BY Limits DEF WayFits
<1>2. Notified \in SUBSET Nat /\ Delivering \in SUBSET Nat /\ OnTheWay \in SUBSET Nat
  BY <1>1 DEF OnTheWay
<1> QED
  BY <1>1, <1>2 DEF HubOK, Delivery, Notified, Delivering

\* Whatever position the streams of S fit, they fit after the step.
Kept(S) ==
  \A c \in S : \A l \in committed \cup {0, None} :
    ClientFits(conn[c], l, committed, OnTheWay, listening) =>
      ClientFits(conn'[c], l, committed', OnTheWay', listening')

LEMMA Same ==
  ASSUME conn' = conn, committed' = committed, OnTheWay' = OnTheWay, listening' = listening
  PROVE  Kept(Clients)
BY DEF Kept

\* The state seen from one client.
LEMMA OfClient ==
  ASSUME StreamInv, NEW c \in Clients
  PROVE  /\ ClientFits(conn[c], last[c], committed, OnTheWay, listening)
         /\ conn[c] \in Conn /\ last[c] \in committed \cup {None} /\ last[c] \in Ids \cup {None}
         /\ committed \in SUBSET Ids /\ OnTheWay \in SUBSET committed /\ listening \in BOOLEAN
         /\ DOMAIN conn = Clients /\ DOMAIN last = Clients
<1>1. ClientFits(conn[c], last[c], committed, OnTheWay, listening)
  BY DEF StreamInv
<1>2. last[c] \in committed \cup {None}
  BY DEF StreamInv
<1>3. committed \in SUBSET Ids /\ OnTheWay \in SUBSET committed /\ listening \in BOOLEAN
  BY DEF StreamInv, LogOK, WayFits, HubOK
<1>4. conn \in [Clients -> Conn] /\ last \in [Clients -> Ids \cup {None}]
  BY DEF StreamInv, TabsOK
<1> QED
  BY <1>1, <1>2, <1>3, <1>4

LEMMA StreamInvInit == Init => StreamInv
<1> SUFFICES ASSUME Init PROVE StreamInv
  OBVIOUS
<1>1. LogOK /\ LogFits
  BY Limits DEF Init, LogOK, LogFits
<1>2. HubOK /\ Notified = {} /\ Delivering = {}
  BY DEF Init, HubOK, Notified, Delivering
<1>3. WayFits
  BY <1>2 DEF Init, WayFits, OnTheWay
<1>4. TabsOK /\ faults \in 0 .. MaxFaults
  BY Limits DEF Init, TabsOK
<1>5. conn \in [Clients -> Conn]
  BY NoConnOK DEF Init
<1>6. ASSUME NEW c \in Clients
      PROVE  /\ last[c] \in committed \cup {None}
             /\ ClientFits(conn[c], last[c], committed, OnTheWay, listening)
  <2>1. conn[c] = NoConn /\ last[c] \in committed \cup {None} /\ committed \in SUBSET Ids
        /\ OnTheWay \in SUBSET committed /\ listening \in BOOLEAN
    BY <1>2 DEF Init, OnTheWay
  <2> QED
    BY <2>1, DroppedFits
<1> QED
  BY <1>1, <1>2, <1>3, <1>4, <1>5, <1>6 DEF StreamInv

\* A step of one client leaves the log, the hub and the other clients alone.
LEMMA OneClient ==
  ASSUME StreamInv, NEW c \in Clients, NEW x, NEW l \in committed \cup {None},
         UNCHANGED <<rows, hub>>,
         conn' = [d \in Clients |-> IF d = c THEN x ELSE conn[d]],
         last' = [d \in Clients |-> IF d = c THEN l ELSE last[d]],
         ClientFits(x, l, committed, OnTheWay, listening),
         source' \in [Clients -> BOOLEAN], since' \in [Clients -> 0 .. MaxEvents \cup {None}],
         faults' \in 0 .. MaxFaults
  PROVE  StreamInv' /\ Kept(Clients \ {c})
<1>1. /\ LogOK /\ HubOK /\ TabsOK /\ LogFits /\ WayFits /\ conn \in [Clients -> Conn]
      /\ \A d \in Clients : /\ last[d] \in committed \cup {None}
                            /\ ClientFits(conn[d], last[d], committed, OnTheWay, listening)
  BY DEF StreamInv
<1>2. LogOK' /\ HubOK' /\ LogFits' /\ WayFits' /\ OnTheWay' = OnTheWay
  BY <1>1 DEF rows, hub, LogOK, HubOK, LogFits, WayFits, OnTheWay, Notified, Delivering
<1>3. x \in Conn /\ l \in Ids \cup {None}
  <2>1. x \in Conn /\ committed \subseteq Ids
    BY <1>1 DEF ClientFits, ConnOK, LogOK
  <2> QED
    BY <2>1
<1>4. conn' \in [Clients -> Conn] /\ last' \in [Clients -> Ids \cup {None}]
  BY <1>1, <1>3 DEF TabsOK
<1>5. TabsOK'
  BY <1>4 DEF TabsOK
<1>6. committed' = committed /\ listening' = listening
  BY DEF rows, hub
<1>7. ASSUME NEW d \in Clients
      PROVE  /\ last'[d] \in committed \cup {None}
             /\ ClientFits(conn'[d], last'[d], committed, OnTheWay, listening)
  <2>1. CASE d = c
    BY <2>1
  <2>2. CASE d # c
    BY <1>1, <2>2
  <2> QED
    BY <2>1, <2>2
<1>8. StreamInv'
  BY <1>2, <1>4, <1>5, <1>6, <1>7 DEF StreamInv
<1>9. Kept(Clients \ {c})
  BY <1>2, <1>6 DEF Kept
<1> QED
  BY <1>8, <1>9

\* A step of the writers or the hub leaves the tabs alone.
LEMMA AllClients ==
  ASSUME StreamInv, UNCHANGED tabs, since' = since, LogOK', HubOK', LogFits', WayFits',
         faults' \in 0 .. MaxFaults, committed \subseteq committed',
         conn' = [c \in Clients |-> conn'[c]], Kept(Clients)
  PROVE  StreamInv'
<1>1. TabsOK
  BY DEF StreamInv
<1>2. TabsOK' /\ last' = last
  BY <1>1 DEF TabsOK, tabs
<1>3. ASSUME NEW c \in Clients
      PROVE  /\ last'[c] \in committed' \cup {None}
             /\ ClientFits(conn'[c], last'[c], committed', OnTheWay', listening')
  <2>1. /\ last[c] \in committed \cup {None}
        /\ ClientFits(conn[c], last[c], committed, OnTheWay, listening)
    BY OfClient
  <2>2. ClientFits(conn'[c], last[c], committed', OnTheWay', listening')
    BY <2>1 DEF Kept
  <2> QED
    BY <1>2, <2>1, <2>2
<1>4. conn' \in [Clients -> Conn]
  <2>1. \A c \in Clients : conn'[c] \in Conn
    BY <1>3 DEF ClientFits, ConnOK
  <2> QED
    BY <2>1
<1> QED
  BY <1>2, <1>3, <1>4 DEF StreamInv

-----------------------------------------------------------------------------
(* The steps of the writers and the hub                                    *)

LEMMA InvParts ==
  ASSUME StreamInv
  PROVE  /\ LogOK /\ HubOK /\ TabsOK /\ faults \in 0 .. MaxFaults /\ LogFits /\ WayFits
         /\ conn \in [Clients -> Conn]
         /\ conn = [c \in Clients |-> conn[c]]
BY DEF StreamInv

LEMMA FaultCounts == faults \in 0 .. MaxFaults /\ Fault => faults' \in 0 .. MaxFaults
BY Limits DEF Fault

LEMMA AppendStep == StreamInv /\ AppendEvent => StreamInv' /\ Kept(Clients)
<1> SUFFICES ASSUME StreamInv, AppendEvent PROVE StreamInv' /\ Kept(Clients)
  OBVIOUS
<1>1. /\ LogOK /\ HubOK /\ TabsOK /\ faults \in 0 .. MaxFaults /\ LogFits /\ WayFits
      /\ conn = [c \in Clients |-> conn[c]]
  BY InvParts
<1>2. /\ uncommitted = {} /\ nextId \in Ids /\ uncommitted' = {nextId} /\ nextId' = nextId + 1
      /\ committed' = committed /\ UNCHANGED hub /\ conn' = conn /\ UNCHANGED tabs
      /\ since' = since /\ faults' = faults
  BY DEF AppendEvent
<1>3. LogOK'
  BY <1>1, <1>2, Limits DEF LogOK, Ids
<1>4. LogFits'
  <2>1. nextId \in Nat /\ committed \in SUBSET Nat /\ \A x \in committed : x < nextId
    BY <1>1, <1>2, Limits DEF LogOK, LogFits
  <2> QED
    BY <1>2, <2>1 DEF LogFits
<1>5. HubOK' /\ WayFits' /\ OnTheWay' = OnTheWay /\ listening' = listening
  BY <1>1, <1>2 DEF hub, HubOK, WayFits, OnTheWay, Notified, Delivering
<1>6. Kept(Clients)
  BY <1>2, <1>5, Same
<1> QED
  BY <1>1, <1>2, <1>3, <1>4, <1>5, <1>6, AllClients

LEMMA CommitStep == ASSUME NEW id PROVE StreamInv /\ Commit(id) => StreamInv' /\ Kept(Clients)
<1> SUFFICES ASSUME StreamInv, Commit(id) PROVE StreamInv' /\ Kept(Clients)
  OBVIOUS
<1>1. /\ LogOK /\ HubOK /\ TabsOK /\ faults \in 0 .. MaxFaults /\ LogFits /\ WayFits
      /\ conn = [c \in Clients |-> conn[c]]
  BY InvParts
<1>2. /\ id \in uncommitted /\ committed' = committed \cup {id} /\ uncommitted' = uncommitted \ {id}
      /\ channel' = (IF listening THEN Append(channel, id) ELSE channel)
      /\ nextId' = nextId /\ listening' = listening /\ delivery' = delivery /\ conn' = conn
      /\ UNCHANGED tabs /\ since' = since /\ faults' = faults
  BY DEF Commit
<1>3. /\ id \in Ids /\ id \in Nat /\ committed \in SUBSET Ids /\ committed \in SUBSET Nat
      /\ id < nextId /\ \A x \in committed : x < id
  BY <1>1, <1>2, Limits DEF LogOK, LogFits
<1>4. LogOK' /\ LogFits'
  <2>1. uncommitted' = {}
    BY <1>1, <1>2 DEF LogFits
  <2> QED
    BY <1>1, <1>2, <1>3, <2>1 DEF LogOK, LogFits
<1>5. /\ OnTheWay \in SUBSET committed /\ Notified \in SUBSET Nat /\ Delivering \in SUBSET Nat
      /\ channel \in Seq(Ids)
  BY <1>1, <1>3, WayNumbers
<1>6. HubOK' /\ WayFits' /\ OnTheWay' = (IF listening THEN OnTheWay \cup {id} ELSE OnTheWay)
  <2>1. Delivering' = Delivering
    BY <1>2 DEF Delivering
  <2>2. CASE ~listening
    <3>1. channel' = channel /\ Notified' = Notified
      BY <1>2, <2>2 DEF Notified
    <3> QED
      BY <1>1, <1>2, <2>1, <2>2, <3>1 DEF HubOK, WayFits, OnTheWay
  <2>3. CASE listening
    <3>1. \A i \in DOMAIN channel : channel[i] < id
      BY <1>3, <1>5 DEF OnTheWay, Notified
    <3>2. \A i, j \in DOMAIN channel : i < j => channel[i] < channel[j]
      BY <1>1 DEF WayFits
    <3>3. /\ channel' \in Seq(Ids)
          /\ {channel'[i] : i \in DOMAIN channel'} = {channel[i] : i \in DOMAIN channel} \cup {id}
          /\ \A i, j \in DOMAIN channel' : i < j => channel'[i] < channel'[j]
      BY <1>2, <1>3, <1>5, <2>3, <3>1, <3>2, AppendGrows
    <3>4. Notified' = Notified \cup {id}
      BY <3>3 DEF Notified
    <3>5. OnTheWay' = OnTheWay \cup {id}
      BY <2>1, <3>4 DEF OnTheWay
    <3>6. \A x \in Delivering : x < id
      BY <1>3, <1>5 DEF OnTheWay
    <3>7. \A x \in Delivering', y \in Notified' : x < y
      BY <1>1, <2>1, <3>4, <3>6 DEF WayFits
    <3>8. OnTheWay' \subseteq committed'
      BY <1>2, <1>5, <3>5
    <3>9. \A i, j \in DOMAIN delivery' : i < j => delivery'[i].event < delivery'[j].event
      BY <1>1, <1>2 DEF WayFits
    <3>10. WayFits'
      BY <3>3, <3>7, <3>8, <3>9 DEF WayFits
    <3> QED
      BY <1>1, <1>2, <2>3, <3>3, <3>5, <3>10 DEF HubOK
  <2> QED
    BY <1>1, <2>2, <2>3 DEF HubOK
<1>7. ASSUME NEW c \in Clients, NEW l \in committed \cup {0, None},
             ClientFits(conn[c], l, committed, OnTheWay, listening)
      PROVE  ClientFits(conn'[c], l, committed', OnTheWay', listening')
  <2>1. listening \in BOOLEAN
    BY OfClient
  <2>2. ClientFits(conn[c], l, committed \cup {id}, OnTheWay', listening)
    BY <1>3, <1>5, <1>6, <1>7, <2>1, CommitFits
  <2> QED
    BY <1>2, <2>2
<1>8. Kept(Clients)
  BY <1>7 DEF Kept
<1> QED
  BY <1>1, <1>2, <1>4, <1>6, <1>8, AllClients

LEMMA RollbackStep == ASSUME NEW id PROVE StreamInv /\ Rollback(id) => StreamInv' /\ Kept(Clients)
<1> SUFFICES ASSUME StreamInv, Rollback(id) PROVE StreamInv' /\ Kept(Clients)
  OBVIOUS
<1>1. /\ LogOK /\ HubOK /\ TabsOK /\ faults \in 0 .. MaxFaults /\ LogFits /\ WayFits
      /\ conn = [c \in Clients |-> conn[c]]
  BY InvParts
<1>2. /\ uncommitted' = uncommitted \ {id} /\ committed' = committed /\ nextId' = nextId
      /\ UNCHANGED hub /\ conn' = conn /\ UNCHANGED tabs /\ since' = since /\ faults' = faults
  BY DEF Rollback
<1>3. LogOK' /\ LogFits'
  BY <1>1, <1>2 DEF LogOK, LogFits
<1>4. HubOK' /\ WayFits' /\ OnTheWay' = OnTheWay /\ listening' = listening
  BY <1>1, <1>2 DEF hub, HubOK, WayFits, OnTheWay, Notified, Delivering
<1>5. Kept(Clients)
  BY <1>2, <1>4, Same
<1> QED
  BY <1>1, <1>2, <1>3, <1>4, <1>5, AllClients

\* The notifications lost with LISTEN are the last ones on their way.
LEMMA LoseListenStep == StreamInv /\ LoseListen => StreamInv' /\ Kept(Clients)
<1> SUFFICES ASSUME StreamInv, LoseListen PROVE StreamInv' /\ Kept(Clients)
  OBVIOUS
<1>1. /\ LogOK /\ HubOK /\ TabsOK /\ faults \in 0 .. MaxFaults /\ LogFits /\ WayFits
      /\ conn = [c \in Clients |-> conn[c]]
  BY InvParts
<1>2. /\ Fault /\ listening' = FALSE /\ channel' = <<>> /\ UNCHANGED rows /\ delivery' = delivery
      /\ conn' = conn /\ UNCHANGED tabs /\ since' = since
  BY DEF LoseListen
<1>3. LogOK' /\ LogFits' /\ committed' = committed
  BY <1>1, <1>2 DEF rows, LogOK, LogFits
<1>4. Delivering' = Delivering /\ Notified' = {} /\ OnTheWay' = Delivering
  BY <1>2 DEF Notified, Delivering, OnTheWay
<1>5. HubOK' /\ WayFits'
  <2>1. channel' \in Seq(Ids) /\ DOMAIN channel' = {}
    BY <1>2
  <2>2. HubOK'
    BY <1>1, <1>2, <2>1 DEF HubOK
  <2>3. OnTheWay' \subseteq committed'
    BY <1>1, <1>3, <1>4 DEF WayFits, OnTheWay
  <2>4. \A i, j \in DOMAIN delivery' : i < j => delivery'[i].event < delivery'[j].event
    BY <1>1, <1>2 DEF WayFits
  <2> QED
    BY <1>4, <2>1, <2>2, <2>3, <2>4 DEF WayFits
<1>6. /\ OnTheWay' \in SUBSET OnTheWay
      /\ \A x \in OnTheWay \ OnTheWay', y \in OnTheWay' : y < x
  BY <1>1, <1>4 DEF OnTheWay, WayFits
<1>7. ASSUME NEW c \in Clients, NEW l \in committed \cup {0, None},
             ClientFits(conn[c], l, committed, OnTheWay, listening)
      PROVE  ClientFits(conn'[c], l, committed', OnTheWay', listening')
  <2>1. /\ committed \in SUBSET Ids
        /\ OnTheWay \in SUBSET committed /\ listening \in BOOLEAN
    BY OfClient
  <2>2. ClientFits(conn[c], l, committed, OnTheWay', FALSE)
    BY <1>6, <1>7, <2>1, LostFits
  <2> QED
    BY <1>2, <1>3, <2>2
<1>8. faults' \in 0 .. MaxFaults
  BY <1>1, <1>2, FaultCounts
<1>9. Kept(Clients)
  BY <1>7 DEF Kept
<1> QED
  BY <1>1, <1>2, <1>3, <1>5, <1>8, <1>9, AllClients

LEMMA HandleListenStep == StreamInv /\ HandleListen => StreamInv' /\ Kept(Clients)
<1> SUFFICES ASSUME StreamInv, HandleListen PROVE StreamInv' /\ Kept(Clients)
  OBVIOUS
<1>1. /\ LogOK /\ HubOK /\ TabsOK /\ faults \in 0 .. MaxFaults /\ LogFits /\ WayFits
  BY InvParts
<1>2. /\ listening' = TRUE /\ UNCHANGED rows /\ channel' = channel /\ delivery' = delivery
      /\ conn' = [c \in Clients |-> Resync(conn[c])] /\ UNCHANGED tabs /\ since' = since
      /\ faults' = faults
  BY DEF HandleListen
<1>3. LogOK' /\ LogFits' /\ committed' = committed
  BY <1>1, <1>2 DEF rows, LogOK, LogFits
<1>4. HubOK' /\ WayFits' /\ OnTheWay' = OnTheWay
  BY <1>1, <1>2, <1>3 DEF HubOK, WayFits, OnTheWay, Notified, Delivering
<1>5. ASSUME NEW c \in Clients, NEW l \in committed \cup {0, None},
             ClientFits(conn[c], l, committed, OnTheWay, listening)
      PROVE  ClientFits(conn'[c], l, committed', OnTheWay', listening')
  <2>1. /\ committed \in SUBSET Ids
        /\ OnTheWay \in SUBSET committed /\ listening \in BOOLEAN
    BY OfClient
  <2>2. ClientFits(Resync(conn[c]), l, committed, OnTheWay, TRUE)
    BY <1>5, <2>1, RereadFits
  <2> QED
    BY <1>2, <1>3, <1>4, <2>2
<1>6. conn' = [c \in Clients |-> conn'[c]]
  BY <1>2
<1>7. Kept(Clients)
  BY <1>5 DEF Kept
<1> QED
  BY <1>1, <1>2, <1>3, <1>4, <1>6, <1>7, AllClients

\* A notification leaves the channel, for the end of the chain of deliveries or, when
\* no stream is registered, for nothing.
LEMMA HandleNotifyStep == StreamInv /\ HandleNotify => StreamInv' /\ Kept(Clients)
<1> SUFFICES ASSUME StreamInv, HandleNotify PROVE StreamInv' /\ Kept(Clients)
  OBVIOUS
<1>1. /\ LogOK /\ HubOK /\ TabsOK /\ faults \in 0 .. MaxFaults /\ LogFits /\ WayFits
      /\ conn = [c \in Clients |-> conn[c]]
  BY InvParts
<1> DEFINE some == \E c \in Clients : conn[c].open
           job  == [event |-> Head(channel), row |-> "loading"]
<1>2. /\ channel # <<>> /\ channel' = Tail(channel)
      /\ delivery' = (IF some THEN Append(delivery, job) ELSE delivery)
      /\ UNCHANGED rows /\ listening' = listening /\ conn' = conn /\ UNCHANGED tabs
      /\ since' = since /\ faults' = faults
  BY DEF HandleNotify
<1> HIDE DEF some
<1>3. LogOK' /\ LogFits' /\ committed' = committed /\ committed \in SUBSET Ids
  BY <1>1, <1>2 DEF rows, LogOK, LogFits
<1>4. /\ OnTheWay \in SUBSET committed /\ Notified \in SUBSET Nat /\ Delivering \in SUBSET Nat
      /\ channel \in Seq(Ids) /\ delivery \in Seq(Delivery)
      /\ \A i \in DOMAIN channel : channel[i] \in Nat
      /\ \A i \in DOMAIN delivery : delivery[i].event \in Nat
  BY <1>1, <1>3, WayNumbers
<1>5. /\ channel' \in Seq(Ids) /\ DOMAIN channel \subseteq Nat /\ DOMAIN channel' \subseteq Nat
      /\ 1 \in DOMAIN channel /\ Head(channel) = channel[1]
      /\ \A i \in DOMAIN channel' : i + 1 \in DOMAIN channel /\ channel'[i] = channel[i + 1] /\ 1 < i + 1
  BY <1>2, <1>4, TailHolds
<1>6. Head(channel) \in Ids /\ Head(channel) \in Notified /\ Notified' \in SUBSET Notified
  BY <1>4, <1>5 DEF Notified
<1>7. /\ \A i, j \in DOMAIN channel' : i < j => channel'[i] < channel'[j]
      /\ \A y \in Notified' : Head(channel) < y
  <2>1. \A i, j \in DOMAIN channel : i < j => channel[i] < channel[j]
    BY <1>1 DEF WayFits
  <2>2. ASSUME NEW i \in DOMAIN channel', NEW j \in DOMAIN channel', i < j
        PROVE  channel'[i] < channel'[j]
    <3>1. i + 1 \in DOMAIN channel /\ j + 1 \in DOMAIN channel /\ i + 1 < j + 1
          /\ channel'[i] = channel[i + 1] /\ channel'[j] = channel[j + 1]
      BY <1>5, <2>2
    <3> QED
      BY <2>1, <3>1
  <2>3. ASSUME NEW y \in Notified' PROVE Head(channel) < y
    <3>1. PICK i \in DOMAIN channel' : y = channel'[i]
      BY DEF Notified
    <3>2. i + 1 \in DOMAIN channel /\ y = channel[i + 1] /\ 1 < i + 1
      BY <1>5, <3>1
    <3> QED
      BY <1>5, <2>1, <3>2
  <2> QED
    BY <2>2, <2>3
<1>8. CASE some
  <2>1. /\ delivery' \in Seq(Delivery) /\ DOMAIN delivery' = DOMAIN delivery \cup {Len(delivery) + 1}
        /\ delivery'[Len(delivery) + 1] = job
        /\ DOMAIN delivery \subseteq Nat /\ Len(delivery) \in Nat
        /\ \A i \in DOMAIN delivery : delivery'[i] = delivery[i] /\ i < Len(delivery) + 1
    <3>1. job \in Delivery
      BY <1>6 DEF Delivery
    <3> HIDE DEF job
    <3> QED
      BY <1>2, <1>4, <1>8, <3>1, AppendHolds
  <2>2. job.event = Head(channel)
    OBVIOUS
  <2> DEFINE k == Len(delivery) + 1
  <2> HIDE DEF job, k
  <2>3. Delivering' = Delivering \cup {Head(channel)}
    BY <2>1, <2>2 DEF Delivering, k
  <2>4. \A x \in Delivering : x < Head(channel)
    BY <1>1, <1>6 DEF WayFits
  <2>5. ASSUME NEW i \in DOMAIN delivery', NEW j \in DOMAIN delivery', i < j
        PROVE  delivery'[i].event < delivery'[j].event
    <3>1. /\ DOMAIN delivery' = DOMAIN delivery \cup {k} /\ delivery'[k].event = Head(channel)
          /\ k \in Nat /\ \A h \in DOMAIN delivery : h \in Nat /\ h < k /\ delivery'[h] = delivery[h]
      BY <2>1, <2>2 DEF k
    <3>2. i \in DOMAIN delivery
      <4>1. i = k => FALSE
        <5>1. j \in DOMAIN delivery => j \in Nat /\ j < k
          BY <3>1
        <5> QED
          BY <2>5, <3>1, <5>1
      <4> QED
        BY <3>1, <4>1
    <3>3. delivery[i].event \in Delivering
      BY <3>2 DEF Delivering
    <3>4. CASE j = k
      BY <2>4, <3>1, <3>2, <3>3, <3>4
    <3>5. CASE j \in DOMAIN delivery
      BY <1>1, <2>5, <3>1, <3>2, <3>5 DEF WayFits
    <3> QED
      BY <3>1, <3>4, <3>5
  <2>6. \A x \in Delivering', y \in Notified' : x < y
    <3>1. \A x \in Delivering, y \in Notified : x < y
      BY <1>1 DEF WayFits
    <3> QED
      BY <1>6, <1>7, <2>3, <3>1
  <2>7. OnTheWay' = OnTheWay
    <3>1. Notified \in SUBSET (Notified' \cup {Head(channel)})
      <4>1. \A i \in DOMAIN channel : i = 1 \/ (i - 1 \in DOMAIN channel' /\ channel'[i - 1] = channel[i])
        BY <1>2, <1>4, TailHolds
      <4>2. ASSUME NEW y \in Notified PROVE y \in Notified' \cup {Head(channel)}
        <5>1. PICK i \in DOMAIN channel : y = channel[i]
          BY DEF Notified
        <5>2. CASE i = 1
          BY <1>5, <5>1, <5>2
        <5>3. CASE i - 1 \in DOMAIN channel' /\ channel'[i - 1] = channel[i]
          BY <5>1, <5>3 DEF Notified
        <5> QED
          BY <4>1, <5>2, <5>3
      <4> QED
        BY <4>2
    <3> QED
      BY <1>6, <2>3, <3>1 DEF OnTheWay
  <2>8. HubOK'
    BY <1>1, <1>2, <1>5, <2>1 DEF HubOK, Delivery
  <2>9. WayFits'
    BY <1>1, <1>3, <1>7, <2>5, <2>6, <2>7 DEF WayFits
  <2>10. Kept(Clients)
    BY <1>2, <1>3, <2>7, Same
  <2> QED
    BY <1>1, <1>2, <1>3, <2>8, <2>9, <2>10, AllClients
<1>9. CASE ~some
  <2>1. delivery' = delivery /\ Delivering' = Delivering
    BY <1>2, <1>9 DEF Delivering
  <2>2. OnTheWay' \in SUBSET OnTheWay
    BY <1>6, <2>1 DEF OnTheWay
  <2>3. HubOK'
    BY <1>1, <1>2, <1>5, <2>1 DEF HubOK
  <2>4. \A x \in Delivering', y \in Notified' : x < y
    BY <1>1, <1>6, <2>1 DEF WayFits
  <2>5. OnTheWay' \subseteq committed'
    BY <1>3, <1>4, <2>2
  <2>6. \A i, j \in DOMAIN delivery' : i < j => delivery'[i].event < delivery'[j].event
    BY <1>1, <2>1 DEF WayFits
  <2>7. WayFits'
    BY <1>7, <2>4, <2>5, <2>6 DEF WayFits
  <2>8. ASSUME NEW c \in Clients, NEW l \in committed \cup {0, None},
               ClientFits(conn[c], l, committed, OnTheWay, listening)
        PROVE  ClientFits(conn'[c], l, committed', OnTheWay', listening')
    <3>1. /\ committed \in SUBSET Ids
          /\ OnTheWay \in SUBSET committed /\ listening \in BOOLEAN
      BY OfClient
    <3>2. ~AtTheEnd(conn[c])
      BY <1>9 DEF some, AtTheEnd
    <3>3. ClientFits(conn[c], l, committed, OnTheWay', listening)
      BY <2>2, <2>8, <3>1, <3>2, RereadFits
    <3> QED
      BY <1>2, <1>3, <3>3
  <2>9. Kept(Clients)
    BY <2>8 DEF Kept
  <2> QED
    BY <1>1, <1>2, <1>3, <2>3, <2>7, <2>9, AllClients
<1> QED
  BY <1>8, <1>9

\* A load that ends changes no event of the chain.
LEMMA LoadStep ==
  ASSUME StreamInv, NEW i \in DOMAIN delivery, NEW how \in {"loaded", "failed"},
         delivery' = [delivery EXCEPT ![i].row = how],
         UNCHANGED <<rows, listening, channel, conn, tabs, since>>, faults' \in 0 .. MaxFaults
  PROVE  StreamInv' /\ Kept(Clients)
<1>1. /\ LogOK /\ HubOK /\ TabsOK /\ LogFits /\ WayFits
      /\ conn = [c \in Clients |-> conn[c]]
  BY InvParts
<1>2. LogOK' /\ LogFits' /\ committed' = committed /\ committed \in SUBSET Ids
  BY <1>1 DEF rows, LogOK, LogFits
<1>3. delivery \in Seq(Delivery)
  BY <1>1 DEF HubOK, Delivery
<1>4. /\ delivery' \in Seq(Delivery) /\ DOMAIN delivery' = DOMAIN delivery
      /\ \A j \in DOMAIN delivery : delivery'[j].event = delivery[j].event
  <2>1. [delivery[i] EXCEPT !.row = how] \in Delivery
    <3>1. delivery[i] \in Delivery
      BY <1>3
    <3> QED
      BY <3>1 DEF Delivery
  <2>2. delivery' = [delivery EXCEPT ![i] = [delivery[i] EXCEPT !.row = how]]
    BY Zenon
  <2> QED
    BY <1>3, <2>1, <2>2 DEF Delivery
<1>5. Delivering' = Delivering /\ Notified' = Notified
  BY <1>4 DEF Delivering, Notified
<1>6. HubOK' /\ WayFits' /\ OnTheWay' = OnTheWay
  BY <1>1, <1>2, <1>4, <1>5 DEF HubOK, WayFits, OnTheWay, Delivery
<1>7. Kept(Clients)
  BY <1>2, <1>6, Same
<1> QED
  BY <1>1, <1>2, <1>6, <1>7, AllClients

LEMMA EventLoadedStep ==
  ASSUME NEW i \in DOMAIN delivery
  PROVE  StreamInv /\ (EventLoaded(i) \/ EventLoadFails(i)) => StreamInv' /\ Kept(Clients)
<1> SUFFICES ASSUME StreamInv, EventLoaded(i) \/ EventLoadFails(i) PROVE StreamInv' /\ Kept(Clients)
  OBVIOUS
<1>1. faults \in 0 .. MaxFaults
  BY InvParts
<1>2. CASE EventLoaded(i)
  BY <1>1, <1>2, LoadStep DEF EventLoaded
<1>3. CASE EventLoadFails(i)
  BY <1>1, <1>3, LoadStep, FaultCounts DEF EventLoadFails
<1> QED
  BY <1>2, <1>3

\* The oldest event of the chain is delivered to every stream of the task.
LEMMA DeliverNextStep == StreamInv /\ DeliverNext => StreamInv' /\ Kept(Clients)
<1> SUFFICES ASSUME StreamInv, DeliverNext PROVE StreamInv' /\ Kept(Clients)
  OBVIOUS
<1>1. /\ LogOK /\ HubOK /\ TabsOK /\ faults \in 0 .. MaxFaults /\ LogFits /\ WayFits
  BY InvParts
<1> DEFINE id == Head(delivery).event
<1>2. /\ delivery # <<>> /\ delivery' = Tail(delivery)
      /\ conn' = [c \in Clients |-> IF Head(delivery).row = "failed" THEN Resync(conn[c])
                                    ELSE Push(conn[c], id)]
      /\ UNCHANGED rows /\ listening' = listening /\ channel' = channel /\ UNCHANGED tabs
      /\ since' = since /\ faults' = faults
  BY DEF DeliverNext
<1>3. LogOK' /\ LogFits' /\ committed' = committed /\ committed \in SUBSET Ids
  BY <1>1, <1>2 DEF rows, LogOK, LogFits
<1>4. /\ OnTheWay \in SUBSET committed /\ OnTheWay \in SUBSET Nat /\ delivery \in Seq(Delivery)
      /\ \A i \in DOMAIN delivery : delivery[i].event \in Nat
  BY <1>1, <1>3, WayNumbers
<1>5. /\ delivery' \in Seq(Delivery) /\ DOMAIN delivery \subseteq Nat /\ DOMAIN delivery' \subseteq Nat
      /\ 1 \in DOMAIN delivery /\ Head(delivery) = delivery[1]
      /\ \A i \in DOMAIN delivery' :
           i + 1 \in DOMAIN delivery /\ delivery'[i] = delivery[i + 1] /\ 1 < i + 1
      /\ \A i \in DOMAIN delivery :
           i = 1 \/ (i - 1 \in DOMAIN delivery' /\ delivery'[i - 1] = delivery[i])
  BY <1>2, <1>4, TailHolds
<1>6. id = delivery[1].event /\ id \in Delivering /\ id \in OnTheWay
  BY <1>5 DEF Delivering, OnTheWay
<1> HIDE DEF id
<1>7. /\ \A i, j \in DOMAIN delivery' : i < j => delivery'[i].event < delivery'[j].event
      /\ \A y \in Delivering' : id < y /\ y \in Delivering
  <2>1. \A i, j \in DOMAIN delivery : i < j => delivery[i].event < delivery[j].event
    BY <1>1 DEF WayFits
  <2>2. ASSUME NEW i \in DOMAIN delivery', NEW j \in DOMAIN delivery', i < j
        PROVE  delivery'[i].event < delivery'[j].event
    <3>1. i + 1 \in DOMAIN delivery /\ j + 1 \in DOMAIN delivery /\ i + 1 < j + 1
          /\ delivery'[i] = delivery[i + 1] /\ delivery'[j] = delivery[j + 1]
      BY <1>5, <2>2
    <3> QED
      BY <2>1, <3>1
  <2>3. ASSUME NEW y \in Delivering' PROVE id < y /\ y \in Delivering
    <3>1. PICK i \in DOMAIN delivery' : y = delivery'[i].event
      BY DEF Delivering
    <3>2. i + 1 \in DOMAIN delivery /\ y = delivery[i + 1].event /\ 1 < i + 1
      BY <1>5, <3>1
    <3> QED
      BY <1>5, <1>6, <2>1, <3>2 DEF Delivering
  <2> QED
    BY <2>2, <2>3
<1>8. Delivering \in SUBSET (Delivering' \cup {id})
  <2>1. ASSUME NEW y \in Delivering PROVE y \in Delivering' \cup {id}
    <3>1. PICK i \in DOMAIN delivery : y = delivery[i].event
      BY DEF Delivering
    <3>2. CASE i = 1
      BY <1>6, <3>1, <3>2
    <3>3. CASE i - 1 \in DOMAIN delivery' /\ delivery'[i - 1] = delivery[i]
      BY <3>1, <3>3 DEF Delivering
    <3> QED
      BY <1>5, <3>2, <3>3
  <2> QED
    BY <2>1
<1>9. Notified' = Notified
  BY <1>2 DEF Notified
<1>10. \A y \in Notified : id < y
  BY <1>1, <1>6 DEF WayFits
<1>11. OnTheWay' = OnTheWay \ {id} /\ \A y \in OnTheWay \ {id} : id < y
  <2>1. id \notin Delivering' /\ id \notin Notified
    <3>1. ~(id < id)
      BY <1>4, <1>6
    <3> QED
      BY <1>7, <1>10, <3>1
  <2>2. \A y \in OnTheWay' : id < y
    BY <1>7, <1>9, <1>10 DEF OnTheWay
  <2>3. OnTheWay' = OnTheWay \ {id}
    BY <1>7, <1>8, <1>9, <2>1 DEF OnTheWay
  <2> QED
    BY <2>2, <2>3
<1>12. HubOK'
  BY <1>1, <1>2, <1>5 DEF HubOK, Delivery
<1>13. WayFits'
  <2>1. OnTheWay' \subseteq committed'
    BY <1>3, <1>4, <1>11
  <2>2. \A i, j \in DOMAIN channel' : i < j => channel'[i] < channel'[j]
    BY <1>1, <1>2 DEF WayFits
  <2>3. \A x \in Delivering', y \in Notified' : x < y
    BY <1>1, <1>7, <1>9 DEF WayFits
  <2> QED
    BY <1>7, <2>1, <2>2, <2>3 DEF WayFits
<1>14. ASSUME NEW c \in Clients, NEW l \in committed \cup {0, None},
              ClientFits(conn[c], l, committed, OnTheWay, listening)
       PROVE  ClientFits(conn'[c], l, committed', OnTheWay', listening')
  <2>1. /\ committed \in SUBSET Ids
        /\ OnTheWay \in SUBSET committed /\ listening \in BOOLEAN
    BY OfClient
  <2>2. ClientFits(Resync(conn[c]), l, committed, OnTheWay', listening)
    <3>1. OnTheWay' \in SUBSET OnTheWay
      BY <1>11
    <3> QED
      BY <1>14, <2>1, <3>1, RereadFits
  <2>3. ClientFits(Push(conn[c], id), l, committed, OnTheWay \ {id}, listening)
    BY <1>6, <1>11, <1>14, <2>1, PushFits
  <2>4. conn'[c] = (IF Head(delivery).row = "failed" THEN Resync(conn[c])
                    ELSE Push(conn[c], id))
    BY <1>2
  <2>5. CASE Head(delivery).row = "failed"
    BY <1>2, <1>3, <2>2, <2>4, <2>5
  <2>6. CASE Head(delivery).row # "failed"
    BY <1>2, <1>3, <1>11, <2>3, <2>4, <2>6
  <2> QED
    BY <2>5, <2>6
<1>15. conn' = [c \in Clients |-> conn'[c]]
  BY <1>2
<1>16. Kept(Clients)
  BY <1>14 DEF Kept
<1> QED
  BY <1>1, <1>2, <1>3, <1>12, <1>13, <1>15, <1>16, AllClients

LEMMA RestartStep == StreamInv /\ RestartApi => StreamInv' /\ Kept(Clients)
<1> SUFFICES ASSUME StreamInv, RestartApi PROVE StreamInv' /\ Kept(Clients)
  OBVIOUS
<1>1. /\ LogOK /\ HubOK /\ TabsOK /\ faults \in 0 .. MaxFaults /\ LogFits
  BY InvParts
<1>2. /\ Fault /\ listening' = TRUE /\ channel' = <<>> /\ delivery' = <<>>
      /\ conn' = [c \in Clients |-> NoConn] /\ UNCHANGED rows /\ UNCHANGED tabs /\ since' = since
  BY DEF RestartApi, Dropped
<1>3. LogOK' /\ LogFits' /\ committed' = committed /\ committed \in SUBSET Ids
  BY <1>1, <1>2 DEF rows, LogOK, LogFits
<1>4. HubOK' /\ Notified' = {} /\ Delivering' = {}
  BY <1>2 DEF HubOK, Notified, Delivering
<1>5. OnTheWay' = {}
  BY <1>4 DEF OnTheWay
<1>6. WayFits'
  BY <1>2, <1>4, <1>5 DEF WayFits
<1>7. ASSUME NEW c \in Clients, NEW l \in committed \cup {0, None},
             ClientFits(conn[c], l, committed, OnTheWay, listening)
      PROVE  ClientFits(conn'[c], l, committed', OnTheWay', listening')
  <2>2. OnTheWay' \in SUBSET committed
    BY <1>5
  <2>3. ClientFits(NoConn, l, committed, OnTheWay', TRUE)
    BY <1>3, <2>2, DroppedFits
  <2> QED
    BY <1>2, <1>3, <2>3
<1>8. faults' \in 0 .. MaxFaults /\ conn' = [c \in Clients |-> conn'[c]]
  BY <1>1, <1>2, FaultCounts
<1>9. Kept(Clients)
  BY <1>7 DEF Kept
<1> QED
  BY <1>2, <1>3, <1>4, <1>6, <1>8, <1>9, AllClients

-----------------------------------------------------------------------------
(* The steps of one client and its stream                                  *)

\* A step of the stream of c: nothing but its connection and the fault count change.
LEMMA StreamOnly ==
  ASSUME StreamInv, NEW c \in Clients, NEW x,
         UNCHANGED <<rows, hub, tabs>>, conn' = [d \in Clients |-> IF d = c THEN x ELSE conn[d]],
         \A l \in committed \cup {0, None} :
           ClientFits(conn[c], l, committed, OnTheWay, listening) =>
             ClientFits(x, l, committed, OnTheWay, listening),
         since' \in [Clients -> 0 .. MaxEvents \cup {None}], faults' \in 0 .. MaxFaults
  PROVE  StreamInv' /\ Kept(Clients)
<1>1. source \in [Clients -> BOOLEAN] /\ last \in [Clients -> Ids \cup {None}]
  BY DEF StreamInv, TabsOK
<1>2. source' = source /\ last' = last
  BY DEF tabs
<1>3. last' = [d \in Clients |-> IF d = c THEN last[c] ELSE last[d]]
  BY <1>1, <1>2
<1>4. UNCHANGED <<rows, hub>>
  OBVIOUS
<1>5. last[c] \in committed \cup {None} /\ ClientFits(x, last[c], committed, OnTheWay, listening)
  BY OfClient
<1>6. StreamInv' /\ Kept(Clients \ {c})
  BY <1>1, <1>2, <1>3, <1>4, <1>5, OneClient
<1>7. conn'[c] = x /\ committed' = committed /\ OnTheWay' = OnTheWay /\ listening' = listening
  BY DEF rows, hub, OnTheWay, Notified, Delivering
<1>8. Kept({c})
  BY <1>7 DEF Kept
<1>9. Kept(Clients)
  BY <1>6, <1>8 DEF Kept
<1> QED
  BY <1>6, <1>9

LEMMA AnchorReadStep == ASSUME NEW c \in Clients PROVE StreamInv /\ AnchorRead(c) => StreamInv' /\ Kept(Clients)
<1> SUFFICES ASSUME StreamInv, AnchorRead(c) PROVE StreamInv' /\ Kept(Clients)
  OBVIOUS
<1> DEFINE a == Max(committed \cup {0})
           x == [conn[c] EXCEPT !.sync = "anchored", !.lastSent = a]
<1>1. /\ ClientFits(conn[c], last[c], committed, OnTheWay, listening)
      /\ conn[c] \in Conn /\ last[c] \in committed \cup {None} /\ committed \in SUBSET Ids
      /\ OnTheWay \in SUBSET committed /\ listening \in BOOLEAN
  BY OfClient
<1>2. /\ conn[c].sync = "anchor"
      /\ conn' = [conn EXCEPT ![c].sync = "anchored", ![c].lastSent = a]
      /\ since' = [since EXCEPT ![c] = IF since[c] = None THEN a ELSE since[c]]
      /\ UNCHANGED <<rows, hub, tabs, faults>>
  BY DEF AnchorRead
<1>3. /\ conn \in [Clients -> Conn] /\ faults \in 0 .. MaxFaults
      /\ since \in [Clients -> 0 .. MaxEvents \cup {None}]
  BY DEF StreamInv, TabsOK
<1>4. a \in 0 .. MaxEvents
  BY <1>1, <1>2, AnchorFits
<1>8. ASSUME NEW l \in committed \cup {0, None},
             ClientFits(conn[c], l, committed, OnTheWay, listening)
      PROVE  ClientFits(x, l, committed, OnTheWay, listening)
  BY <1>1, <1>2, <1>8, AnchorFits
<1>5. conn' = [d \in Clients |-> IF d = c THEN x ELSE conn[d]]
  <2> HIDE DEF a
  <2> QED
    BY <1>2, <1>3 DEF Conn
<1> HIDE DEF a, x
<1>6. since' \in [Clients -> 0 .. MaxEvents \cup {None}]
  BY <1>2, <1>3, <1>4
<1>7. UNCHANGED <<rows, hub, tabs>> /\ faults' \in 0 .. MaxFaults
  BY <1>2, <1>3
<1> QED
  BY <1>5, <1>6, <1>7, <1>8, StreamOnly

LEMMA AnchorReturnsStep ==
  ASSUME NEW c \in Clients PROVE StreamInv /\ AnchorReturns(c) => StreamInv' /\ Kept(Clients)
<1> SUFFICES ASSUME StreamInv, AnchorReturns(c) PROVE StreamInv' /\ Kept(Clients)
  OBVIOUS
<1> DEFINE n == conn[c]
           x == IF n.resync THEN StartBacklog(n) ELSE Flush(n)
<1>1. /\ ClientFits(n, last[c], committed, OnTheWay, listening)
      /\ last[c] \in committed \cup {None} /\ committed \in SUBSET Ids
      /\ OnTheWay \in SUBSET committed /\ listening \in BOOLEAN
  BY OfClient
<1>2. /\ n.sync = "anchored" /\ conn' = [conn EXCEPT ![c] = x]
      /\ UNCHANGED <<rows, hub, tabs, since, faults>>
  BY DEF AnchorReturns
<1>3. /\ conn \in [Clients -> Conn] /\ faults \in 0 .. MaxFaults
      /\ since \in [Clients -> 0 .. MaxEvents \cup {None}]
  BY DEF StreamInv, TabsOK
<1> HIDE DEF n
<1>4. n.open /\ n.lastSent # None /\ n.page = {}
  BY <1>1, <1>2 DEF ClientFits, StreamFits
<1>5. ASSUME NEW l \in committed \cup {0, None},
             ClientFits(n, l, committed, OnTheWay, listening)
      PROVE  ClientFits(x, l, committed, OnTheWay, listening)
  <2>1. CASE n.resync
    BY <1>1, <1>4, <1>5, <2>1, RereadFits
  <2>2. CASE ~n.resync
    <3>1. AtTheEnd(n)
      BY <1>2, <1>4, <2>2 DEF AtTheEnd
    <3>2. ClientFits(Flush(n), l, committed, OnTheWay, listening)
      BY <1>1, <1>2, <1>4, <1>5, <3>1, FlushFits
    <3> QED
      BY <2>2, <3>2
  <2> QED
    BY <2>1, <2>2
<1> HIDE DEF x
<1>6. conn' = [d \in Clients |-> IF d = c THEN x ELSE conn[d]]
  BY <1>2, <1>3
<1>7. conn[c] = n
  BY DEF n
<1>8. UNCHANGED <<rows, hub, tabs>> /\ faults' \in 0 .. MaxFaults
      /\ since' \in [Clients -> 0 .. MaxEvents \cup {None}]
  BY <1>2, <1>3
<1> QED
  BY <1>5, <1>6, <1>7, <1>8, StreamOnly

LEMMA PageReadStep == ASSUME NEW c \in Clients PROVE StreamInv /\ PageRead(c) => StreamInv' /\ Kept(Clients)
<1> SUFFICES ASSUME StreamInv, PageRead(c) PROVE StreamInv' /\ Kept(Clients)
  OBVIOUS
<1> DEFINE page == Page(conn[c].lastSent)
           full == Cardinality(page) >= PageLimit
           x == [conn[c] EXCEPT !.sync = "page", !.page = page, !.full = full]
<1>1. /\ ClientFits(conn[c], last[c], committed, OnTheWay, listening)
      /\ conn[c] \in Conn /\ last[c] \in committed \cup {None} /\ committed \in SUBSET Ids
      /\ OnTheWay \in SUBSET committed /\ listening \in BOOLEAN
  BY OfClient
<1>2. /\ conn[c].sync = "query"
      /\ conn' = [conn EXCEPT ![c].sync = "page", ![c].page = page, ![c].full = full]
      /\ UNCHANGED <<rows, hub, tabs, since, faults>>
  BY DEF PageRead
<1>3. /\ conn \in [Clients -> Conn] /\ faults \in 0 .. MaxFaults
      /\ since \in [Clients -> 0 .. MaxEvents \cup {None}]
  BY DEF StreamInv, TabsOK
<1>4. page = PageOf(committed, conn[c].lastSent, PageLimit)
  BY DEF Page, PageOf
<1> HIDE DEF page
<1>5. ASSUME NEW l \in committed \cup {0, None},
             ClientFits(conn[c], l, committed, OnTheWay, listening)
      PROVE  ClientFits(x, l, committed, OnTheWay, listening)
  BY <1>1, <1>2, <1>4, <1>5, PageFits
<1> HIDE DEF full
<1>6. conn' = [d \in Clients |-> IF d = c THEN x ELSE conn[d]]
  BY <1>2, <1>3 DEF Conn
<1> HIDE DEF x
<1>7. UNCHANGED <<rows, hub, tabs>> /\ faults' \in 0 .. MaxFaults
      /\ since' \in [Clients -> 0 .. MaxEvents \cup {None}]
  BY <1>2, <1>3
<1> QED
  BY <1>5, <1>6, <1>7, StreamOnly

LEMMA SendRowStep == ASSUME NEW c \in Clients PROVE StreamInv /\ SendRow(c) => StreamInv' /\ Kept(Clients)
<1> SUFFICES ASSUME StreamInv, SendRow(c) PROVE StreamInv' /\ Kept(Clients)
  OBVIOUS
<1> DEFINE id == Min(conn[c].page)
           x == Send([conn[c] EXCEPT !.page = conn[c].page \ {id}], {id})
<1>1. /\ ClientFits(conn[c], last[c], committed, OnTheWay, listening)
      /\ last[c] \in committed \cup {None} /\ committed \in SUBSET Ids
      /\ OnTheWay \in SUBSET committed /\ listening \in BOOLEAN
  BY OfClient
<1>2. /\ conn[c].sync = "page" /\ conn[c].page # {}
      /\ conn' = [conn EXCEPT ![c] = x]
      /\ UNCHANGED <<rows, hub, tabs, since, faults>>
  BY DEF SendRow
<1>3. /\ conn \in [Clients -> Conn] /\ faults \in 0 .. MaxFaults
      /\ since \in [Clients -> 0 .. MaxEvents \cup {None}]
  BY DEF StreamInv, TabsOK
<1>4. ASSUME NEW l \in committed \cup {0, None},
             ClientFits(conn[c], l, committed, OnTheWay, listening)
      PROVE  ClientFits(x, l, committed, OnTheWay, listening)
  <2> HIDE DEF id
  <2>1. id = Min(conn[c].page)
    BY DEF id
  <2> QED
    BY <1>1, <1>2, <1>4, <2>1, RowSentFits
<1> HIDE DEF x
<1>5. conn' = [d \in Clients |-> IF d = c THEN x ELSE conn[d]]
  BY <1>2, <1>3
<1>6. UNCHANGED <<rows, hub, tabs>> /\ faults' \in 0 .. MaxFaults
      /\ since' \in [Clients -> 0 .. MaxEvents \cup {None}]
  BY <1>2, <1>3
<1> QED
  BY <1>4, <1>5, <1>6, StreamOnly

LEMMA PageDoneStep == ASSUME NEW c \in Clients PROVE StreamInv /\ PageDone(c) => StreamInv' /\ Kept(Clients)
<1> SUFFICES ASSUME StreamInv, PageDone(c) PROVE StreamInv' /\ Kept(Clients)
  OBVIOUS
<1> DEFINE n == conn[c]
           x == IF n.full THEN [n EXCEPT !.sync = "query"]
                ELSE IF n.resync THEN StartBacklog(n) ELSE Flush(n)
<1>1. /\ ClientFits(n, last[c], committed, OnTheWay, listening)
      /\ last[c] \in committed \cup {None} /\ committed \in SUBSET Ids
      /\ OnTheWay \in SUBSET committed /\ listening \in BOOLEAN
  BY OfClient
<1>2. /\ n.sync = "page" /\ n.page = {} /\ conn' = [conn EXCEPT ![c] = x]
      /\ UNCHANGED <<rows, hub, tabs, since, faults>>
  BY DEF PageDone
<1>3. /\ conn \in [Clients -> Conn] /\ faults \in 0 .. MaxFaults
      /\ since \in [Clients -> 0 .. MaxEvents \cup {None}]
  BY DEF StreamInv, TabsOK
<1> HIDE DEF n
<1>4. n.open /\ n.lastSent # None
  BY <1>1, <1>2 DEF ClientFits, StreamFits
<1>5. ASSUME NEW l \in committed \cup {0, None},
             ClientFits(n, l, committed, OnTheWay, listening)
      PROVE  ClientFits(x, l, committed, OnTheWay, listening)
  <2>1. CASE n.full
    <3>1. ClientFits([n EXCEPT !.sync = "query"], l, committed, OnTheWay, listening)
      BY <1>1, <1>2, <1>5, MoreFits
    <3> QED
      BY <2>1, <3>1
  <2>2. CASE ~n.full /\ n.resync
    BY <1>1, <1>4, <1>5, <2>2, RereadFits
  <2>3. CASE ~n.full /\ ~n.resync
    <3>1. AtTheEnd(n)
      BY <1>2, <1>4, <2>3 DEF AtTheEnd
    <3>2. ClientFits(Flush(n), l, committed, OnTheWay, listening)
      BY <1>1, <1>2, <1>5, <3>1, FlushFits
    <3> QED
      BY <2>3, <3>2
  <2> QED
    BY <2>1, <2>2, <2>3
<1> HIDE DEF x
<1>6. conn' = [d \in Clients |-> IF d = c THEN x ELSE conn[d]]
  BY <1>2, <1>3
<1>7. conn[c] = n
  BY DEF n
<1>8. UNCHANGED <<rows, hub, tabs>> /\ faults' \in 0 .. MaxFaults
      /\ since' \in [Clients -> 0 .. MaxEvents \cup {None}]
  BY <1>2, <1>3
<1> QED
  BY <1>5, <1>6, <1>7, <1>8, StreamOnly

LEMMA QueryFailsStep == ASSUME NEW c \in Clients PROVE StreamInv /\ QueryFails(c) => StreamInv' /\ Kept(Clients)
<1> SUFFICES ASSUME StreamInv, QueryFails(c) PROVE StreamInv' /\ Kept(Clients)
  OBVIOUS
<1> DEFINE x == Ended(conn[c])
<1>1. /\ ClientFits(conn[c], last[c], committed, OnTheWay, listening)
      /\ last[c] \in committed \cup {None} /\ committed \in SUBSET Ids
      /\ OnTheWay \in SUBSET committed /\ listening \in BOOLEAN
  BY OfClient
<1>2. Fault /\ conn' = [conn EXCEPT ![c] = x] /\ UNCHANGED <<rows, hub, tabs, since>>
  BY DEF QueryFails
<1>3. /\ conn \in [Clients -> Conn] /\ faults \in 0 .. MaxFaults
      /\ since \in [Clients -> 0 .. MaxEvents \cup {None}]
  BY DEF StreamInv, TabsOK
<1>4. ASSUME NEW l \in committed \cup {0, None},
             ClientFits(conn[c], l, committed, OnTheWay, listening)
      PROVE  ClientFits(x, l, committed, OnTheWay, listening)
  BY <1>1, <1>4, EndedFits
<1> HIDE DEF x
<1>5. conn' = [d \in Clients |-> IF d = c THEN x ELSE conn[d]]
  BY <1>2, <1>3
<1>6. faults' \in 0 .. MaxFaults /\ since' = since
  BY <1>2, <1>3, FaultCounts
<1>7. UNCHANGED <<rows, hub, tabs>> /\ since' \in [Clients -> 0 .. MaxEvents \cup {None}]
  BY <1>2, <1>3
<1> QED
  BY <1>4, <1>5, <1>6, <1>7, StreamOnly

LEMMA ConnectStep == ASSUME NEW c \in Clients PROVE StreamInv /\ Connect(c) => StreamInv' /\ Kept(Clients \ {c})
<1> SUFFICES ASSUME StreamInv, Connect(c) PROVE StreamInv' /\ Kept(Clients \ {c})
  OBVIOUS
<1> DEFINE x == Opened(last[c])
<1>1. /\ last[c] \in committed \cup {None} /\ committed \in SUBSET Ids
      /\ OnTheWay \in SUBSET committed /\ listening \in BOOLEAN
  BY OfClient
<1>2. /\ source' = [source EXCEPT ![c] = TRUE] /\ conn' = [conn EXCEPT ![c] = x]
      /\ UNCHANGED <<rows, hub>> /\ last' = last /\ since' = since /\ faults' = faults
  BY DEF Connect
<1>3. /\ conn \in [Clients -> Conn] /\ faults \in 0 .. MaxFaults
      /\ source \in [Clients -> BOOLEAN] /\ last \in [Clients -> Ids \cup {None}]
      /\ since \in [Clients -> 0 .. MaxEvents \cup {None}]
  BY DEF StreamInv, TabsOK
<1>4. ClientFits(x, last[c], committed, OnTheWay, listening)
  BY <1>1, OpenedFits
<1> HIDE DEF x
<1>5. /\ conn' = [d \in Clients |-> IF d = c THEN x ELSE conn[d]]
      /\ last' = [d \in Clients |-> IF d = c THEN last[c] ELSE last[d]]
      /\ source' \in [Clients -> BOOLEAN] /\ faults' \in 0 .. MaxFaults
      /\ since' \in [Clients -> 0 .. MaxEvents \cup {None}]
  BY <1>2, <1>3
<1>6. UNCHANGED <<rows, hub>>
  BY <1>2
<1> QED
  BY <1>1, <1>4, <1>5, <1>6, OneClient

LEMMA SeesEndStep == ASSUME NEW c \in Clients PROVE StreamInv /\ SeesEnd(c) => StreamInv' /\ Kept(Clients)
<1> SUFFICES ASSUME StreamInv, SeesEnd(c) PROVE StreamInv' /\ Kept(Clients)
  OBVIOUS
<1>1. /\ ClientFits(conn[c], last[c], committed, OnTheWay, listening)
      /\ last[c] \in committed \cup {None}
  BY OfClient
<1>2. /\ source' = [source EXCEPT ![c] = FALSE] /\ conn' = conn
      /\ UNCHANGED <<rows, hub>> /\ last' = last /\ since' = since /\ faults' = faults
  BY DEF SeesEnd
<1>3. /\ conn \in [Clients -> Conn] /\ faults \in 0 .. MaxFaults
      /\ source \in [Clients -> BOOLEAN] /\ last \in [Clients -> Ids \cup {None}]
      /\ since \in [Clients -> 0 .. MaxEvents \cup {None}]
  BY DEF StreamInv, TabsOK
<1>4. /\ conn' = [d \in Clients |-> IF d = c THEN conn[c] ELSE conn[d]]
      /\ last' = [d \in Clients |-> IF d = c THEN last[c] ELSE last[d]]
      /\ source' \in [Clients -> BOOLEAN] /\ faults' \in 0 .. MaxFaults
      /\ since' \in [Clients -> 0 .. MaxEvents \cup {None}]
  BY <1>2, <1>3
<1>7. UNCHANGED <<rows, hub>>
  BY <1>2
<1>5. StreamInv'
  BY <1>1, <1>4, <1>7, OneClient
<1>6. Kept(Clients)
  <2>1. committed' = committed /\ OnTheWay' = OnTheWay /\ listening' = listening
    BY <1>2 DEF rows, hub, OnTheWay, Notified, Delivering
  <2> QED
    BY <1>2, <2>1, Same
<1> QED
  BY <1>5, <1>6

LEMMA LoseConnectionStep ==
  ASSUME NEW c \in Clients PROVE StreamInv /\ LoseConnection(c) => StreamInv' /\ Kept(Clients)
<1> SUFFICES ASSUME StreamInv, LoseConnection(c) PROVE StreamInv' /\ Kept(Clients)
  OBVIOUS
<1>1. /\ last[c] \in committed \cup {None} /\ committed \in SUBSET Ids
      /\ OnTheWay \in SUBSET committed /\ listening \in BOOLEAN
  BY OfClient
<1>2. /\ source' = [source EXCEPT ![c] = FALSE] /\ conn' = [conn EXCEPT ![c] = NoConn]
      /\ UNCHANGED <<rows, hub>> /\ last' = last /\ since' = since /\ Fault
  BY DEF LoseConnection, Dropped
<1>3. /\ conn \in [Clients -> Conn] /\ faults \in 0 .. MaxFaults
      /\ source \in [Clients -> BOOLEAN] /\ last \in [Clients -> Ids \cup {None}]
      /\ since \in [Clients -> 0 .. MaxEvents \cup {None}]
  BY DEF StreamInv, TabsOK
<1>4. \A l \in committed \cup {0, None} : ClientFits(NoConn, l, committed, OnTheWay, listening)
  BY <1>1, DroppedFits
<1>5. /\ conn' = [d \in Clients |-> IF d = c THEN NoConn ELSE conn[d]]
      /\ last' = [d \in Clients |-> IF d = c THEN last[c] ELSE last[d]]
      /\ source' \in [Clients -> BOOLEAN] /\ since' \in [Clients -> 0 .. MaxEvents \cup {None}]
  BY <1>2, <1>3
<1>6. faults' \in 0 .. MaxFaults
  BY <1>2, <1>3, FaultCounts
<1>7. UNCHANGED <<rows, hub>>
  BY <1>2
<1>8. StreamInv' /\ Kept(Clients \ {c})
  BY <1>1, <1>4, <1>5, <1>6, <1>7, OneClient
<1>9. Kept({c})
  <2>1. /\ committed' = committed /\ OnTheWay' = OnTheWay /\ listening' = listening
        /\ conn'[c] = NoConn
    BY <1>2, <1>3 DEF rows, hub, OnTheWay, Notified, Delivering
  <2> QED
    BY <1>4, <2>1 DEF Kept
<1>10. Kept(Clients)
  BY <1>8, <1>9 DEF Kept
<1> QED
  BY <1>8, <1>10

\* id is the event that comes right after position l.
NextAfter(l, id) == l = None \/ (l < id /\ \A other \in committed : other <= l \/ id <= other)

\* What the client receives is the next event of the log, whatever position its
\* stream fits.
LEMMA ReceiveStep ==
  ASSUME NEW c \in Clients, StreamInv, Receive(c)
  PROVE  /\ StreamInv' /\ Kept(Clients \ {c}) /\ committed' = committed
         /\ \E id \in committed :
              /\ id = Min(conn[c].wire) /\ last' = [last EXCEPT ![c] = id]
              /\ \A l \in committed \cup {0, None} :
                   ClientFits(conn[c], l, committed, OnTheWay, listening) => NextAfter(l, id)
<1> DEFINE n    == conn[c]
           id   == Min(n.wire)
           left == n.wire \ {id}
           over == IF n.oversized = id THEN None ELSE n.oversized
           need == n.needDrain /\ left # {}
           x    == [n EXCEPT !.wire = left, !.oversized = over, !.needDrain = need]
<1>1. /\ ClientFits(conn[c], last[c], committed, OnTheWay, listening)
      /\ conn[c] \in Conn /\ last[c] \in committed \cup {None} /\ committed \in SUBSET Ids
      /\ OnTheWay \in SUBSET committed /\ listening \in BOOLEAN
  BY OfClient
<1>2. /\ conn[c].wire # {} /\ last' = [last EXCEPT ![c] = id]
      /\ conn' = [conn EXCEPT ![c].wire = left, ![c].oversized = over, ![c].needDrain = need]
      /\ UNCHANGED <<rows, hub, source, since, faults>>
  BY DEF Receive
<1>3. /\ conn \in [Clients -> Conn] /\ faults \in 0 .. MaxFaults
      /\ source \in [Clients -> BOOLEAN] /\ last \in [Clients -> Ids \cup {None}]
      /\ since \in [Clients -> 0 .. MaxEvents \cup {None}]
  BY DEF StreamInv, TabsOK
<1>4. need \in BOOLEAN
  BY <1>1 DEF Conn
<1>5. ASSUME NEW l \in committed \cup {0, None},
             ClientFits(n, l, committed, OnTheWay, listening)
      PROVE  /\ id \in committed /\ NextAfter(l, id)
             /\ ClientFits(x, id, committed, OnTheWay, listening)
  <2>1. /\ n.wire # {} /\ l \in committed \cup {0, None}
        /\ ClientFits(n, l, committed, OnTheWay, listening)
        /\ committed \in SUBSET Ids /\ OnTheWay \in SUBSET committed /\ listening \in BOOLEAN
    BY <1>1, <1>2, <1>5
  <2> HIDE DEF need, n
  <2>5. FirstFits(n, l, committed, OnTheWay, listening)
    BY <2>1, ReceivedFits
  <2>2. /\ id \in committed
        /\ l = None \/ (l < id /\ \A other \in committed : other <= l \/ id <= other)
        /\ \A b \in BOOLEAN : ClientFits(Taken(n, id, b), id, committed, OnTheWay, listening)
    BY <2>5 DEF FirstFits
  <2>3. x = Taken(n, id, need)
    BY DEF Taken
  <2>4. ClientFits(Taken(n, id, need), id, committed, OnTheWay, listening)
    BY <1>4, <2>2
  <2> QED
    BY <2>2, <2>3, <2>4 DEF NextAfter
<1>10. id \in committed /\ ClientFits(x, id, committed, OnTheWay, listening)
  <2> HIDE DEF id, x
  <2> QED
    BY <1>1, <1>5
<1> HIDE DEF over, need
<1>6. conn' = [d \in Clients |-> IF d = c THEN x ELSE conn[d]]
  <2> HIDE DEF id, left
  <2> QED
    BY <1>2, <1>3 DEF Conn
<1> HIDE DEF id, x
<1>7. last' = [d \in Clients |-> IF d = c THEN id ELSE last[d]]
  BY <1>2, <1>3
<1>8. /\ UNCHANGED <<rows, hub>> /\ source' \in [Clients -> BOOLEAN]
      /\ since' \in [Clients -> 0 .. MaxEvents \cup {None}] /\ faults' \in 0 .. MaxFaults
      /\ committed' = committed
  BY <1>2, <1>3 DEF rows
<1>9. StreamInv' /\ Kept(Clients \ {c})
  BY <1>6, <1>7, <1>8, <1>10, OneClient
<1>11. id = Min(conn[c].wire)
  BY DEF id
<1> QED
  BY <1>2, <1>5, <1>8, <1>9, <1>10, <1>11

LEMMA StutterStep == StreamInv /\ UNCHANGED vars => StreamInv' /\ Kept(Clients)
<1> SUFFICES ASSUME StreamInv, UNCHANGED vars PROVE StreamInv' /\ Kept(Clients)
  OBVIOUS
<1>1. /\ LogOK /\ HubOK /\ TabsOK /\ faults \in 0 .. MaxFaults /\ LogFits /\ WayFits
      /\ conn = [c \in Clients |-> conn[c]]
  BY InvParts
<1>2. /\ UNCHANGED rows /\ UNCHANGED hub /\ conn' = conn /\ UNCHANGED tabs
      /\ since' = since /\ faults' = faults
  BY DEF vars
<1>3. LogOK' /\ LogFits' /\ committed' = committed
  BY <1>1, <1>2 DEF rows, LogOK, LogFits
<1>4. HubOK' /\ WayFits' /\ OnTheWay' = OnTheWay /\ listening' = listening
  BY <1>1, <1>2, <1>3 DEF hub, HubOK, WayFits, OnTheWay, Notified, Delivering
<1>5. Kept(Clients)
  BY <1>2, <1>3, <1>4, Same
<1> QED
  BY <1>1, <1>2, <1>3, <1>4, <1>5, AllClients

\* Every step keeps every position its streams fit, but the two of a client that
\* move its own.
LEMMA UnseenStep ==
  ASSUME StreamInv, Unseen \/ UNCHANGED vars
  PROVE  StreamInv' /\ Kept(Clients)
<1>1. CASE Writer
  BY <1>1, AppendStep, CommitStep, RollbackStep DEF Writer
<1>2. CASE Hub
  BY <1>2, HandleListenStep, HandleNotifyStep, DeliverNextStep, EventLoadedStep DEF Hub
<1>3. CASE Failure
  BY <1>3, LoseListenStep, RestartStep, EventLoadedStep, QueryFailsStep, LoseConnectionStep
     DEF Failure
<1>4. ASSUME NEW c \in Clients, Stream(c) PROVE StreamInv' /\ Kept(Clients)
  BY <1>4, AnchorReadStep, AnchorReturnsStep, PageReadStep, SendRowStep, PageDoneStep DEF Stream
<1>5. ASSUME NEW c \in Clients, SeesEnd(c) PROVE StreamInv' /\ Kept(Clients)
  BY <1>5, SeesEndStep
<1>6. CASE UNCHANGED vars
  BY <1>6, StutterStep
<1> QED
  BY <1>1, <1>2, <1>3, <1>4, <1>5, <1>6 DEF Unseen

LEMMA StreamInvStep == StreamInv /\ [Next]_vars => StreamInv'
<1> SUFFICES ASSUME StreamInv, [Next]_vars PROVE StreamInv'
  OBVIOUS
<1>1. CASE Unseen \/ UNCHANGED vars
  BY <1>1, UnseenStep
<1>2. ASSUME NEW c \in Clients, Connect(c) \/ Receive(c) PROVE StreamInv'
  BY <1>2, ConnectStep, ReceiveStep
<1> QED
  BY <1>1, <1>2 DEF Next

-----------------------------------------------------------------------------
(* The theorems                                                            *)

LEMMA StreamInvAlways == Spec => []StreamInv
BY StreamInvInit, StreamInvStep, PTL DEF Spec

\* Whatever a client does and however slow it is, what the hub holds for it is
\* well formed and bounded by the cap, for every cap, page size and set of large
\* events (sse-connection.ts, write and drop; task-stream.ts, push).
THEOREM MemoryIsBounded == Spec => []MemoryFits
<1>1. StreamInv => MemoryFits
  BY DEF StreamInv, MemoryFits, MemoryBounded, TypeOK, ClientFits
<1> QED
  BY <1>1, StreamInvAlways, PTL

\* An open stream that is not syncing has sent all that is committed, unless LISTEN
\* is down or the event is on its way (task-stream.ts, sync and resync).
THEOREM NothingIsOwed == Spec => []IdleIsCaughtUp
<1>1. ASSUME StreamInv, listening, channel = <<>>, delivery = <<>>,
             NEW c \in Clients, conn[c].open, conn[c].sync = "none", NEW id \in committed
      PROVE  id <= conn[c].lastSent
  <2> DEFINE n == conn[c]
  <2>1. /\ ConnOK(n) /\ StreamFits(n, last[c], committed, OnTheWay, listening)
        /\ last[c] \in committed \cup {None} /\ committed \in SUBSET Ids
    BY <1>1, OfClient DEF ClientFits
  <2>2. OnTheWay = {}
    BY <1>1 DEF OnTheWay, Notified, Delivering
  <2> HIDE DEF n
  <2>3. n.open /\ n.sync = "none"
    BY <1>1 DEF n
  <2>4. n.buffer = {} /\ n.page = {} /\ AtTheEnd(n) /\ n.lastSent # None
        /\ n.lastSent \in committed \cup {0}
    BY <2>1, <2>3 DEF ConnOK, StreamFits, AtTheEnd
  <2>5. ~(n.lastSent < id)
    BY <1>1, <2>1, <2>2, <2>4 DEF StreamFits
  <2>6. n.lastSent \in Nat /\ id \in Nat
    <3>1. committed \in SUBSET Nat
      BY <2>1, Limits
    <3>2. n.lastSent \in committed \/ n.lastSent = 0
      BY <2>4
    <3>3. n.lastSent \in committed => n.lastSent \in Nat
      BY <3>1, Zenon
    <3>4. 0 \in Nat
      OBVIOUS
    <3> QED
      BY <3>1, <3>2, <3>3, <3>4, Zenon
  <2> QED
    BY <2>5, <2>6 DEF n
<1>2. StreamInv => IdleIsCaughtUp
  BY <1>1 DEF IdleIsCaughtUp
<1> QED
  BY <1>2, StreamInvAlways, PTL

\* Every step of the program extends the log, delivers its next event to a client,
\* or leaves both alone.
LEMMA FeedStep == StreamInv /\ [Next]_vars => [Feed!FeedNext]_Feed!feedVars
<1> SUFFICES ASSUME StreamInv, [Next]_vars PROVE [Feed!FeedNext]_Feed!feedVars
  OBVIOUS
<1>1. ASSUME NEW id \in uncommitted, Commit(id) PROVE Feed!FeedNext
  <2>1. id \in Ids /\ \A x \in committed : x < id
    BY DEF StreamInv, LogOK, LogFits
  <2>2. committed' = committed \cup {id} /\ last' = last
    BY <1>1 DEF Commit, tabs
  <2> QED
    BY <2>1, <2>2 DEF Feed!FeedNext, Feed!Extend
<1>2. ASSUME NEW c \in Clients, Receive(c) PROVE Feed!FeedNext
  <2>1. /\ committed' = committed /\ committed \in SUBSET Ids
        /\ \E id \in committed : last' = [last EXCEPT ![c] = id] /\ NextAfter(last[c], id)
    BY <1>2, ReceiveStep, OfClient
  <2> QED
    BY <2>1 DEF NextAfter, Feed!FeedNext, Feed!Deliver, Feed!Follows
<1>3. AppendEvent \/ (\E id \in uncommitted : Rollback(id)) => UNCHANGED <<committed, last>>
  BY DEF AppendEvent, Rollback, tabs
<1>4. Hub => UNCHANGED <<committed, last>>
  BY DEF Hub, HandleListen, HandleNotify, DeliverNext, EventLoaded, rows, tabs
<1>5. Failure => UNCHANGED <<committed, last>>
  BY DEF Failure, LoseListen, RestartApi, EventLoadFails, QueryFails, LoseConnection, rows, tabs
<1>6. ASSUME NEW c \in Clients, Stream(c) \/ SeesEnd(c) \/ Connect(c)
      PROVE  UNCHANGED <<committed, last>>
  BY <1>6 DEF Stream, AnchorRead, AnchorReturns, PageRead, SendRow, PageDone, SeesEnd, Connect,
              rows, tabs
<1>7. UNCHANGED vars => UNCHANGED <<committed, last>>
  BY DEF vars, rows, tabs
<1> QED
  BY <1>1, <1>2, <1>3, <1>4, <1>5, <1>6, <1>7 DEF Next, Unseen, Writer, Feed!feedVars

\* The realtime path implements the abstract feed: from its first event on, a client
\* receives every event of the task, once and in the order of the log.
THEOREM StreamsImplementTheFeed == Spec => ImplementsFeed
<1>1. Init => Feed!FeedInit
  BY DEF Init, Feed!FeedInit
<1> QED
  BY <1>1, FeedStep, StreamInvAlways, PTL DEF Spec, ImplementsFeed, Feed!FeedSpec

-----------------------------------------------------------------------------
LEMMA ViewLimits == ViewPage \in Nat \ {0}
BY ViewAssumption

-----------------------------------------------------------------------------
(* The streams below the view                                              *)

\* A step of the page is a step of TaskStream, or none.
LEMMA ViewStep == ViewNext => [Next]_vars
BY DEF ViewNext, Next

LEMMA ViewRefines == ViewSpec => Spec
<1>1. [ViewNext]_viewVars => [Next]_vars
  BY ViewStep DEF viewVars
<1>2. ViewInit => Init
  BY DEF ViewInit
<1> QED
  BY <1>1, <1>2, PTL DEF ViewSpec, Spec

\* The hub's memory is bounded whatever the page fetches meanwhile.
THEOREM MemoryIsBoundedBelow == ViewSpec => []MemoryFits
BY ViewRefines, MemoryIsBounded, PTL

\* The streams implement the feed whatever the page fetches meanwhile.
THEOREM StreamsImplementTheFeedBelow == ViewSpec => ImplementsFeed
BY ViewRefines, StreamsImplementTheFeed, PTL

-----------------------------------------------------------------------------
(* What a step the page does not see leaves of a stream                    *)

\* It does not open the stream, and sends nothing on one without a position.
Calm(n, m) ==
  /\ m.open => n.open
  /\ n.lastSent = None /\ n.wire = {} => m.lastSent = None /\ m.wire = {}

LEMMA CalmDropped == \A n : Calm(n, NoConn)
BY NoConnOK DEF Calm

LEMMA CalmEnded == ASSUME NEW n \in Conn PROVE Calm(n, Ended(n))
BY NoConnOK DEF Calm, Ended, NoConn, Conn

LEMMA CalmResync == ASSUME NEW n \in Conn PROVE Calm(n, Resync(n))
BY DEF Calm, Resync, StartBacklog, Conn

\* A stream without a position is reading its anchor, and holds what is pushed.
LEMMA CalmPush ==
  ASSUME NEW n \in Conn, NEW id, n.open /\ n.lastSent = None => n.sync = "anchor"
  PROVE  Calm(n, Push(n, id))
<1>1. CASE ~n.open
  BY <1>1 DEF Push, Send, Calm
<1>2. CASE n.open /\ n.lastSent # None
  BY <1>2 DEF Calm
<1>3. CASE n.open /\ n.sync = "anchor"
  <2>1. Push(n, id) = IF PastCap(n, id) THEN NoConn ELSE [n EXCEPT !.buffer = @ \cup {id}]
    BY <1>3 DEF Push, Dropped
  <2>2. Calm(n, [n EXCEPT !.buffer = @ \cup {id}])
    BY DEF Calm, Conn
  <2> QED
    BY <2>1, <2>2, CalmDropped
<1> QED
  BY <1>1, <1>2, <1>3

\* What a step the page does not see keeps for client c: the ids it has received,
\* and its first anchor, but that an open stream may read it and then stands there.
Quiet(c) ==
  /\ last' = last
  /\ \/ since'[c] = since[c] /\ (since[c] = None => Calm(conn[c], conn'[c]))
     \/ since[c] = None /\ since'[c] # None /\ ClientFits(conn'[c], since'[c], committed', OnTheWay', listening')
  /\ conn'[c].open => conn[c].open
  /\ since[c] # since'[c] => conn[c].open

\* The log only grows, and at its end.
LogGrows ==
  /\ committed \subseteq committed'
  /\ \A x \in committed' \ committed, y \in committed : y < x

\* The streams of the clients of a step that moves one of them.
LEMMA QuietOthers ==
  ASSUME StreamInv, NEW c \in Clients, NEW x, Calm(conn[c], x),
         conn' = [conn EXCEPT ![c] = x], last' = last, since' = since
  PROVE  \A d \in Clients : Quiet(d)
<1>1. conn \in [Clients -> Conn]
  BY DEF StreamInv
<1> QED
  BY <1>1 DEF Quiet, Calm

\* A step that may move every stream.
LEMMA QuietAll ==
  ASSUME last' = last, since' = since, \A d \in Clients : Calm(conn[d], conn'[d])
  PROVE  \A d \in Clients : Quiet(d)
BY DEF Quiet, Calm

LEMMA QuietSame == ASSUME conn' = conn, last' = last, since' = since
                   PROVE  \A d \in Clients : Quiet(d)
BY DEF Quiet, Calm

\* A stream that is syncing is open, and one that has no position is not past its
\* anchor.
LEMMA Position ==
  ASSUME StreamInv, NEW c \in Clients
  PROVE  /\ conn[c] \in Conn
         /\ conn[c].sync # "none" => conn[c].open
         /\ conn[c].open /\ conn[c].lastSent = None => conn[c].sync = "anchor"
         /\ conn[c].sync = "anchor" => conn[c].lastSent = None
BY OfClient DEF ClientFits, StreamFits

LEMMA QuietWriter == StreamInv /\ Writer => LogGrows /\ \A d \in Clients : Quiet(d)
<1> SUFFICES ASSUME StreamInv, Writer PROVE LogGrows /\ \A d \in Clients : Quiet(d)
  OBVIOUS
<1>1. conn' = conn /\ last' = last /\ since' = since
  BY DEF Writer, AppendEvent, Commit, Rollback, tabs
<1>2. ASSUME NEW id \in uncommitted, Commit(id) PROVE LogGrows
  BY <1>2 DEF Commit, LogGrows, StreamInv, LogFits
<1>3. AppendEvent \/ (\E id \in uncommitted : Rollback(id)) => committed' = committed
  BY DEF AppendEvent, Rollback
<1> QED
  BY <1>1, <1>2, <1>3, QuietSame DEF Writer, LogGrows

LEMMA QuietHub == StreamInv /\ Hub => LogGrows /\ \A d \in Clients : Quiet(d)
<1> SUFFICES ASSUME StreamInv, Hub PROVE LogGrows /\ \A d \in Clients : Quiet(d)
  OBVIOUS
<1>1. committed' = committed /\ last' = last /\ since' = since
  BY DEF Hub, HandleListen, HandleNotify, DeliverNext, EventLoaded, rows, tabs
<1>2. ASSUME NEW d \in Clients, NEW id
      PROVE  Calm(conn[d], Resync(conn[d])) /\ Calm(conn[d], Push(conn[d], id))
  BY Position, CalmResync, CalmPush
<1>3. CASE HandleListen
  <2>1. conn' = [d \in Clients |-> Resync(conn[d])]
    BY <1>3 DEF HandleListen
  <2>2. \A d \in Clients : Calm(conn[d], conn'[d])
    BY <1>2, <2>1
  <2> QED
    BY <1>1, <2>2, QuietAll DEF LogGrows
<1>4. CASE DeliverNext
  <2>1. conn' = [d \in Clients |-> IF Head(delivery).row = "failed" THEN Resync(conn[d])
                                   ELSE Push(conn[d], Head(delivery).event)]
    BY <1>4 DEF DeliverNext
  <2>2. \A d \in Clients : Calm(conn[d], conn'[d])
    BY <1>2, <2>1
  <2> QED
    BY <1>1, <2>2, QuietAll DEF LogGrows
<1>5. CASE HandleNotify \/ \E i \in DOMAIN delivery : EventLoaded(i)
  <2>1. conn' = conn
    BY <1>5 DEF HandleNotify, EventLoaded
  <2> QED
    BY <1>1, <2>1, QuietSame DEF LogGrows
<1> QED
  BY <1>1, <1>3, <1>4, <1>5 DEF Hub, LogGrows

LEMMA QuietFailure == StreamInv /\ Failure => LogGrows /\ \A d \in Clients : Quiet(d)
<1> SUFFICES ASSUME StreamInv, Failure PROVE LogGrows /\ \A d \in Clients : Quiet(d)
  OBVIOUS
<1>1. committed' = committed /\ last' = last /\ since' = since
  BY DEF Failure, LoseListen, RestartApi, EventLoadFails, QueryFails, LoseConnection, rows, tabs
<1>2. CASE RestartApi
  <2>1. conn' = [d \in Clients |-> NoConn]
    BY <1>2 DEF RestartApi, Dropped
  <2>2. \A d \in Clients : Calm(conn[d], conn'[d])
    BY <2>1, CalmDropped
  <2> QED
    BY <1>1, <2>2, QuietAll DEF LogGrows
<1>3. ASSUME NEW c \in Clients, QueryFails(c) PROVE \A d \in Clients : Quiet(d)
  BY <1>1, <1>3, Position, CalmEnded, QuietOthers DEF QueryFails
<1>4. ASSUME NEW c \in Clients, LoseConnection(c) PROVE \A d \in Clients : Quiet(d)
  BY <1>1, <1>4, CalmDropped, QuietOthers DEF LoseConnection, Dropped
<1>5. CASE LoseListen \/ \E i \in DOMAIN delivery : EventLoadFails(i)
  <2>1. conn' = conn
    BY <1>5 DEF LoseListen, EventLoadFails
  <2> QED
    BY <1>1, <2>1, QuietSame DEF LogGrows
<1> QED
  BY <1>1, <1>2, <1>3, <1>4, <1>5 DEF Failure, LogGrows

\* The anchor is read once: the client stands there from then on.
LEMMA QuietAnchor ==
  ASSUME StreamInv, NEW c \in Clients, AnchorRead(c)
  PROVE  \A d \in Clients : Quiet(d)
<1> DEFINE a == Max(committed \cup {0})
           x == [conn[c] EXCEPT !.sync = "anchored", !.lastSent = a]
<1>1. /\ ClientFits(conn[c], last[c], committed, OnTheWay, listening)
      /\ conn[c] \in Conn /\ last[c] \in committed \cup {0, None} /\ committed \in SUBSET Ids
      /\ OnTheWay \in SUBSET committed /\ listening \in BOOLEAN
  BY OfClient
<1>2. /\ conn[c].sync = "anchor"
      /\ conn' = [conn EXCEPT ![c].sync = "anchored", ![c].lastSent = a]
      /\ since' = [since EXCEPT ![c] = IF since[c] = None THEN a ELSE since[c]]
      /\ UNCHANGED <<rows, hub, tabs, faults>>
  BY DEF AnchorRead
<1>3. a \in 0 .. MaxEvents /\ ClientFits(x, a, committed, OnTheWay, listening)
  BY <1>1, <1>2, AnchorFits
<1>4. conn \in [Clients -> Conn] /\ since \in [Clients -> 0 .. MaxEvents \cup {None}]
  BY DEF StreamInv, TabsOK
<1> HIDE DEF a
<1>5. conn' = [d \in Clients |-> IF d = c THEN x ELSE conn[d]]
  BY <1>2, <1>4 DEF Conn
<1>6. x.open = conn[c].open /\ conn[c].open
  BY <1>1, <1>2, Position DEF Conn
<1> HIDE DEF x
<1>7. /\ last' = last /\ committed' = committed /\ listening' = listening
      /\ OnTheWay' = OnTheWay /\ a # None
  BY <1>2, <1>3, StreamAssumption DEF rows, hub, tabs, OnTheWay, Notified, Delivering
<1>8. since' = [d \in Clients |-> IF d = c /\ since[c] = None THEN a ELSE since[d]]
  BY <1>2, <1>4
<1>9. Quiet(c)
  BY <1>3, <1>5, <1>6, <1>7, <1>8 DEF Quiet
<1>10. ASSUME NEW d \in Clients, d # c PROVE Quiet(d)
  BY <1>5, <1>7, <1>8, <1>10 DEF Quiet, Calm
<1> QED
  BY <1>9, <1>10

LEMMA QuietStream ==
  ASSUME StreamInv, NEW c \in Clients, Stream(c)
  PROVE  LogGrows /\ \A d \in Clients : Quiet(d)
<1>1. committed' = committed /\ last' = last
  BY DEF Stream, AnchorRead, AnchorReturns, PageRead, SendRow, PageDone, rows, tabs
<1>2. ASSUME ~AnchorRead(c) PROVE \A d \in Clients : Quiet(d)
  <2>1. since' = since /\ conn[c].sync \notin {"none", "anchor"}
    BY <1>2 DEF Stream, AnchorReturns, PageRead, SendRow, PageDone
  <2>2. \A d \in Clients : d # c => conn'[d] = conn[d]
    <3>1. conn \in [Clients -> Conn]
      BY DEF StreamInv
    <3> QED
      BY <1>2, <3>1 DEF Stream, AnchorReturns, PageRead, SendRow, PageDone
  <2>3. conn[c].open /\ conn[c].lastSent # None
    BY <2>1, Position
  <2> QED
    BY <1>1, <2>1, <2>2, <2>3 DEF Quiet, Calm
<1> QED
  BY <1>1, <1>2, QuietAnchor DEF LogGrows

LEMMA QuietStep ==
  ASSUME StreamInv, Unseen \/ UNCHANGED vars
  PROVE  LogGrows /\ \A d \in Clients : Quiet(d)
<1>1. CASE UNCHANGED vars
  BY <1>1, QuietSame DEF vars, rows, tabs, LogGrows
<1>2. ASSUME NEW c \in Clients, SeesEnd(c) PROVE LogGrows /\ \A d \in Clients : Quiet(d)
  BY <1>2, QuietSame DEF SeesEnd, rows, LogGrows
<1> QED
  BY <1>1, <1>2, QuietWriter, QuietHub, QuietFailure, QuietStream DEF Unseen

-----------------------------------------------------------------------------
(* What the page has seen of a stream                                      *)

View == [shown : SUBSET Ids, fetch : Fetches, page : SUBSET Ids, merged : SUBSET Ids,
         after : 0 .. MaxEvents, lastId : 0 .. MaxEvents, opened : BOOLEAN,
         loadedTo : 0 .. MaxEvents \cup {None}, coldFrom : 0 .. MaxEvents \cup {None}]

LEMMA ViewFacts ==
  ASSUME ViewInv
  PROVE  /\ view \in [Clients -> View] /\ DOMAIN view = Clients
         /\ \A c \in Clients :
              /\ view[c] \in View /\ view[c].shown \subseteq committed
              /\ view[c].merged # {} => view[c].fetch \in {"loadPage", "loadAnswer"}
BY DEF ViewInv, ViewTypeOK, View

\* The view of one client.
LEMMA OfView ==
  ASSUME ViewInv, StreamInv, NEW c \in Clients
  PROVE  /\ LoadFits(view[c]) /\ SeenFits(c) /\ committed \in SUBSET Nat
         /\ committed \in SUBSET Ids /\ view[c].shown \in SUBSET committed
         /\ since[c] # None => since[c] \in Nat /\ since[c] \in committed \cup {0}
         /\ last[c] # None => last[c] \in Nat /\ last[c] \in committed
<1>1. /\ LoadFits(view[c]) /\ SeenFits(c) /\ view[c].shown \subseteq committed
  BY DEF ViewInv, ViewTypeOK
<1>2. committed \in SUBSET Ids /\ last[c] \in committed \cup {None}
  BY OfClient
<1>3. committed \in SUBSET Nat /\ 0 \in Nat
  BY <1>2, Limits
<1>4. since[c] # None => since[c] \in committed \cup {0}
  BY <1>1 DEF SeenFits
<1> QED
  BY <1>1, <1>2, <1>3, <1>4

\* A stream that the page has not seen receive anything stands at its first anchor.
LEMMA SeenQuiet ==
  ASSUME StreamInv, StreamInv', ViewInv, NEW c \in Clients, view' = view,
         LogGrows, Kept(Clients), Quiet(c)
  PROVE  SeenFits(c)'
<1> DEFINE v == view[c]
<1>1. /\ SeenFits(c) /\ committed \in SUBSET Nat
      /\ since[c] # None => since[c] \in Nat /\ since[c] \in committed \cup {0}
      /\ last[c] # None => last[c] \in Nat /\ last[c] \in committed
  BY OfView
<1>2. /\ last'[c] = last[c] /\ committed \subseteq committed' /\ view'[c] = view[c]
      /\ \A x \in committed', y \in committed : x <= y => x \in committed
  <2>1. committed' \in SUBSET Nat
    BY Limits DEF StreamInv, LogOK
  <2>2. ASSUME NEW x \in committed', NEW y \in committed, x <= y PROVE x \in committed
    <3>1. x \in Nat /\ y \in Nat
      BY <1>1, <2>1
    <3>2. x \notin committed => y < x
      BY DEF LogGrows
    <3> QED
      BY <2>2, <3>1, <3>2
  <2> QED
    BY <2>2 DEF Quiet, LogGrows
<1>3. ~v.opened => ~conn'[c].open /\ since'[c] = None
  BY <1>1 DEF SeenFits, Quiet
<1>4. since'[c] = None => conn'[c].lastSent = None /\ conn'[c].wire = {} /\ last[c] = None
  BY <1>1 DEF SeenFits, Quiet, Calm
<1>5. since'[c] # None => since'[c] \in committed' \cup {0}
  <2>1. CASE since'[c] = since[c]
    BY <1>1, <1>2, <2>1
  <2>2. CASE since'[c] # since[c] /\ since'[c] # None
    BY <2>2 DEF Quiet, ClientFits, SegmentFits
  <2> QED
    BY <2>1, <2>2
<1>6. ASSUME since'[c] # None, v.coldFrom = None, last[c] = None
      PROVE  ClientFits(conn'[c], since'[c], committed', OnTheWay', listening')
  <2>1. CASE since'[c] = since[c]
    <3>1. ClientFits(conn[c], since[c], committed, OnTheWay, listening)
      BY <1>1, <1>6, <2>1 DEF SeenFits
    <3>2. since[c] \in committed \cup {0, None}
      BY <1>1, <1>6, <2>1
    <3> QED
      BY <2>1, <3>1, <3>2 DEF Kept
  <2>2. CASE since'[c] # since[c]
    BY <2>2 DEF Quiet
  <2> QED
    BY <2>1, <2>2
<1>7. ASSUME since'[c] # None, v.coldFrom = None, last[c] # None,
             NEW x \in committed', since'[c] < x, x <= last[c]
      PROVE  x \in v.shown
  <2>1. since[c] # None
    BY <1>1, <1>7 DEF SeenFits
  <2>2. since'[c] = since[c]
    BY <2>1 DEF Quiet
  <2>3. x \in committed
    BY <1>1, <1>2, <1>7
  <2> QED
    BY <1>1, <1>7, <2>1, <2>2, <2>3 DEF SeenFits
<1> QED
  BY <1>2, <1>3, <1>4, <1>5, <1>6, <1>7 DEF SeenFits

\* A stream that opens again without a position is told apart from then on.
LEMMA SeenOpened ==
  ASSUME StreamInv, ViewInv, NEW c \in Clients, Connect(c), OnOpen(c), NEW d \in Clients,
         Kept(Clients \ {c})
  PROVE  SeenFits(d)'
<1>1. /\ committed' = committed /\ last' = last /\ since' = since
      /\ OnTheWay' = OnTheWay /\ listening' = listening
  BY DEF Connect, rows, hub, OnTheWay, Notified, Delivering
<1>2. conn' = [conn EXCEPT ![c] = Opened(last[c])] /\ conn \in [Clients -> Conn]
  BY DEF Connect, StreamInv
<1>3. DOMAIN view = Clients /\ view[c] \in View
  BY ViewFacts DEF View
<1>4. SeenFits(d)
  BY OfView
<1>5. CASE d # c
  <2>1. view'[d] = view[d] /\ conn'[d] = conn[d]
    BY <1>2, <1>3, <1>5 DEF OnOpen
  <2> QED
    BY <1>1, <1>4, <2>1 DEF SeenFits
<1>6. CASE d = c
  <2>1. SeenFits(c)
    BY OfView
  <2>2. conn'[c].lastSent = last[c] /\ conn'[c].wire = {}
    BY <1>2, NoConnOK DEF Opened, NoConn
  <2>3. CASE ~view[c].opened
    <3>1. view'[c] = [view[c] EXCEPT !.opened = TRUE] /\ view'[c].opened
      BY <1>3, <2>3 DEF OnOpen, View
    <3>2. since[c] = None /\ last[c] = None
      BY <2>1, <2>3 DEF SeenFits
    <3> QED
      BY <1>1, <1>6, <2>2, <3>1, <3>2 DEF SeenFits
  <2>4. CASE view[c].opened
    <3>1. /\ view'[c].opened /\ view'[c].shown = view[c].shown
          /\ view'[c].coldFrom = IF last[c] = None THEN view[c].lastId ELSE view[c].coldFrom
      BY <1>3, <2>4 DEF OnOpen, Reopened, View
    <3>2. last[c] = None => view'[c].coldFrom # None
      BY <1>3, <3>1, StreamAssumption DEF View
    <3> QED
      BY <1>1, <1>6, <2>1, <2>2, <3>1, <3>2 DEF SeenFits
  <2> QED
    BY <2>3, <2>4
<1> QED
  BY <1>5, <1>6

\* What the client receives is right after what the page shows.
LEMMA SeenReceived ==
  ASSUME StreamInv, ViewInv, NEW c \in Clients, Receive(c), OnEvent(c, Min(conn[c].wire)),
         NEW d \in Clients
  PROVE  SeenFits(d)'
<1>1. /\ committed' = committed /\ since' = since
      /\ OnTheWay' = OnTheWay /\ listening' = listening
  BY DEF Receive, rows, hub, OnTheWay, Notified, Delivering
<1>2. PICK id \in committed :
         /\ id = Min(conn[c].wire) /\ last' = [last EXCEPT ![c] = id]
         /\ \A l \in committed \cup {0, None} :
              ClientFits(conn[c], l, committed, OnTheWay, listening) => NextAfter(l, id)
  BY ReceiveStep
<1>3. \A b \in Clients : b # c => conn'[b] = conn[b] /\ last'[b] = last[b]
  <2>1. conn \in [Clients -> Conn]
    BY DEF StreamInv
  <2> QED
    BY <1>2, <2>1 DEF Receive
<1>4. DOMAIN view = Clients /\ view[c] \in View
  BY ViewFacts DEF View
<1>5. CASE d # c
  <2>1. view'[d] = view[d] /\ SeenFits(d)
    BY <1>4, <1>5, OfView DEF OnEvent
  <2> QED
    BY <1>1, <1>3, <1>5, <2>1 DEF SeenFits
<1>6. CASE d = c
  <2>1. /\ SeenFits(c) /\ committed \in SUBSET Nat
        /\ since[c] # None => since[c] \in Nat /\ since[c] \in committed \cup {0}
        /\ last[c] # None => last[c] \in Nat /\ last[c] \in committed
    BY OfView
  <2>2. /\ view'[c].opened = view[c].opened /\ view'[c].coldFrom = view[c].coldFrom
        /\ view'[c].shown = view[c].shown \cup {id}
    BY <1>2, <1>4 DEF OnEvent, View
  <2>3. last'[c] = id /\ id \in Nat /\ id # None
    BY <1>2, <2>1, OfClient, StreamAssumption
  <2>4. conn'[c].open = conn[c].open /\ conn[c].wire # {}
    <3>1. conn \in [Clients -> Conn]
      BY DEF StreamInv
    <3> QED
      BY <3>1 DEF Receive, Conn
  <2>5. since[c] # None
    BY <2>1, <2>4 DEF SeenFits
  <2>6. ASSUME view[c].coldFrom = None, NEW x \in committed, since[c] < x, x <= id
        PROVE  x \in view[c].shown \cup {id}
    <3>1. CASE last[c] = None
      <4>1. ClientFits(conn[c], since[c], committed, OnTheWay, listening)
        BY <2>1, <2>5, <2>6, <3>1 DEF SeenFits
      <4>2. \A other \in committed : other <= since[c] \/ id <= other
        BY <1>2, <2>1, <2>5, <4>1 DEF NextAfter
      <4> QED
        BY <2>1, <2>3, <2>5, <2>6, <4>2
    <3>2. CASE last[c] # None
      <4>1. ClientFits(conn[c], last[c], committed, OnTheWay, listening)
        BY OfClient
      <4>2. \A other \in committed : other <= last[c] \/ id <= other
        BY <1>2, <2>1, <3>2, <4>1 DEF NextAfter
      <4>3. x <= last[c] => x \in view[c].shown
        BY <2>1, <2>5, <2>6, <3>2 DEF SeenFits
      <4> QED
        BY <2>1, <2>3, <2>6, <4>2, <4>3
    <3> QED
      BY <3>1, <3>2
  <2>7. ~view[c].opened => ~conn[c].open /\ since[c] = None
    BY <2>1 DEF SeenFits
  <2> QED
    BY <1>1, <1>6, <2>1, <2>2, <2>3, <2>4, <2>5, <2>6, <2>7 DEF SeenFits
<1> QED
  BY <1>5, <1>6

\* What a fetch shows adds to what is seen.
LEMMA SeenMore ==
  ASSUME ViewInv, StreamInv, UNCHANGED vars, NEW d \in Clients,
         view'[d].opened = view[d].opened, view'[d].coldFrom = view[d].coldFrom,
         view[d].shown \subseteq view'[d].shown
  PROVE  SeenFits(d)'
<1>1. /\ committed' = committed /\ last' = last /\ since' = since /\ conn' = conn
      /\ OnTheWay' = OnTheWay /\ listening' = listening
  BY DEF vars, rows, hub, tabs, OnTheWay, Notified, Delivering
<1>2. SeenFits(d)
  BY OfView
<1> QED
  BY <1>1, <1>2 DEF SeenFits

-----------------------------------------------------------------------------
(* What the page has loaded                                                *)

\* The log grows behind what was loaded.
LEMMA LoadGrown ==
  ASSUME StreamInv, StreamInv', ViewInv, NEW c \in Clients, view' = view, LogGrows
  PROVE  LoadFits(view[c])'
<1> DEFINE v == view[c]
<1>1. LoadFits(v) /\ v \in View /\ committed \in SUBSET Ids /\ committed' \in SUBSET Ids
  BY OfView, ViewFacts DEF StreamInv, LogOK
<1>2. committed \subseteq committed' /\ committed \in SUBSET Nat /\ committed' \in SUBSET Nat
  BY <1>1, Limits DEF LogGrows
<1>3. ASSUME NEW a \in committed \cup {0}, NEW x \in committed', x <= a PROVE x \in committed
  <2>1. x \in Nat /\ 0 < x
    BY <1>1, Limits
  <2>2. a \in committed => a \in Nat
    BY <1>2
  <2>3. x \notin committed /\ a \in committed => a < x
    BY DEF LogGrows
  <2> QED
    BY <1>3, <2>1, <2>2, <2>3
<1>4. v.merged \subseteq committed /\ v.page \subseteq committed
  BY <1>1 DEF LoadFits
<1> HIDE DEF v
<1>5. LoadFits(v)'
  <2>1. v' = v
    BY DEF v
  <2>2. ASSUME v.fetch \in {"loadPage", "loadAnswer"}, NEW x \in committed', x <= v.after
        PROVE  x \in v.merged
    <3>1. v.after \in committed \cup {0}
      BY <1>1, <1>4, <2>2 DEF LoadFits
    <3>2. x \in committed
      BY <1>3, <2>2, <3>1
    <3> QED
      BY <1>1, <2>2, <3>2 DEF LoadFits
  <2>3. ASSUME v.fetch = "loadAnswer", NEW p \in v.page, NEW x \in committed', v.after < x, x <= p
        PROVE  x \in v.page
    <3>1. x \in committed
      BY <1>3, <1>4, <2>3
    <3> QED
      BY <1>1, <2>3, <3>1 DEF LoadFits
  <2>4. ASSUME v.loadedTo # None, NEW x \in committed', x <= v.loadedTo
        PROVE  x \in v.shown
    <3>1. v.loadedTo \in committed \cup {0}
      BY <1>1, <2>4 DEF LoadFits
    <3>2. x \in committed
      BY <1>3, <2>4, <3>1
    <3> QED
      BY <1>1, <2>4, <3>2 DEF LoadFits
  <2> QED
    BY <1>1, <1>2, <2>1, <2>2, <2>3, <2>4 DEF LoadFits
<1> QED
  BY <1>5 DEF v

\* loadAll() is as it was, or is not under way.
LEMMA LoadKept ==
  ASSUME NEW v \in View, NEW w \in View, LoadFits(v), v.shown \subseteq w.shown, w.loadedTo = v.loadedTo,
         \/ w.fetch = v.fetch /\ w.page = v.page /\ w.merged = v.merged /\ w.after = v.after
         \/ w.fetch \notin {"loadPage", "loadAnswer"} /\ w.merged \cup w.page \subseteq committed
  PROVE  LoadFits(w)
BY DEF LoadFits

\* loadAll() asks for its first page.
LEMMA LoadBegun ==
  ASSUME NEW v \in View, NEW w \in View, LoadFits(v), committed \in SUBSET Ids,
         v.shown \subseteq w.shown, w.loadedTo = v.loadedTo,
         w.fetch = "loadPage", w.after = 0, w.merged = {}, w.page \subseteq committed
  PROVE  LoadFits(w)
<1>1. ASSUME NEW x \in committed, x <= 0 PROVE FALSE
  <2>1. x \in Nat \ {0}
    BY Limits
  <2> QED
    BY <1>1, <2>1
<1> QED
  BY <1>1 DEF LoadFits

\* Its answer goes on where the last page ended.
LEMMA LoadServed ==
  ASSUME NEW v \in View, LoadFits(v), v.fetch = "loadPage", NEW w \in View,
         w = [v EXCEPT !.fetch = "loadAnswer", !.page = ViewRows(v.after)],
         committed \in SUBSET Ids
  PROVE  LoadFits(w)
<1>1. v.after \in Nat
  BY Limits DEF View
<1>2. ViewRows(v.after) = PageOf(committed, v.after, ViewPage) /\ ViewPage \in Nat
  BY ViewLimits DEF ViewRows, PageOf
<1>3. /\ ViewRows(v.after) \in SUBSET committed
      /\ \A p \in ViewRows(v.after) :
           v.after < p /\ \A x \in committed : v.after < x /\ x <= p => x \in ViewRows(v.after)
  BY <1>1, <1>2, PageLaw
<1>4. /\ w.page = ViewRows(v.after) /\ w.fetch = "loadAnswer" /\ w.after = v.after
      /\ w.merged = v.merged /\ w.loadedTo = v.loadedTo /\ w.shown = v.shown
  BY DEF View
<1> QED
  BY <1>3, <1>4 DEF LoadFits

\* Its pages so far and the answer are the log up to the last of them.
LEMMA LoadPrefix ==
  ASSUME NEW v \in View, LoadFits(v), v.fetch = "loadAnswer", committed \in SUBSET Ids,
         NEW p \in v.merged \cup v.page \cup {0}, NEW x \in committed, x <= p
  PROVE  x \in v.merged \cup v.page
<1>1. /\ x \in Nat /\ p \in Nat /\ v.after \in Nat /\ 0 < x
  <2>1. v.merged \cup v.page \subseteq committed
    BY DEF LoadFits
  <2>2. committed \in SUBSET (Nat \ {0})
    BY Limits
  <2> QED
    BY <2>1, <2>2, Limits DEF View
<1>2. CASE x <= v.after
  BY <1>2 DEF LoadFits
<1>3. CASE ~(x <= v.after)
  <2>1. v.after < x
    BY <1>1, <1>3
  <2>2. p \in v.page
    <3>1. p \notin v.merged
      <4>1. \A m \in v.merged : m <= v.after
        BY DEF LoadFits
      <4> QED
        BY <1>1, <2>1, <4>1
    <3> QED
      BY <1>1, <3>1
  <2> QED
    BY <2>1, <2>2 DEF LoadFits
<1> QED
  BY <1>2, <1>3

\* What LoadPage and CatchUpPage leave of a view.
Loaded(v) ==
  LET all == v.merged \cup v.page
  IN  IF Cardinality(v.page) < ViewPage
      THEN [v EXCEPT !.fetch = "none", !.page = {}, !.merged = {}, !.after = 0,
                     !.shown = ShowLoaded(v, all), !.lastId = Max({v.lastId} \cup all),
                     !.loadedTo = Max(all \cup {0})]
      ELSE [v EXCEPT !.fetch = "loadPage", !.page = {}, !.merged = all, !.after = Max(v.page)]

Caught(v) ==
  LET more == Cardinality(v.page) = ViewPage
  IN  [v EXCEPT !.fetch = IF more THEN "catchPage" ELSE "none",
                !.page = {},
                !.after = IF more THEN Max(v.page) ELSE 0,
                !.shown = v.shown \cup v.page,
                !.lastId = IF v.page = {} THEN v.lastId ELSE Max(v.page)]

\* Its last page comes back, or it asks for the next.
LEMMA LoadAnswered ==
  ASSUME NEW v \in View, LoadFits(v), v.fetch = "loadAnswer", committed \in SUBSET Ids,
         v.shown \subseteq committed, NEW w, w = Loaded(v)
  PROVE  /\ w \in View /\ LoadFits(w) /\ w.opened = v.opened /\ w.coldFrom = v.coldFrom
         /\ v.shown \subseteq w.shown /\ w.shown \subseteq committed
         /\ w.merged # {} => w.fetch \in {"loadPage", "loadAnswer"}
<1> DEFINE all == v.merged \cup v.page
           top == Max(v.page)
           to  == Max(all \cup {0})
           id  == Max({v.lastId} \cup all)
<1>1. /\ v.page \in SUBSET committed /\ all \in SUBSET committed /\ all \in SUBSET Ids
      /\ MaxEvents \in Nat /\ \A x \in all \cup {0} : x \in Nat /\ x <= MaxEvents
  <2>1. v.page \in SUBSET committed /\ all \in SUBSET committed
    BY DEF LoadFits
  <2> HIDE DEF all
  <2>2. all \in SUBSET Ids /\ MaxEvents \in Nat /\ 0 \in Nat /\ 0 <= MaxEvents
    BY <2>1, Limits
  <2>3. \A x \in all : x \in Nat /\ x <= MaxEvents
    BY <2>2, Limits
  <2> QED
    BY <2>1, <2>2, <2>3
<1>2. id \in 0 .. MaxEvents
  <2> DEFINE S == {v.lastId} \cup all
  <2>1. S \in SUBSET Nat /\ S # {} /\ \A x \in S : x <= MaxEvents
    BY <1>1 DEF View
  <2> HIDE DEF S
  <2>2. Max(S) \in S
    BY <1>1, <2>1, MaxOf
  <2> QED
    BY <1>1, <2>1, <2>2 DEF S
<1>3. to \in all \cup {0} /\ to \in 0 .. MaxEvents
  <2> DEFINE S == all \cup {0}
  <2>1. S \in SUBSET Nat /\ S # {} /\ \A x \in S : x <= MaxEvents
    BY <1>1
  <2> HIDE DEF S
  <2>2. Max(S) \in S
    BY <1>1, <2>1, MaxOf
  <2> QED
    BY <1>1, <2>1, <2>2 DEF S
<1> HIDE DEF to, id, top
<1>4. CASE Cardinality(v.page) < ViewPage
  <2>1. w = [v EXCEPT !.fetch = "none", !.page = {}, !.merged = {}, !.after = 0,
                      !.shown = v.shown \cup all, !.lastId = id, !.loadedTo = to]
    BY <1>4 DEF Loaded, ShowLoaded, to, id
  <2>2. v.shown \cup all \in SUBSET committed /\ v.shown \cup all \in SUBSET Ids
    BY <1>1
  <2> HIDE DEF all
  <2>3. /\ w \in View /\ w.fetch = "none" /\ w.page = {} /\ w.merged = {} /\ w.shown = v.shown \cup all
        /\ w.loadedTo = to /\ w.opened = v.opened /\ w.coldFrom = v.coldFrom
    <3>1. 0 \in 0 .. MaxEvents /\ to \in 0 .. MaxEvents /\ id \in 0 .. MaxEvents /\ "none" \in Fetches
      BY <1>1, <1>2, <1>3 DEF Fetches
    <3> DEFINE shown == v.shown \cup all
    <3>2. shown \in SUBSET Ids
      BY <2>2
    <3> HIDE DEF shown
    <3>3. w = [v EXCEPT !.fetch = "none", !.page = {}, !.merged = {}, !.after = 0,
                        !.shown = shown, !.lastId = id, !.loadedTo = to]
      BY <2>1 DEF shown
    <3>4. /\ w.fetch = "none" /\ w.page = {} /\ w.merged = {} /\ w.shown = shown
          /\ w.loadedTo = to /\ w.opened = v.opened /\ w.coldFrom = v.coldFrom
      BY <3>3 DEF View
    <3>5. w \in View
      <4> SUFFICES ASSUME NEW u, u = [v EXCEPT !.fetch = "none", !.page = {}, !.merged = {},
                                               !.after = 0]
                   PROVE  [u EXCEPT !.shown = shown, !.lastId = id, !.loadedTo = to] \in View
        BY <3>3 DEF View
      <4>1. u \in View
        BY <3>1 DEF View
      <4> QED
        BY <3>1, <3>2, <4>1 DEF View
    <3> QED
      BY <3>4, <3>5 DEF shown
  <2>4. \A x \in committed : x <= to => x \in all
    BY <1>3, LoadPrefix DEF all
  <2>5. to \in committed \cup {0}
    BY <1>1, <1>3
  <2>6. LoadFits(w)
    BY <2>3, <2>4, <2>5 DEF LoadFits
  <2> QED
    BY <2>2, <2>3, <2>6
<1>5. CASE ~(Cardinality(v.page) < ViewPage)
  <2>1. w = [v EXCEPT !.fetch = "loadPage", !.page = {}, !.merged = all, !.after = top]
    BY <1>5 DEF Loaded, top
  <2>2. v.page # {}
    <3>1. CASE v.page = {}
      BY <1>5, <3>1, ViewLimits, FS_EmptySet
    <3> QED
      BY <3>1
  <2>3. top \in v.page /\ \A x \in v.page : x <= top
    BY <1>1, <2>2, GreatestId DEF top
  <2>4. top \in all /\ top \in Nat /\ top \in 0 .. MaxEvents
    BY <1>1, <2>3
  <2>5. \A m \in all : m <= top
    <3>1. ASSUME NEW m \in v.merged PROVE m <= top
      <4>1. m <= v.after /\ v.after < top
        BY <2>3 DEF LoadFits
      <4>2. m \in Nat /\ v.after \in Nat
        BY <1>1 DEF View
      <4> QED
        BY <2>4, <4>1, <4>2
    <3> QED
      BY <2>3, <3>1
  <2>6. \A x \in committed : x <= top => x \in all
    BY <2>3, LoadPrefix
  <2> HIDE DEF all
  <2>7. /\ w \in View /\ w.fetch = "loadPage" /\ w.page = {} /\ w.merged = all /\ w.after = top
        /\ w.shown = v.shown /\ w.loadedTo = v.loadedTo /\ w.opened = v.opened
        /\ w.coldFrom = v.coldFrom
    BY <1>1, <2>1, <2>4 DEF View, Fetches
  <2>8. LoadFits(w)
    BY <1>1, <2>4, <2>5, <2>6, <2>7 DEF LoadFits
  <2> QED
    BY <2>7, <2>8
<1> QED
  BY <1>4, <1>5

\* A page comes back to catchUp().
LEMMA CaughtUp ==
  ASSUME NEW v \in View, LoadFits(v), v.fetch = "catchAnswer", committed \in SUBSET Ids,
         v.shown \subseteq committed, v.merged = {}, NEW w, w = Caught(v)
  PROVE  /\ w \in View /\ LoadFits(w) /\ w.opened = v.opened /\ w.coldFrom = v.coldFrom
         /\ v.shown \subseteq w.shown /\ w.shown \subseteq committed /\ w.merged = {}
<1> DEFINE more  == Cardinality(v.page) = ViewPage
           fetch == IF more THEN "catchPage" ELSE "none"
           after == IF more THEN Max(v.page) ELSE 0
           id    == IF v.page = {} THEN v.lastId ELSE Max(v.page)
           shown == v.shown \cup v.page
<1>1. v.page \in SUBSET committed /\ v.page \in SUBSET Ids
  BY DEF LoadFits
<1>2. v.page # {} => Max(v.page) \in 0 .. MaxEvents
  <2>1. v.page # {} => Max(v.page) \in Ids
    BY <1>1, GreatestId
  <2> QED
    BY <2>1, Limits DEF Ids
<1>3. more => v.page # {}
  BY ViewLimits, FS_EmptySet
<1>4. after \in 0 .. MaxEvents /\ id \in 0 .. MaxEvents /\ fetch \in {"catchPage", "none"}
      /\ shown \in SUBSET committed /\ shown \in SUBSET Ids /\ v.shown \subseteq shown
  BY <1>1, <1>2, <1>3, Limits DEF View
<1>5. w = [v EXCEPT !.fetch = fetch, !.page = {}, !.after = after, !.shown = shown, !.lastId = id]
  BY DEF Caught
<1> HIDE DEF fetch, after, id, shown
<1>6. /\ w \in View /\ w.fetch = fetch /\ w.page = {} /\ w.merged = {} /\ w.shown = shown
      /\ w.loadedTo = v.loadedTo /\ w.opened = v.opened /\ w.coldFrom = v.coldFrom
  BY <1>4, <1>5 DEF View, Fetches
<1>7. LoadFits(w)
  <2>1. w.fetch \notin {"loadPage", "loadAnswer"} /\ w.merged \cup w.page \subseteq committed
    BY <1>4, <1>6
  <2> QED
    BY <1>4, <1>6, <2>1, LoadKept
<1> QED
  BY <1>4, <1>6, <1>7

-----------------------------------------------------------------------------
(* The steps of the page                                                   *)

\* What a step leaves of the view of c, the ids it may show and the fetch given.
ViewFits(v, log) ==
  /\ v \in View /\ v.shown \subseteq log
  /\ v.merged # {} => v.fetch \in {"loadPage", "loadAnswer"}

LEMMA AllViews ==
  ASSUME view' = [c \in Clients |-> view'[c]],
         \A c \in Clients : ViewFits(view'[c], committed') /\ LoadFits(view[c])' /\ SeenFits(c)'
  PROVE  ViewInv'
BY DEF ViewFits, View, ViewInv, ViewTypeOK

\* A step of one client's page, its stream left aside.
LEMMA OneView ==
  ASSUME ViewInv, StreamInv, NEW c \in Clients, NEW w, view' = [view EXCEPT ![c] = w],
         committed' = committed, ViewFits(w, committed), LoadFits(w),
         \A d \in Clients : SeenFits(d)'
  PROVE  ViewInv'
<1>1. view \in [Clients -> View] /\ \A d \in Clients : ViewFits(view[d], committed) /\ LoadFits(view[d])
  BY ViewFacts, OfView DEF ViewFits
<1>2. view' = [d \in Clients |-> IF d = c THEN w ELSE view[d]]
  BY <1>1
<1>3. ASSUME NEW d \in Clients PROVE ViewFits(view'[d], committed') /\ LoadFits(view[d])'
  <2>1. LoadFits(view'[d])
    BY <1>1, <1>2
  <2>2. LoadFits(view[d])'
    BY <2>1 DEF LoadFits
  <2> QED
    BY <1>1, <1>2, <2>2
<1> QED
  BY <1>2, <1>3, AllViews

LEMMA ViewUnseen ==
  ASSUME StreamInv, ViewInv, Unseen \/ UNCHANGED vars, view' = view
  PROVE  ViewInv'
<1>1. StreamInv' /\ Kept(Clients) /\ LogGrows /\ \A c \in Clients : Quiet(c)
  BY UnseenStep, QuietStep
<1>2. view \in [Clients -> View] /\ \A c \in Clients : ViewFits(view[c], committed)
  BY ViewFacts DEF ViewFits
<1>3. \A c \in Clients : ViewFits(view'[c], committed')
  BY <1>1, <1>2 DEF ViewFits, LogGrows
<1>4. \A c \in Clients : LoadFits(view[c])' /\ SeenFits(c)'
  BY <1>1, LoadGrown, SeenQuiet
<1>5. view' = [c \in Clients |-> view'[c]]
  BY <1>2
<1> QED
  BY <1>3, <1>4, <1>5, AllViews

LEMMA ViewConnect ==
  ASSUME StreamInv, ViewInv, NEW c \in Clients, Connect(c), OnOpen(c)
  PROVE  ViewInv'
<1> DEFINE v == view[c]
           w == IF v.opened THEN Reopened(v, last[c]) ELSE [v EXCEPT !.opened = TRUE]
<1>1. view' = [view EXCEPT ![c] = w] /\ committed' = committed
  BY DEF OnOpen, Connect, rows
<1>2. v \in View /\ LoadFits(v) /\ ViewFits(v, committed)
  BY ViewFacts, OfView DEF ViewFits
<1>3. w \in View /\ w.shown = v.shown /\ w.loadedTo = v.loadedTo
      /\ \/ w.fetch = v.fetch /\ w.page = v.page /\ w.merged = v.merged /\ w.after = v.after
         \/ w.fetch \notin {"loadPage", "loadAnswer"} /\ w.merged = {} /\ w.page = {}
  BY <1>2 DEF Reopened, View, Fetches
<1> HIDE DEF w, v
<1>4. LoadFits(w) /\ ViewFits(w, committed)
  <2>1. w.merged = {} /\ w.page = {} => w.merged \cup w.page \subseteq committed
    OBVIOUS
  <2> QED
    BY <1>2, <1>3, <2>1, LoadKept DEF ViewFits
<1>5. \A d \in Clients : SeenFits(d)'
  BY ConnectStep, SeenOpened
<1> QED
  BY <1>1, <1>4, <1>5, OneView

LEMMA ViewReceive ==
  ASSUME StreamInv, ViewInv, NEW c \in Clients, Receive(c), OnEvent(c, Min(conn[c].wire))
  PROVE  ViewInv'
<1> DEFINE v == view[c]
           x == Min(conn[c].wire)
           id == Max({v.lastId, x})
           w == [v EXCEPT !.shown = v.shown \cup {x}, !.lastId = id]
<1>1. committed' = committed /\ x \in committed /\ x \in Ids
  BY ReceiveStep, OfClient
<1>2. v \in View /\ LoadFits(v) /\ ViewFits(v, committed) /\ view \in [Clients -> View]
      /\ committed \in SUBSET Ids
  BY ViewFacts, OfView DEF ViewFits
<1>3. id \in 0 .. MaxEvents
  <2> DEFINE S == {v.lastId, x}
  <2>1. v.lastId \in 0 .. MaxEvents /\ x \in 0 .. MaxEvents /\ MaxEvents \in Nat
    BY <1>1, <1>2, Limits DEF View, Ids
  <2>2. S \in SUBSET Nat /\ S # {} /\ \A y \in S : y <= MaxEvents
    BY <2>1
  <2> HIDE DEF S
  <2>3. Max(S) \in S
    BY <2>1, <2>2, MaxOf
  <2> QED
    BY <2>1, <2>3 DEF S
<1>4. view' = [view EXCEPT ![c].shown = v.shown \cup {x}, ![c].lastId = id]
  BY DEF OnEvent
<1> HIDE DEF id, x
<1>5. view' = [view EXCEPT ![c] = w]
  BY <1>2, <1>4 DEF View
<1> HIDE DEF v
<1>6. v.shown \cup {x} \subseteq committed /\ v.shown \cup {x} \in SUBSET Ids
  BY <1>1, <1>2 DEF ViewFits
<1>7. /\ w \in View /\ w.shown = v.shown \cup {x} /\ w.loadedTo = v.loadedTo /\ w.fetch = v.fetch
      /\ w.page = v.page /\ w.merged = v.merged /\ w.after = v.after
  BY <1>2, <1>3, <1>6 DEF View
<1> HIDE DEF w
<1>8. LoadFits(w) /\ ViewFits(w, committed)
  BY <1>2, <1>6, <1>7, LoadKept DEF ViewFits
<1>9. \A d \in Clients : SeenFits(d)'
  BY SeenReceived
<1> QED
  BY <1>1, <1>5, <1>8, <1>9, OneView

\* A fetch of the page moves one view and no stream.
LEMMA ViewFetch ==
  ASSUME StreamInv, ViewInv, NEW c \in Clients, UNCHANGED vars, NEW w, view' = [view EXCEPT ![c] = w],
         ViewFits(w, committed), LoadFits(w), w.opened = view[c].opened,
         w.coldFrom = view[c].coldFrom, view[c].shown \subseteq w.shown
  PROVE  ViewInv'
<1>1. view \in [Clients -> View]
  BY ViewFacts
<1>2. \A d \in Clients : /\ view'[d].opened = view[d].opened /\ view'[d].coldFrom = view[d].coldFrom
                         /\ view[d].shown \subseteq view'[d].shown
  BY <1>1
<1>3. \A d \in Clients : SeenFits(d)'
  BY <1>2, SeenMore
<1>4. committed' = committed
  BY DEF vars, rows
<1> QED
  BY <1>3, <1>4, OneView

LEMMA TaskFetchedStep ==
  ASSUME StreamInv, ViewInv, NEW c \in Clients, TaskFetched(c), UNCHANGED vars
  PROVE  ViewInv'
<1> DEFINE v == view[c]
           load == v.fetch = "loadTask"
           w == [v EXCEPT !.fetch = IF load THEN "loadPage" ELSE "catchPage",
                          !.after = IF load THEN 0 ELSE v.lastId]
<1>1. /\ v \in View /\ LoadFits(v) /\ v.shown \subseteq committed /\ view \in [Clients -> View]
      /\ v.merged # {} => v.fetch \in {"loadPage", "loadAnswer"}
      /\ committed \in SUBSET Ids
  BY ViewFacts, OfView
<1>2. /\ v.fetch \in {"loadTask", "catchTask"}
      /\ view' = [view EXCEPT ![c].fetch = IF load THEN "loadPage" ELSE "catchPage",
                              ![c].after = IF load THEN 0 ELSE v.lastId]
  BY <1>1 DEF TaskFetched
<1>3. view' = [view EXCEPT ![c] = w]
  BY <1>1, <1>2 DEF View
<1>4. 0 \in 0 .. MaxEvents /\ v.lastId \in 0 .. MaxEvents
  BY <1>1, Limits DEF View
<1>5. v.merged = {} /\ v.page \subseteq committed
  BY <1>1, <1>2 DEF LoadFits
<1> HIDE DEF v
<1>6. /\ w \in View /\ w.shown = v.shown /\ w.loadedTo = v.loadedTo /\ w.page = v.page
      /\ w.merged = {} /\ w.opened = v.opened /\ w.coldFrom = v.coldFrom
      /\ w.fetch = IF load THEN "loadPage" ELSE "catchPage"
      /\ w.after = IF load THEN 0 ELSE v.lastId
  BY <1>1, <1>4, <1>5 DEF View, Fetches
<1> HIDE DEF w
<1>7. LoadFits(w)
  <2>1. CASE load
    BY <1>1, <1>5, <1>6, <2>1, LoadBegun
  <2>2. CASE ~load
    <3>1. w.fetch \notin {"loadPage", "loadAnswer"} /\ w.merged \cup w.page \subseteq committed
      BY <1>5, <1>6, <2>2
    <3> QED
      BY <1>1, <1>6, <3>1, LoadKept
  <2> QED
    BY <2>1, <2>2
<1>8. ViewFits(w, committed)
  BY <1>1, <1>6 DEF ViewFits
<1> QED
  BY <1>3, <1>6, <1>7, <1>8, ViewFetch DEF v

LEMMA PageServedStep ==
  ASSUME StreamInv, ViewInv, NEW c \in Clients, PageServed(c), UNCHANGED vars
  PROVE  ViewInv'
<1> DEFINE v == view[c]
           load == v.fetch = "loadPage"
           rest == ViewRows(v.after)
           w == [v EXCEPT !.fetch = IF load THEN "loadAnswer" ELSE "catchAnswer", !.page = rest]
<1>1. /\ v \in View /\ LoadFits(v) /\ v.shown \subseteq committed /\ view \in [Clients -> View]
      /\ v.merged # {} => v.fetch \in {"loadPage", "loadAnswer"}
      /\ committed \in SUBSET Ids
  BY ViewFacts, OfView
<1>2. /\ v.fetch \in {"loadPage", "catchPage"}
      /\ view' = [view EXCEPT ![c].fetch = IF load THEN "loadAnswer" ELSE "catchAnswer",
                              ![c].page = rest]
  BY <1>1 DEF PageServed
<1>3. view' = [view EXCEPT ![c] = w]
  BY <1>1, <1>2 DEF View
<1>4. rest \subseteq committed /\ rest \in SUBSET Ids
  BY <1>1 DEF ViewRows
<1>5. load => LoadFits([v EXCEPT !.fetch = "loadAnswer", !.page = ViewRows(v.after)])
  <2>1. [v EXCEPT !.fetch = "loadAnswer", !.page = ViewRows(v.after)] \in View
    BY <1>1, <1>4 DEF View, Fetches
  <2> QED
    BY <1>1, <2>1, LoadServed
<1>6. load => w = [v EXCEPT !.fetch = "loadAnswer", !.page = ViewRows(v.after)]
  OBVIOUS
<1> HIDE DEF v, rest
<1>7. /\ w \in View /\ w.shown = v.shown /\ w.loadedTo = v.loadedTo /\ w.page = rest
      /\ w.merged = v.merged /\ w.opened = v.opened /\ w.coldFrom = v.coldFrom
      /\ w.fetch = IF load THEN "loadAnswer" ELSE "catchAnswer"
  BY <1>1, <1>4 DEF View, Fetches
<1> HIDE DEF w
<1>8. LoadFits(w)
  <2>1. CASE load
    BY <1>5, <1>6, <2>1
  <2>2. CASE ~load
    <3>1. w.fetch \notin {"loadPage", "loadAnswer"} /\ w.merged \cup w.page \subseteq committed
      BY <1>1, <1>2, <1>4, <1>7, <2>2
    <3> QED
      BY <1>1, <1>7, <3>1, LoadKept
  <2> QED
    BY <2>1, <2>2
<1>9. ViewFits(w, committed)
  BY <1>1, <1>2, <1>7 DEF ViewFits
<1> QED
  BY <1>3, <1>7, <1>8, <1>9, ViewFetch DEF v

LEMMA AnswerStep ==
  ASSUME StreamInv, ViewInv, NEW c \in Clients, LoadPage(c) \/ CatchUpPage(c), UNCHANGED vars
  PROVE  ViewInv'
<1> DEFINE v == view[c]
<1>1. /\ v \in View /\ LoadFits(v) /\ v.shown \subseteq committed /\ committed \in SUBSET Ids
      /\ v.merged # {} => v.fetch \in {"loadPage", "loadAnswer"}
  BY ViewFacts, OfView
<1>2. CASE LoadPage(c)
  <2>1. v.fetch = "loadAnswer" /\ view' = [view EXCEPT ![c] = Loaded(v)]
    BY <1>2, ViewFacts DEF LoadPage, Loaded
  <2> HIDE DEF v
  <2>2. /\ Loaded(v) \in View /\ LoadFits(Loaded(v)) /\ Loaded(v).opened = v.opened
        /\ Loaded(v).coldFrom = v.coldFrom /\ v.shown \subseteq Loaded(v).shown
        /\ ViewFits(Loaded(v), committed)
    BY <1>1, <2>1, LoadAnswered DEF ViewFits
  <2> QED
    BY <2>1, <2>2, ViewFetch DEF v
<1>3. CASE CatchUpPage(c)
  <2>1. v.fetch = "catchAnswer" /\ view' = [view EXCEPT ![c] = Caught(v)]
    BY <1>3, ViewFacts DEF CatchUpPage, Caught
  <2>2. v.merged = {}
    BY <1>1, <2>1
  <2> HIDE DEF v
  <2>3. /\ Caught(v) \in View /\ LoadFits(Caught(v)) /\ Caught(v).opened = v.opened
        /\ Caught(v).coldFrom = v.coldFrom /\ v.shown \subseteq Caught(v).shown
        /\ ViewFits(Caught(v), committed)
    BY <1>1, <2>1, <2>2, CaughtUp DEF ViewFits
  <2> QED
    BY <2>1, <2>3, ViewFetch DEF v
<1> QED
  BY <1>2, <1>3

LEMMA ViewInvInit == ViewInit => ViewInv
<1> SUFFICES ASSUME ViewInit PROVE ViewInv
  OBVIOUS
<1>1. 0 \in 0 .. MaxEvents /\ None # 0
  BY Limits
<1>2. ViewTypeOK
  BY <1>1 DEF ViewInit, ViewTypeOK, Fetches
<1>3. ASSUME NEW c \in Clients PROVE LoadFits(view[c]) /\ SeenFits(c)
  BY NoConnOK DEF Init, ViewInit, LoadFits, SeenFits
<1> QED
  BY <1>2, <1>3 DEF ViewInv

LEMMA ViewInvStep == StreamInv /\ ViewInv /\ [ViewNext]_viewVars => ViewInv'
<1> SUFFICES ASSUME StreamInv, ViewInv, [ViewNext]_viewVars PROVE ViewInv'
  OBVIOUS
<1>1. CASE (Unseen /\ UNCHANGED view) \/ UNCHANGED viewVars
  BY <1>1, ViewUnseen DEF viewVars
<1>2. ASSUME NEW c \in Clients, Connect(c) /\ OnOpen(c) PROVE ViewInv'
  BY <1>2, ViewConnect
<1>3. ASSUME NEW c \in Clients, Receive(c) /\ OnEvent(c, Min(conn[c].wire)) PROVE ViewInv'
  BY <1>3, ViewReceive
<1>4. ASSUME NEW c \in Clients, UNCHANGED vars,
             TaskFetched(c) \/ PageServed(c) \/ LoadPage(c) \/ CatchUpPage(c)
      PROVE  ViewInv'
  BY <1>4, TaskFetchedStep, PageServedStep, AnswerStep
<1> QED
  BY <1>1, <1>2, <1>3, <1>4 DEF ViewNext

-----------------------------------------------------------------------------
(* The theorem                                                             *)

\* What a stream without a gap and a load up to its start leave out: nothing.
LEMMA NoHoleLeft == StreamInv /\ ViewInv /\ IdleIsCaughtUp => NoHole
<1> SUFFICES ASSUME StreamInv, ViewInv, IdleIsCaughtUp PROVE NoHole
  OBVIOUS
<1> SUFFICES ASSUME NEW c \in Clients, Settled(c), view[c].loadedTo # None,
                    view[c].loadedTo >= since[c], view[c].coldFrom = None, NEW x \in committed
             PROVE  x \in view[c].shown
  <2>1. \A d \in Clients : view[d].shown \subseteq committed
    BY ViewFacts
  <2> QED
    BY <2>1 DEF NoHole
<1> DEFINE n == conn[c]
           v == view[c]
<1>1. /\ n.open /\ n.sync = "none" /\ n.wire = {} /\ listening /\ channel = <<>> /\ delivery = <<>>
  BY DEF Settled
<1>2. x <= n.lastSent /\ n.lastSent # None
  BY <1>1, Position DEF IdleIsCaughtUp
<1>3. /\ LoadFits(v) /\ SeenFits(c) /\ committed \in SUBSET Nat
      /\ since[c] # None => since[c] \in Nat
      /\ last[c] # None => last[c] \in Nat /\ last[c] \in committed
  BY OfView
<1>4. since[c] # None
  BY <1>2, <1>3 DEF SeenFits
<1>5. CASE x <= v.loadedTo
  BY <1>3, <1>5 DEF LoadFits
<1>6. CASE ~(x <= v.loadedTo)
  <2>1. v.loadedTo \in Nat
    <3>1. v.loadedTo \in committed \cup {0}
      BY <1>3 DEF LoadFits
    <3>2. committed \cup {0} \in SUBSET Nat
      <4>1. committed \in SUBSET Nat /\ 0 \in Nat
        BY <1>3
      <4> QED
        BY <4>1
    <3> HIDE DEF v
    <3> QED
      BY <3>1, <3>2
  <2>2. x \in Nat /\ since[c] \in Nat /\ since[c] < x
    BY <1>3, <1>4, <1>6, <2>1
  <2>3. CASE last[c] = None
    <3>1. ClientFits(n, since[c], committed, OnTheWay, listening)
      BY <1>3, <1>4, <2>3 DEF SeenFits
    <3>2. x \in n.wire
      BY <1>2, <1>4, <2>2, <3>1 DEF ClientFits, SegmentFits, Ahead
    <3> QED
      BY <1>1, <3>2
  <2>4. CASE last[c] # None
    <3>1. x <= last[c] => x \in v.shown
      BY <1>3, <1>4, <2>2, <2>4 DEF SeenFits
    <3>2. ClientFits(n, last[c], committed, OnTheWay, listening)
      BY OfClient
    <3>3. last[c] < x => x \in n.wire
      BY <1>2, <2>4, <3>2 DEF ClientFits, SegmentFits, Ahead
    <3> QED
      BY <1>1, <1>3, <2>2, <2>4, <3>1, <3>3
  <2> QED
    BY <2>3, <2>4
<1> QED
  BY <1>5, <1>6

\* Once nothing is under way, neither the streams nor a timeline that was loaded up
\* to the start of its stream lack an event, however the pages of loadAll() and
\* catchUp() and the live events were interleaved (TaskDetailView.tsx, loadAll,
\* catchUp and onEvent), for every page size of the view and of the stream.
THEOREM NothingIsMissing == ViewSpec => []NothingMissing
<1>1. StreamInv /\ ViewInv /\ IdleIsCaughtUp => NothingMissing
  BY NoHoleLeft DEF NothingMissing, ViewInv
<1>2. ViewSpec => []StreamInv /\ []IdleIsCaughtUp
  BY ViewRefines, StreamInvAlways, NothingIsOwed, PTL
<1>3. ViewSpec /\ []StreamInv => []ViewInv
  BY ViewInvInit, ViewInvStep, PTL DEF ViewSpec
<1> QED
  BY <1>1, <1>2, <1>3, PTL
=============================================================================

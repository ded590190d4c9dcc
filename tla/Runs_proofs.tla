------------------------------ MODULE Runs_proofs ------------------------------
(***************************************************************************)
(* Theorems of the runs of a worker, for every value of the constants: the *)
(* turns of AgentSession, of any number of tokens, models and events, then *)
(* Containers, for any executions and every bound.                         *)
(*                                                                         *)
(* The turns are proved in three parts, each on the one before: the types  *)
(* and the phases of a turn (RunInv); what it says, in its order, and its  *)
(* subagent (KeptInv); and what it is billed for (BillInv).  A step is     *)
(* first put into a form that names what it changes (the lemmas ...Steps), *)
(* from which each invariant is proved.                                    *)
(***************************************************************************)
EXTENDS AgentSession, Containers, FiniteSetTheorems, SequenceTheorems, TLAPS

(* The turns of an agent                                                   *)

LEMMA Constants ==
  /\ NModels \in Nat \ {0} /\ MaxTurns \in Nat \ {0}
  /\ {MaxBudget, MaxSaid, MaxWork, MaxAhead, MaxFaults} \subseteq Nat
  /\ Message \in Nat /\ Message = MaxSaid + 1 /\ Item \subseteq 1 .. Message
  /\ Zero \in [Models -> Nat] /\ 1 \in Models
BY AgentSessionAssumption DEF Message, Item, Zero, Models

LEMMA EventFields ==
  ASSUME NEW ev \in Event
  PROVE /\ ev.t \in {"text", "call", "spawn", "usage"} \cup Settles
                   \cup {"session", "result", "done", "error", "eof"}
        /\ ev.t \in {"text", "call", "spawn"} => ev.n \in Item
        /\ ev.t = "call" => ev = [t |-> "call", n |-> ev.n]
        /\ ev.t = "session" => ev = [t |-> "session"]
        /\ ev.t \in Settles \cup {"spawn"} => ev.bg \in BOOLEAN
        /\ ev.t = "usage" => ev \in Counts
BY DEF Event, Settles, Counts

LEMMA WriteFields ==
  ASSUME NEW w \in Write
  PROVE /\ w.t \in {"text", "call", "usage", "session"}
        /\ w.t = "text" => w.ns \in Seq(Item)
        /\ w.t = "call" => w.n \in 1 .. Message
        /\ w.t = "usage" => w \in Counts
BY DEF Write, Counts

LEMMA FlushedWrites ==
  ASSUME NEW t \in TurnRecord
  PROVE /\ Flushed(t) \in Seq(Write)
        /\ t.buffer = <<>> => Flushed(t) = <<>>
        /\ t.buffer # <<>> => Flushed(t) = <<[t |-> "text", ns |-> t.buffer]>>
<1>1. t.buffer \in Seq(Item)
  BY DEF TurnRecord
<1>2. [t |-> "text", ns |-> t.buffer] \in Write
  BY <1>1 DEF Write
<1> QED
  BY <1>2 DEF Flushed

\* What a change of one part of the turn leaves
SameTurn(t, u) == /\ u.e = t.e /\ u.s = t.s /\ u.fresh = t.fresh
SameBill(t, u) == u.left = t.left /\ u.pool = t.pool
SameFlags(t, u) == /\ u.spoke = t.spoke /\ u.blocking = t.blocking
                   /\ u.tracked = t.tracked /\ u.lost = t.lost

LEMMA Regrouped ==
  /\ \A s, t, u \in Seq(Write) : (s \o t) \o u = s \o (t \o u)
  /\ \A s, t, u \in Seq(Event) : (s \o t) \o u = s \o (t \o u)
<1>1. ASSUME NEW s \in Seq(Write), NEW t \in Seq(Write), NEW u \in Seq(Write)
      PROVE  (s \o t) \o u = s \o (t \o u)
  BY ConcatAssociative
<1>2. ASSUME NEW s \in Seq(Event), NEW t \in Seq(Event), NEW u \in Seq(Event)
      PROVE  (s \o t) \o u = s \o (t \o u)
  BY ConcatAssociative
<1> QED
  BY <1>1, <1>2

LEMMA AwaitsFields ==
  ASSUME NEW t \in TurnRecord, NEW writes \in Seq(Write), NEW end \in {"none", "done", "error"}
  PROVE LET u == Awaits(t, writes, end)
            q == t.queue \o writes
        IN /\ u \in TurnRecord
           /\ u.queue = q /\ u.buffer = <<>> /\ u.end = end /\ u.stop = t.stop
           /\ u.pc = IF q # <<>> THEN "await" ELSE IF end = "none" THEN "pull" ELSE "closing"
           /\ SameTurn(t, u) /\ SameBill(t, u) /\ SameFlags(t, u)
<1>1. t.queue \o writes \in Seq(Write)
  BY DEF TurnRecord
<1>2. PICK q \in Seq(Write), pc \in {"await", "pull", "closing"} :
        /\ q = t.queue \o writes
        /\ pc = IF q # <<>> THEN "await" ELSE IF end = "none" THEN "pull" ELSE "closing"
  BY <1>1
<1>3. Awaits(t, writes, end) = [t EXCEPT !.queue = q, !.buffer = <<>>, !.end = end, !.pc = pc]
  BY <1>2 DEF Awaits
<1>4. [t EXCEPT !.queue = q, !.buffer = <<>>, !.end = end, !.pc = pc] \in TurnRecord
  <2>1. q \in Seq(Write) /\ pc \in {"await", "pull", "closing"}
    BY <1>2
  <2>2. <<>> \in Seq(Item)
    OBVIOUS
  <2> QED
    BY <2>1, <2>2 DEF TurnRecord
<1>5. LET u == [t EXCEPT !.queue = q, !.buffer = <<>>, !.end = end, !.pc = pc]
      IN /\ u.queue = q /\ u.buffer = <<>> /\ u.end = end /\ u.stop = t.stop /\ u.pc = pc
         /\ SameTurn(t, u) /\ SameBill(t, u) /\ SameFlags(t, u)
  BY DEF TurnRecord, SameTurn, SameBill, SameFlags
<1> QED
  BY <1>2, <1>3, <1>4, <1>5

LEMMA WrittenFields ==
  ASSUME NEW t \in TurnRecord, t.queue # <<>>
  PROVE LET u == Written(t)
        IN /\ u \in TurnRecord
           /\ u.queue = Tail(t.queue) /\ u.buffer = t.buffer /\ u.end = t.end /\ u.stop = t.stop
           /\ u.pc = IF Tail(t.queue) # <<>> \/ t.pc = "pull" THEN t.pc
                     ELSE IF t.pc = "drain" THEN "after"
                     ELSE IF t.end = "none" THEN "pull" ELSE "closing"
           /\ SameTurn(t, u) /\ SameBill(t, u) /\ SameFlags(t, u)
<1> DEFINE q == Tail(t.queue)
           pc == IF q # <<>> \/ t.pc = "pull" THEN t.pc
                 ELSE IF t.pc = "drain" THEN "after"
                 ELSE IF t.end = "none" THEN "pull" ELSE "closing"
<1>1. q \in Seq(Write) /\ t.pc \in {"none", "opening", "pull", "await", "closing", "drain", "after"}
  BY DEF TurnRecord
<1>2. pc \in {"none", "opening", "pull", "await", "closing", "drain", "after"}
  BY <1>1
<1>3. Written(t) = [t EXCEPT !.queue = q, !.pc = pc]
  BY DEF Written, TurnRecord
<1> HIDE DEF q, pc
<1>4. [t EXCEPT !.queue = q, !.pc = pc] \in TurnRecord
  BY <1>1, <1>2 DEF TurnRecord
<1>5. LET u == [t EXCEPT !.queue = q, !.pc = pc]
      IN /\ u.queue = q /\ u.buffer = t.buffer /\ u.end = t.end /\ u.stop = t.stop /\ u.pc = pc
         /\ SameTurn(t, u) /\ SameBill(t, u) /\ SameFlags(t, u)
  BY DEF TurnRecord, SameTurn, SameBill, SameFlags
<1> QED
  BY <1>3, <1>4, <1>5 DEF q, pc

Reasons == {"hung", "blocking_timeout", "gone", "cancelled", "budget_exceeded"}

LEMMA StopFields ==
  ASSUME NEW t \in TurnRecord, NEW reason \in Reasons
  PROVE LET u == Stop(t, reason)
        IN /\ u \in TurnRecord
           /\ u.queue = t.queue /\ u.buffer = t.buffer /\ u.end = t.end /\ u.pc = t.pc
           /\ u.stop = IF t.stop = "none" THEN reason ELSE t.stop
           /\ SameTurn(t, u) /\ SameBill(t, u) /\ SameFlags(t, u)
<1>1. CASE t.stop = "none"
  <2>1. Stop(t, reason) = [t EXCEPT !.stop = reason]
    BY <1>1 DEF Stop
  <2> QED
    BY <1>1, <2>1 DEF TurnRecord, SameTurn, SameBill, SameFlags, Reasons
<1>2. CASE t.stop # "none"
  BY <1>2 DEF Stop, SameTurn, SameBill, SameFlags
<1> QED
  BY <1>1, <1>2

LEMMA KilledFields ==
  ASSUME NEW c \in ProcessRecord
  PROVE /\ Killed(c) \in ProcessRecord /\ ~Killed(c).on /\ Killed(c).pipe = c.pipe
        /\ Killed(c).said = c.said /\ Killed(c).sub = c.sub
BY DEF Killed, ProcessRecord

LEMMA ChargedFields ==
  ASSUME NEW t \in TurnRecord, NEW ev \in Counts
  PROVE LET ch == Charged(t, ev)
            n == Least(t.left[ev.m], ev.n)
            c == Least(t.pool, ev.c)
        IN /\ ch.t \in TurnRecord
           /\ ch.t.queue = t.queue /\ ch.t.buffer = t.buffer /\ ch.t.end = t.end
           /\ ch.t.stop = t.stop /\ ch.t.pc = t.pc
           /\ SameTurn(t, ch.t) /\ SameFlags(t, ch.t)
           /\ ch.t.left = [t.left EXCEPT ![ev.m] = @ - n] /\ ch.t.pool = t.pool - c
           /\ ch.ev = [t |-> "usage", m |-> ev.m, n |-> ev.n - n, c |-> ev.c - c]
           /\ ch.ev \in Counts
<1>1. /\ t.left \in [Models -> Nat] /\ t.pool \in Nat
      /\ ev.m \in Models /\ ev.n \in Nat /\ ev.c \in Nat /\ ev.t = "usage"
  BY DEF TurnRecord, Counts
<1>2. PICK n \in Nat, c \in Nat : /\ n = Least(t.left[ev.m], ev.n) /\ c = Least(t.pool, ev.c)
                                  /\ n <= t.left[ev.m] /\ n <= ev.n /\ c <= t.pool /\ c <= ev.c
  BY <1>1 DEF Least
<1>3. PICK left \in [Models -> Nat] : left = [t.left EXCEPT ![ev.m] = @ - n]
  <2>1. t.left[ev.m] - n \in Nat
    BY <1>1, <1>2
  <2> QED
    BY <1>1, <2>1
<1>4. PICK pool \in Nat : pool = t.pool - c
  BY <1>1, <1>2
<1>5. PICK u \in TurnRecord : u = [t EXCEPT !.left = left, !.pool = pool]
  BY <1>3, <1>4 DEF TurnRecord
<1>6. /\ u.queue = t.queue /\ u.buffer = t.buffer /\ u.end = t.end /\ u.stop = t.stop
      /\ u.pc = t.pc /\ SameTurn(t, u) /\ SameFlags(t, u) /\ u.left = left /\ u.pool = pool
  BY <1>5 DEF TurnRecord, SameTurn, SameFlags
<1>7. [t EXCEPT !.left[ev.m] = @ - n, !.pool = @ - c] = u
  BY <1>1, <1>3, <1>4, <1>5 DEF TurnRecord
<1>8. [ev EXCEPT !.n = @ - n, !.c = @ - c]
        = [t |-> "usage", m |-> ev.m, n |-> ev.n - n, c |-> ev.c - c]
  <2>1. PICK x \in Nat, y \in Nat : x = ev.n - n /\ y = ev.c - c
    BY <1>1, <1>2
  <2>2. [ev EXCEPT !.n = x, !.c = y] = [t |-> "usage", m |-> ev.m, n |-> x, c |-> y]
    <3> DEFINE f == [ev EXCEPT !.n = x, !.c = y]
    <3>1. f \in Counts /\ f.t = "usage" /\ f.m = ev.m /\ f.n = x /\ f.c = y
      BY DEF Counts
    <3> HIDE DEF f
    <3>2. f = [t |-> f.t, m |-> f.m, n |-> f.n, c |-> f.c]
      BY <3>1 DEF Counts
    <3> QED
      BY <3>1, <3>2 DEF f
  <2> QED
    BY <1>1, <2>1, <2>2
<1>9. [t |-> "usage", m |-> ev.m, n |-> ev.n - n, c |-> ev.c - c] \in Counts
  BY <1>1, <1>2 DEF Counts
<1>10. Charged(t, ev) = [t |-> u, ev |-> [t |-> "usage", m |-> ev.m, n |-> ev.n - n, c |-> ev.c - c]]
  BY <1>2, <1>7, <1>8 DEF Charged, Consumed
<1>11. /\ Charged(t, ev).t = u
       /\ Charged(t, ev).ev = [t |-> "usage", m |-> ev.m, n |-> ev.n - n, c |-> ev.c - c]
  BY <1>10
<1> QED
  BY <1>2, <1>3, <1>4, <1>5, <1>6, <1>9, <1>11

\* What the loop writes for an event besides the text before it
Extra(ev) ==
  IF ev.t \in {"call", "spawn"} THEN <<[t |-> "call", n |-> ev.n]>>
  ELSE IF ev.t = "session" THEN <<[t |-> "session"]>>
  ELSE IF ev.t = "usage" THEN <<Charged(turn, ev).ev>>
  ELSE <<>>

\* Events the loop goes on after without waiting for a write
Passing == {"text", "started", "updated", "settled", "eof"}

PulledBill(ev) ==
  IF ev.t = "usage" THEN /\ turn'.left = Charged(turn, ev).t.left
                         /\ turn'.pool = Charged(turn, ev).t.pool
  ELSE SameBill(turn, turn')

PulledWrites(ev) ==
  LET q == turn.queue \o (Flushed(turn) \o Extra(ev)) IN
  CASE ev.t = "text" -> /\ turn'.queue = turn.queue /\ turn'.buffer = Append(turn.buffer, ev.n)
                        /\ turn'.end = "none" /\ turn'.pc = "pull"
    [] ev.t \in {"started", "updated", "settled"} ->
                        /\ turn'.queue = turn.queue /\ turn'.buffer = turn.buffer
                        /\ turn'.end = "none" /\ turn'.pc = "pull"
    [] ev.t = "eof"  -> /\ turn'.queue = turn.queue /\ turn'.buffer = turn.buffer
                        /\ turn'.end = "exhausted" /\ turn'.pc = "closing"
    [] OTHER -> /\ turn'.queue = q /\ turn'.buffer = <<>>
                /\ turn'.end = IF ev.t \in {"done", "error"} THEN ev.t ELSE "none"
                /\ turn'.pc = IF q # <<>> THEN "await"
                              ELSE IF turn'.end = "none" THEN "pull" ELSE "closing"

LEMMA PullFields ==
  ASSUME RunInv, Pull
  PROVE LET ev == Head(cli.pipe) IN
        /\ turn.pc = "pull" /\ turn.stop = "none" /\ turn.end = "none" /\ cli.pipe # <<>>
        /\ ev \in Event
        /\ cli' \in ProcessRecord /\ cli'.pipe = Tail(cli.pipe)
        /\ cli'.on = cli.on /\ cli'.said = cli.said /\ cli'.sub = cli.sub
        /\ turn' \in TurnRecord /\ SameTurn(turn, turn') /\ turn'.stop = "none"
        /\ turn'.lost = turn.lost /\ turn'.blocking = turn.blocking
        /\ turn'.tracked = IF ev.t \in Settles \cup {"spawn"} THEN ev.bg ELSE turn.tracked
        /\ PulledBill(ev) /\ PulledWrites(ev)
<1>1. /\ turn.pc = "pull" /\ turn.stop = "none" /\ turn.end = "none" /\ cli.pipe # <<>>
      /\ cli' = [cli EXCEPT !.pipe = Tail(@)] /\ turn' = Takes(Head(cli.pipe))
      /\ turn \in TurnRecord /\ cli \in ProcessRecord
  BY DEF Pull, RunInv, PhaseFits, RunOK
<1>2. cli.pipe \in Seq(Event)
  BY <1>1 DEF ProcessRecord
<1>3. PICK ev \in Event : ev = Head(cli.pipe)
  BY <1>1, <1>2
<1>4. PICK pipe \in Seq(Event) : pipe = Tail(cli.pipe)
  BY <1>1, <1>2, HeadTailProperties
<1>5. /\ cli' \in ProcessRecord /\ cli'.pipe = Tail(cli.pipe)
      /\ cli'.on = cli.on /\ cli'.said = cli.said /\ cli'.sub = cli.sub
  BY <1>1, <1>4 DEF ProcessRecord
<1> DEFINE Goal == /\ turn' \in TurnRecord /\ SameTurn(turn, turn') /\ turn'.stop = "none"
                   /\ turn'.lost = turn.lost /\ turn'.blocking = turn.blocking
                   /\ turn'.tracked = IF ev.t \in Settles \cup {"spawn"} THEN ev.bg
                                      ELSE turn.tracked
                   /\ PulledBill(ev) /\ PulledWrites(ev)
<1>6. turn' = Takes(ev) /\ turn.queue \in Seq(Write) /\ turn.buffer \in Seq(Item)
  BY <1>1, <1>3 DEF TurnRecord
<1>7. CASE ev.t = "text"
  <2>1. turn' = [turn EXCEPT !.buffer = Append(@, ev.n), !.spoke = TRUE]
    BY <1>6, <1>7 DEF Takes
  <2>2. PICK b \in Seq(Item) : b = Append(turn.buffer, ev.n)
    <3>1. ev.n \in Item
      BY <1>7, EventFields
    <3>2. Append(turn.buffer, ev.n) \in Seq(Item)
      BY <1>6, <3>1, AppendProperties
    <3> QED
      BY <3>2
  <2>3. turn' = [turn EXCEPT !.buffer = b, !.spoke = TRUE]
    BY <2>1, <2>2
  <2>4. turn' \in TurnRecord
    BY <1>1, <2>2, <2>3 DEF TurnRecord
  <2>5. Goal
    BY <1>1, <1>7, <2>2, <2>3, <2>4
       DEF TurnRecord, SameTurn, SameBill, Settles, PulledBill, PulledWrites
  <2> QED
    BY <1>1, <1>3, <1>5, <2>5
<1>8. CASE ev.t \in {"started", "updated", "settled"}
  <2>1. turn' = [turn EXCEPT !.tracked = ev.bg] /\ ev.bg \in BOOLEAN
    BY <1>6, <1>8, EventFields DEF Takes, Tracked, Settles
  <2>2. turn' \in TurnRecord
    BY <1>1, <2>1 DEF TurnRecord
  <2>3. Goal
    BY <1>1, <1>8, <2>1, <2>2
       DEF TurnRecord, SameTurn, SameBill, Settles, PulledBill, PulledWrites
  <2> QED
    BY <1>1, <1>3, <1>5, <2>3
<1>9. CASE ev.t = "eof"
  <2>1. turn' = [turn EXCEPT !.end = "exhausted", !.pc = "closing"]
    BY <1>6, <1>9 DEF Takes
  <2>2. turn' \in TurnRecord
    BY <1>1, <2>1 DEF TurnRecord
  <2>3. Goal
    BY <1>1, <1>9, <2>1, <2>2
       DEF TurnRecord, SameTurn, SameBill, Settles, PulledBill, PulledWrites
  <2> QED
    BY <1>1, <1>3, <1>5, <2>3
<1>10. CASE ev.t \in {"call", "spawn", "denied", "session", "result", "usage", "done", "error"}
  <2>1. Flushed(turn) \in Seq(Write)
    BY <1>1, FlushedWrites
  <2>2. PICK t \in TurnRecord :
          /\ t.queue = turn.queue /\ t.buffer = turn.buffer /\ t.stop = turn.stop
          /\ SameTurn(turn, t) /\ t.lost = turn.lost /\ t.blocking = turn.blocking
          /\ t.tracked = IF ev.t \in Settles \cup {"spawn"} THEN ev.bg ELSE turn.tracked
          /\ IF ev.t = "usage" THEN /\ t.left = Charged(turn, ev).t.left
                                    /\ t.pool = Charged(turn, ev).t.pool
             ELSE SameBill(turn, t)
          /\ turn' = Awaits(t, Flushed(turn) \o Extra(ev),
                            IF ev.t \in {"done", "error"} THEN ev.t ELSE "none")
    <3>1. CASE ev.t \in {"spawn", "denied"}
      <4>1. PICK t \in TurnRecord : t = [turn EXCEPT !.tracked = ev.bg]
        BY <1>1, <3>1, EventFields DEF TurnRecord, Settles
      <4>2. Flushed(t) = Flushed(turn)
        BY <1>1, <4>1 DEF Flushed, TurnRecord
      <4>3. /\ t.queue = turn.queue /\ t.buffer = turn.buffer /\ t.stop = turn.stop
            /\ SameTurn(turn, t) /\ t.lost = turn.lost /\ t.blocking = turn.blocking
            /\ t.tracked = ev.bg /\ SameBill(turn, t)
        BY <1>1, <4>1 DEF TurnRecord, SameTurn, SameBill
      <4>4. turn' = Awaits(t, Flushed(turn) \o Extra(ev), "none")
        <5>1. CASE ev.t = "spawn"
          BY <1>6, <4>1, <4>2, <5>1 DEF Takes, Tracked, WithText, Extra
        <5>2. CASE ev.t = "denied"
          <6>1. turn' = Awaits(t, Flushed(turn), "none")
            BY <1>6, <4>1, <5>2 DEF Takes, Tracked
          <6>2. Extra(ev) = <<>>
            BY <5>2 DEF Extra
          <6> QED
            BY <2>1, <6>1, <6>2
        <5> QED
          BY <3>1, <5>1, <5>2
      <4> QED
        BY <3>1, <4>3, <4>4 DEF Settles
    <3>2. CASE ev.t = "usage"
      <4>1. ev \in Counts
        BY <3>2, EventFields
      <4>2. PICK t \in TurnRecord : t = Charged(turn, ev).t
        BY <1>1, <4>1, ChargedFields
      <4>3. /\ t.queue = turn.queue /\ t.buffer = turn.buffer /\ t.stop = turn.stop
            /\ SameTurn(turn, t) /\ SameFlags(turn, t)
        BY <1>1, <4>1, <4>2, ChargedFields
      <4>4. turn' = Awaits(t, Flushed(turn) \o Extra(ev), "none")
        BY <1>6, <3>2, <4>2 DEF Takes, WithText, Extra
      <4> QED
        BY <3>2, <4>2, <4>3, <4>4 DEF SameFlags, Settles
    <3>3. CASE ev.t \in {"call", "session", "result", "done", "error"}
      <4>1. turn' = Awaits(turn, Flushed(turn) \o Extra(ev),
                           IF ev.t \in {"done", "error"} THEN ev.t ELSE "none")
        <5>1. CASE ev.t = "call"
          <6>1. turn' = Awaits(turn, Flushed(turn) \o <<ev>>, "none")
            BY <1>6, <5>1 DEF Takes, WithText
          <6>2. Extra(ev) = <<ev>>
            BY <5>1, EventFields DEF Extra
          <6> QED
            BY <5>1, <6>1, <6>2
        <5>2. CASE ev.t = "session"
          <6>1. turn' = Awaits(turn, Flushed(turn) \o <<ev>>, "none")
            BY <1>6, <5>2 DEF Takes, WithText
          <6>2. Extra(ev) = <<ev>>
            BY <5>2, EventFields DEF Extra
          <6> QED
            BY <5>2, <6>1, <6>2
        <5>3. CASE ev.t \in {"result", "done", "error"}
          <6>1. turn' = Awaits(turn, Flushed(turn),
                               IF ev.t \in {"done", "error"} THEN ev.t ELSE "none")
            BY <1>6, <5>3 DEF Takes
          <6>2. Extra(ev) = <<>>
            BY <5>3 DEF Extra
          <6> QED
            BY <2>1, <6>1, <6>2
        <5> QED
          BY <3>3, <5>1, <5>2, <5>3
      <4> QED
        BY <1>1, <3>3, <4>1 DEF Settles, SameTurn, SameBill
    <3> QED
      BY <1>10, <3>1, <3>2, <3>3
  <2>3. Extra(ev) \in Seq(Write)
    <3>1. CASE ev.t \in {"call", "spawn"}
      <4>1. [t |-> "call", n |-> ev.n] \in Write
        BY <3>1, EventFields, Constants DEF Write
      <4> QED
        BY <3>1, <4>1 DEF Extra
    <3>2. CASE ev.t = "session"
      <4>1. [t |-> "session"] \in Write
        BY DEF Write
      <4> QED
        BY <3>2, <4>1 DEF Extra
    <3>3. CASE ev.t = "usage"
      <4>1. Charged(turn, ev).ev \in Write
        BY <1>1, <3>3, EventFields, ChargedFields DEF Write
      <4> QED
        BY <3>3, <4>1 DEF Extra
    <3>4. CASE ev.t \in {"denied", "result", "done", "error"}
      BY <3>4 DEF Extra
    <3> QED
      BY <1>10, <3>1, <3>2, <3>3, <3>4
  <2>4. PICK writes \in Seq(Write), end \in {"none", "done", "error"} :
          /\ writes = Flushed(turn) \o Extra(ev)
          /\ end = IF ev.t \in {"done", "error"} THEN ev.t ELSE "none"
    <3>1. Flushed(turn) \o Extra(ev) \in Seq(Write)
      BY <2>1, <2>3
    <3>2. (IF ev.t \in {"done", "error"} THEN ev.t ELSE "none") \in {"none", "done", "error"}
      OBVIOUS
    <3> QED
      BY <3>1, <3>2
  <2>5. turn' = Awaits(t, writes, end)
    BY <2>2, <2>4
  <2>6. /\ turn' \in TurnRecord
        /\ turn'.queue = turn.queue \o writes /\ turn'.buffer = <<>> /\ turn'.end = end
        /\ turn'.stop = t.stop
        /\ turn'.pc = IF turn.queue \o writes # <<>> THEN "await"
                      ELSE IF end = "none" THEN "pull" ELSE "closing"
        /\ SameTurn(t, turn') /\ SameBill(t, turn') /\ SameFlags(t, turn')
    <3>1. writes \in Seq(Write) /\ end \in {"none", "done", "error"}
      BY <2>4
    <3>2. t \in TurnRecord /\ t.queue = turn.queue
      BY <2>2
    <3>3. LET u == Awaits(t, writes, end) IN
          /\ u \in TurnRecord
          /\ u.queue = t.queue \o writes /\ u.buffer = <<>> /\ u.end = end /\ u.stop = t.stop
          /\ u.pc = IF t.queue \o writes # <<>> THEN "await"
                    ELSE IF end = "none" THEN "pull" ELSE "closing"
          /\ SameTurn(t, u) /\ SameBill(t, u) /\ SameFlags(t, u)
      BY <3>1, <3>2, AwaitsFields
    <3> QED
      BY <2>5, <3>2, <3>3
  <2>7. SameTurn(turn, turn') /\ turn'.stop = "none" /\ turn'.lost = turn.lost
        /\ turn'.blocking = turn.blocking /\ turn'.tracked = t.tracked
    BY <1>1, <2>2, <2>6 DEF SameTurn, SameFlags
  <2>8. PulledBill(ev)
    BY <2>2, <2>6 DEF PulledBill, SameBill
  <2>9. PulledWrites(ev)
    BY <1>10, <2>4, <2>6 DEF PulledWrites
  <2>10. Goal
    BY <2>2, <2>6, <2>7, <2>8, <2>9
  <2> QED
    BY <1>1, <1>3, <1>5, <2>10
<1> QED
  BY <1>3, <1>7, <1>8, <1>9, <1>10, EventFields DEF Settles

-----------------------------------------------------------------------------
(* The types and the phases                                                *)

\* What is stored of the executions, and what the runtimes counted
StoredOK ==
  /\ role \in Roles /\ runtime \in Runtimes
  /\ exec \in [Attempts -> [st : {"NONE", "WAITING"} \cup Live \cup Ended, session : 0 .. MaxTurns,
                            whose : {"none", "own", "taken", "shared", "replaced"}]]
  /\ usage \in [Attempts -> [main : [Models -> Nat], review : 0 .. 1, cost : Nat]]
  /\ counted \in [Sessions -> [Models -> Nat]]

LEMMA Typed ==
  ASSUME StoredOK', RunOK', PhaseFits'
  PROVE RunInv'
BY DEF StoredOK, RunOK, PhaseFits, RunInv, TypeOK, TurnRecord, Bounds

LEMMA TypesOf ==
  ASSUME RunInv
  PROVE StoredOK /\ RunOK /\ PhaseFits
BY DEF StoredOK, RunInv, TypeOK

LEMMA NoTurnTyped ==
  /\ NoTurn \in TurnRecord /\ NoTurn.pc = "none" /\ NoTurn.stop = "none" /\ NoTurn.end = "none"
  /\ NoTurn.queue = <<>> /\ NoTurn.buffer = <<>> /\ ~NoTurn.tracked /\ ~NoTurn.lost
  /\ NoTurn.e = 1
BY Constants DEF NoTurn, TurnRecord, Attempts

LEMMA NoProcessTyped ==
  /\ NoProcess \in ProcessRecord /\ ~NoProcess.on /\ NoProcess.pipe = <<>>
  /\ NoProcess.said = 0 /\ NoProcess.sub = "none"
BY Constants DEF NoProcess, ProcessRecord

\* What a new turn is
Begun(e, s) ==
  /\ turn' \in TurnRecord
  /\ turn'.pc = "opening" /\ turn'.e = e /\ turn'.s = s
  /\ turn'.stop = "none" /\ turn'.end = "none" /\ turn'.queue = <<>> /\ turn'.buffer = <<>>
  /\ ~turn'.tracked /\ ~turn'.lost

LEMMA BeginFields ==
  ASSUME bounds \in Bounds, NEW e \in Attempts, NEW s \in Nat, NEW fresh \in BOOLEAN,
         NEW base \in [Models -> Nat], NEW paid \in Nat, Begin(e, s, fresh, base, paid)
  PROVE /\ ~InTurn /\ Begun(e, s)
        /\ turn'.fresh = fresh /\ turn'.left = base /\ turn'.pool = paid
        /\ bounds' \in Bounds /\ bounds'.turns = bounds.turns + 1
        /\ cli' = NoProcess /\ log' = <<>>
<1>1. turn' = [NoTurn EXCEPT !.pc = "opening", !.e = e, !.s = s, !.fresh = fresh,
                             !.left = base, !.pool = paid]
  BY DEF Begin
<1>2. Begun(e, s) /\ turn'.fresh = fresh /\ turn'.left = base /\ turn'.pool = paid
  BY <1>1, NoTurnTyped DEF Begun, TurnRecord
<1>3. bounds.turns < MaxTurns /\ bounds' = [bounds EXCEPT !.turns = @ + 1]
  BY Constants DEF Begin, Bounds
<1>4. bounds.turns + 1 \in 0 .. MaxTurns
  BY <1>3, Constants DEF Bounds
<1>5. bounds' \in Bounds /\ bounds'.turns = bounds.turns + 1
  BY <1>3, <1>4 DEF Bounds
<1> QED
  BY <1>2, <1>5 DEF Begin

-----------------------------------------------------------------------------
(* What tokens cost                                                        *)

LEMMA TokensFinite ==
  ASSUME NEW f \in [Models -> Nat]
  PROVE IsFiniteSet(Tokens(f))
<1>1. IsFiniteSet(Models)
  BY Constants, FS_Interval DEF Models
<1>2. \A m \in Models : IsFiniteSet({m} \X (1 .. f[m]))
  <2> SUFFICES ASSUME NEW m \in Models PROVE IsFiniteSet({m} \X (1 .. f[m]))
    OBVIOUS
  <2>1. IsFiniteSet({m})
    BY FS_Singleton
  <2>2. 1 \in Int /\ f[m] \in Int
    OBVIOUS
  <2>3. IsFiniteSet(1 .. f[m])
    BY <2>2, FS_Interval
  <2> QED
    BY <2>1, <2>3, FS_Product
<1>3. PICK S : S = {{m} \X (1 .. f[m]) : m \in Models}
  OBVIOUS
<1>4. IsFiniteSet(S)
  <2> DEFINE g == [m \in Models |-> {m} \X (1 .. f[m])]
  <2>1. g \in Surjection(Models, S)
    BY <1>3 DEF Surjection
  <2> QED
    BY <1>1, <2>1, FS_Surjection
<1>5. \A T \in S : IsFiniteSet(T)
  BY <1>2, <1>3
<1> QED
  BY <1>3, <1>4, <1>5, FS_UNION DEF Tokens

LEMMA TotalIsNat ==
  ASSUME NEW f \in [Models -> Nat]
  PROVE Total(f) \in Nat
BY TokensFinite, FS_CardinalityType DEF Total

\* More tokens cost no less.
LEMMA TotalGrows ==
  ASSUME NEW f \in [Models -> Nat], NEW g \in [Models -> Nat], \A m \in Models : f[m] <= g[m]
  PROVE Total(f) <= Total(g)
<1>1. Tokens(f) \subseteq Tokens(g)
  <2> SUFFICES ASSUME NEW m \in Models, NEW i \in 1 .. f[m] PROVE <<m, i>> \in Tokens(g)
    BY DEF Tokens
  <2>1. i \in 1 .. g[m]
    OBVIOUS
  <2> QED
    BY <2>1 DEF Tokens
<1> QED
  BY <1>1, TokensFinite, FS_Subset DEF Total

LEMMA TotalOfNone ==
  ASSUME NEW f \in [Models -> Nat]
  PROVE Total(f) = 0 <=> \A m \in Models : f[m] = 0
<1>1. Total(f) = 0 <=> Tokens(f) = {}
  BY TokensFinite, FS_EmptySet DEF Total
<1>2. ASSUME NEW m \in Models, f[m] # 0 PROVE Tokens(f) # {}
  <2>1. <<m, 1>> \in {m} \X (1 .. f[m])
    BY <1>2
  <2> QED
    BY <2>1 DEF Tokens
<1>3. (\A m \in Models : f[m] = 0) => Tokens(f) = {}
  BY DEF Tokens
<1> QED
  BY <1>1, <1>2, <1>3

\* Codex has one model.
LEMMA TotalOfOne ==
  ASSUME NEW f \in [Models -> Nat], \A m \in Models \ {1} : f[m] = 0
  PROVE Total(f) = f[1]
<1>1. Tokens(f) = {1} \X (1 .. f[1])
  <2>1. \A m \in Models \ {1} : {m} \X (1 .. f[m]) = {}
    OBVIOUS
  <2> QED
    BY <2>1, Constants DEF Tokens
<1>2. /\ IsFiniteSet({1}) /\ Cardinality({1}) = 1 /\ 1 \in Models
      /\ IsFiniteSet(1 .. f[1]) /\ Cardinality(1 .. f[1]) = f[1]
  <2>1. IsFiniteSet({1}) /\ Cardinality({1}) = 1 /\ 1 \in Models
    BY Constants, FS_Singleton
  <2>2. 1 \in Int /\ f[1] \in Int /\ f[1] \in Nat
    BY <2>1
  <2>3. IsFiniteSet(1 .. f[1]) /\ Cardinality(1 .. f[1]) = IF 1 > f[1] THEN 0 ELSE f[1] - 1 + 1
    BY <2>2, FS_Interval
  <2> QED
    BY <2>1, <2>2, <2>3
<1>3. Cardinality({1} \X (1 .. f[1])) = Cardinality({1}) * Cardinality(1 .. f[1])
  BY <1>2, FS_Product
<1> QED
  BY <1>1, <1>2, <1>3 DEF Total

-----------------------------------------------------------------------------
(* The process                                                             *)

\* A text, a call or a subagent that is asked for: the next item
Speaks(ev) ==
  /\ ev.t \in {"text", "call", "spawn"} /\ ev.n = cli.said + 1
  /\ cli'.on /\ cli'.said = cli.said + 1
  /\ IF ev.t = "spawn" THEN ev.bg <=> Background' ELSE cli'.sub = cli.sub

\* What becomes of the subagent
SubagentSettles(ev) ==
  /\ ev.t \in Settles /\ (ev.bg <=> Background') /\ cli'.on /\ cli'.said = cli.said

ToolAnswers(ev) ==
  /\ ev.t = "result" /\ cli'.on /\ cli'.said = cli.said /\ cli'.sub = cli.sub

\* The usage of a turn that ends
Reporting(U) ==
  \/ /\ runtime = "claude"
     /\ \E order \in Bijection(1 .. Cardinality(Used), Used) : U = ClaudeUsage(order)
  \/ runtime = "codex" /\ U = CodexUsage

Finishes(U, ev) ==
  /\ U \in Seq(Counts) /\ ev.t \in Finals
  /\ (U = <<>> /\ ev.t # "done") \/ Reporting(U)
  /\ ~cli'.on /\ cli'.said = cli.said /\ cli'.sub = cli.sub

OneEvent(X) == \E ev \in Event : X = <<ev>> /\ (Speaks(ev) \/ SubagentSettles(ev) \/ ToolAnswers(ev))
LastEvents(X) ==
  \E U \in Seq(Counts), ev \in Event : X = U \o <<ev>> /\ Finishes(U, ev)

\* The process writes, or it calls a model.
Output(X) ==
  /\ cli.on /\ cli' \in ProcessRecord /\ UNCHANGED <<role, runtime, exec, usage, turn, log, bounds>>
  /\ X \in Seq(Event) /\ cli'.pipe = cli.pipe \o X /\ counted' = counted
  /\ OneEvent(X) \/ LastEvents(X)

Working(m) ==
  /\ cli.on /\ cli' \in ProcessRecord /\ UNCHANGED <<role, runtime, exec, usage, turn, log, bounds>>
  /\ cli'.on /\ cli'.pipe = cli.pipe /\ cli'.said = cli.said /\ cli'.sub = cli.sub
  /\ counted' = [counted EXCEPT ![turn.s][m] = @ + 1]
  /\ runtime = "codex" => m = 1

LEMMA OneMore ==
  ASSUME NEW S, NEW s \in Seq(S), NEW x \in S
  PROVE /\ Append(s, x) = s \o <<x>> /\ s \o <<x>> \in Seq(S) /\ <<x>> \in Seq(S)
        /\ s = <<>> => s \o <<x>> = <<x>>
<1>1. <<x>> \in Seq(S)
  OBVIOUS
<1> QED
  BY <1>1, AppendIsConcat, ConcatProperties, ConcatEmptySeq

LEMMA EmitsOutput ==
  ASSUME RunInv, NEW t \in {"text", "call"}, Emits(t)
  PROVE \E X : Output(X)
<1>1. cli \in ProcessRecord /\ cli.pipe \in Seq(Event) /\ cli.said + 1 \in Item
  <2>1. cli \in ProcessRecord
    BY DEF RunInv, RunOK
  <2>2. cli.pipe \in Seq(Event) /\ cli.said \in 0 .. MaxSaid
    BY <2>1 DEF ProcessRecord
  <2>3. cli.said < MaxSaid /\ MaxSaid \in Nat
    BY Constants DEF Emits
  <2>4. cli.said + 1 \in Item
    BY <2>2, <2>3 DEF Item
  <2> QED
    BY <2>1, <2>2, <2>4
<1>2. PICK ev \in Event : ev = [t |-> t, n |-> cli.said + 1]
  BY <1>1 DEF Event
<1>3. PICK said \in 0 .. MaxSaid : said = cli.said + 1
  BY <1>1, Constants DEF Item
<1>4. PICK pipe \in Seq(Event) : pipe = cli.pipe \o <<ev>> /\ pipe = Append(cli.pipe, ev)
  BY <1>1, <1>2, OneMore
<1>5. cli' = [cli EXCEPT !.said = said, !.pipe = pipe]
  BY <1>2, <1>3, <1>4 DEF Emits
<1>6. /\ cli' \in ProcessRecord /\ cli'.on /\ cli'.said = said /\ cli'.sub = cli.sub
      /\ cli'.pipe = cli.pipe \o <<ev>>
  BY <1>1, <1>4, <1>5 DEF ProcessRecord, Emits
<1>7. Speaks(ev)
  BY <1>2, <1>3, <1>6 DEF Speaks
<1>8. Output(<<ev>>)
  BY <1>6, <1>7 DEF Emits, Output, OneEvent, kinds
<1> QED
  BY <1>8

LEMMA SpawnsOutput ==
  ASSUME RunInv, NEW bg \in BOOLEAN, Spawns(bg)
  PROVE \E X : Output(X)
<1>1. cli \in ProcessRecord /\ cli.pipe \in Seq(Event) /\ cli.said + 1 \in Item
  BY Constants DEF RunInv, RunOK, ProcessRecord, Spawns, Item
<1>2. PICK ev \in Event : ev = [t |-> "spawn", n |-> cli.said + 1, bg |-> bg]
  BY <1>1 DEF Event
<1>3. PICK said \in 0 .. MaxSaid : said = cli.said + 1
  BY <1>1, Constants DEF Item
<1>4. PICK pipe \in Seq(Event) : pipe = cli.pipe \o <<ev>> /\ pipe = Append(cli.pipe, ev)
  BY <1>1, <1>2, OneMore
<1>5. PICK sub \in {"asked", "askedbg"} : sub = IF bg THEN "askedbg" ELSE "asked"
  OBVIOUS
<1>6. cli' = [cli EXCEPT !.said = said, !.sub = sub, !.pipe = pipe]
  BY <1>2, <1>3, <1>4, <1>5 DEF Spawns
<1>7. /\ cli' \in ProcessRecord /\ cli'.on /\ cli'.said = said /\ cli'.sub = sub
      /\ cli'.pipe = cli.pipe \o <<ev>>
  BY <1>1, <1>4, <1>5, <1>6 DEF ProcessRecord, Spawns
<1>8. Speaks(ev)
  BY <1>2, <1>3, <1>5, <1>7 DEF Speaks, Background
<1>9. Output(<<ev>>)
  BY <1>7, <1>8 DEF Spawns, Output, OneEvent, kinds
<1> QED
  BY <1>9

LEMMA SubagentOutput ==
  ASSUME RunInv, NEW t \in Settles, NEW from, NEW to \in {"fg", "bg", "over"}, NEW bg \in BOOLEAN,
         SubagentMoves(t, from, to, bg), bg <=> to = "bg"
  PROVE \E X : Output(X)
<1>1. cli \in ProcessRecord /\ cli.pipe \in Seq(Event)
  BY DEF RunInv, RunOK, ProcessRecord
<1>2. PICK ev \in Event : ev = [t |-> t, bg |-> bg]
  BY DEF Event
<1>3. PICK pipe \in Seq(Event) : pipe = cli.pipe \o <<ev>> /\ pipe = Append(cli.pipe, ev)
  BY <1>1, <1>2, OneMore
<1>4. cli' = [cli EXCEPT !.sub = to, !.pipe = pipe]
  BY <1>2, <1>3 DEF SubagentMoves
<1>5. /\ cli' \in ProcessRecord /\ cli'.on /\ cli'.said = cli.said /\ cli'.sub = to
      /\ cli'.pipe = cli.pipe \o <<ev>>
  BY <1>1, <1>3, <1>4 DEF ProcessRecord, SubagentMoves
<1>6. SubagentSettles(ev)
  BY <1>2, <1>5 DEF SubagentSettles, Background
<1>7. Output(<<ev>>)
  BY <1>5, <1>6 DEF SubagentMoves, Output, OneEvent, kinds
<1> QED
  BY <1>7

LEMMA ChatsOutput ==
  ASSUME RunInv, Chats
  PROVE \E X : Output(X)
<1>1. cli \in ProcessRecord /\ cli.pipe = <<>> /\ cli.pipe \in Seq(Event)
  BY DEF RunInv, RunOK, Chats, ProcessRecord
<1>2. PICK ev \in Event : ev = [t |-> "result"]
  BY DEF Event
<1>3. PICK pipe \in Seq(Event) : pipe = <<ev>> /\ pipe = cli.pipe \o <<ev>>
  BY <1>1, <1>2, OneMore
<1>4. cli' = [cli EXCEPT !.pipe = pipe]
  BY <1>2, <1>3 DEF Chats
<1>5. /\ cli' \in ProcessRecord /\ cli'.on /\ cli'.said = cli.said /\ cli'.sub = cli.sub
      /\ cli'.pipe = cli.pipe \o <<ev>>
  BY <1>1, <1>3, <1>4 DEF ProcessRecord, Chats
<1>6. ToolAnswers(ev)
  BY <1>2, <1>5 DEF ToolAnswers
<1>7. Output(<<ev>>)
  BY <1>5, <1>6 DEF Chats, Output, OneEvent, kinds
<1> QED
  BY <1>7

LEMMA WorksWorking ==
  ASSUME RunInv, NEW m \in Models, Works(m)
  PROVE Working(m)
<1>1. cli \in ProcessRecord
  BY DEF RunInv, RunOK
<1>2. PICK worked \in 0 .. MaxWork : worked = cli.worked + 1
  BY <1>1, Constants DEF ProcessRecord, Works
<1>3. cli' = [cli EXCEPT !.worked = worked]
  BY <1>2 DEF Works
<1>4. /\ cli' \in ProcessRecord /\ cli'.on /\ cli'.pipe = cli.pipe /\ cli'.said = cli.said
      /\ cli'.sub = cli.sub
  BY <1>1, <1>3 DEF ProcessRecord, Works
<1> QED
  BY <1>4 DEF Works, Working, kinds

LEMMA UsedFinite ==
  ASSUME RunInv
  PROVE /\ Used \subseteq Models /\ IsFiniteSet(Used) /\ Cardinality(Used) \in Nat
        /\ IsFiniteSet(Models)
<1>1. IsFiniteSet(Models)
  BY Constants, FS_Interval DEF Models
<1> QED
  BY <1>1, FS_Subset, FS_CardinalityType DEF Used

\* The usage of a Claude turn has each used model once, and its cost once.
LEMMA ClaudeReports ==
  ASSUME RunInv, turn.s \in Sessions, NEW order \in Bijection(1 .. Cardinality(Used), Used)
  PROVE LET U == ClaudeUsage(order) IN
        /\ U \in Seq(Counts) /\ Len(U) = Cardinality(Used)
        /\ order \in [1 .. Len(U) -> Used]
        /\ \A i, j \in 1 .. Len(U) : order[i] = order[j] => i = j
        /\ \A m \in Used : \E i \in 1 .. Len(U) : order[i] = m
        /\ \A i \in 1 .. Len(U) :
             U[i] = [t |-> "usage", m |-> order[i], n |-> counted[turn.s][order[i]],
                     c |-> IF i = 1 THEN Total(counted[turn.s]) ELSE 0]
<1>1. PICK n \in Nat : n = Cardinality(Used)
  BY UsedFinite
<1>2. /\ order \in [1 .. n -> Used]
      /\ \A i, j \in 1 .. n : order[i] = order[j] => i = j
      /\ \A m \in Used : \E i \in 1 .. n : order[i] = m
  BY <1>1 DEF Bijection, Injection, Surjection, IsInjective
<1>3. Len(order) = n
  BY <1>2
<1>4. counted[turn.s] \in [Models -> Nat] /\ Total(counted[turn.s]) \in Nat
  <2>1. counted[turn.s] \in [Models -> Nat]
    BY DEF RunInv, TypeOK
  <2> QED
    BY <2>1, TotalIsNat
<1>5. ClaudeUsage(order) = [i \in 1 .. n |->
        [t |-> "usage", m |-> order[i], n |-> counted[turn.s][order[i]],
         c |-> IF i = 1 THEN Total(counted[turn.s]) ELSE 0]]
  BY <1>3 DEF ClaudeUsage
<1>6. \A i \in 1 .. n : [t |-> "usage", m |-> order[i], n |-> counted[turn.s][order[i]],
                        c |-> IF i = 1 THEN Total(counted[turn.s]) ELSE 0] \in Counts
  BY <1>2, <1>4, UsedFinite DEF Counts
<1>7. ClaudeUsage(order) \in [1 .. n -> Counts]
  BY <1>5, <1>6
<1>8. ClaudeUsage(order) \in Seq(Counts) /\ Len(ClaudeUsage(order)) = n
  BY <1>7
<1> QED
  BY <1>1, <1>2, <1>5, <1>8

\* A process that ends reports what it used, or does not, and says how it ended.
LEMMA EndingIs ==
  ASSUME RunInv, cli.on, NEW U \in Seq(Counts), NEW ev \in Event, ev.t \in Finals,
         (U = <<>> /\ ev.t # "done") \/ Reporting(U),
         cli' = [cli EXCEPT !.on = FALSE, !.pipe = @ \o U \o <<ev>>],
         UNCHANGED <<role, runtime, exec, usage, counted, turn, log, bounds>>
  PROVE \E X : Output(X)
<1>1. cli \in ProcessRecord /\ cli.pipe \in Seq(Event)
  BY DEF RunInv, RunOK, ProcessRecord
<1>2. U \in Seq(Event) /\ <<ev>> \in Seq(Event)
  <2>1. Counts \subseteq Event
    BY DEF Event
  <2> QED
    BY <2>1, SeqMonotonic
<1>3. U \o <<ev>> \in Seq(Event) /\ cli.pipe \o U \o <<ev>> = cli.pipe \o (U \o <<ev>>)
  <2>1. \A s, t, u \in Seq(Event) : (s \o t) \o u = s \o (t \o u)
    BY Regrouped
  <2> QED
    BY <1>1, <1>2, <2>1, ConcatProperties
<1>4. PICK pipe \in Seq(Event) : pipe = cli.pipe \o (U \o <<ev>>)
  BY <1>1, <1>3, ConcatProperties
<1>5. cli' = [cli EXCEPT !.on = FALSE, !.pipe = pipe]
  BY <1>3, <1>4
<1>6. /\ cli' \in ProcessRecord /\ ~cli'.on /\ cli'.said = cli.said /\ cli'.sub = cli.sub
      /\ cli'.pipe = pipe
  BY <1>1, <1>4, <1>5 DEF ProcessRecord
<1>7. Finishes(U, ev)
  BY <1>6 DEF Finishes
<1>8. LastEvents(U \o <<ev>>)
  BY <1>7 DEF LastEvents
<1>9. Output(U \o <<ev>>)
  BY <1>3, <1>4, <1>6, <1>8 DEF Output
<1> QED
  BY <1>9

LEMMA EndsOutput ==
  ASSUME RunInv,
         \/ \E ok \in BOOLEAN : ClaudeFinishes(ok) \/ CodexFinishes(ok)
         \/ ClaudeCrashes \/ CodexCrashes
  PROVE \E X : Output(X)
<1>1. /\ cli.on /\ cli.pipe \in Seq(Event)
      /\ UNCHANGED <<role, runtime, exec, usage, counted, turn, log, bounds>>
  BY DEF ClaudeFinishes, CodexFinishes, ClaudeCrashes, CodexCrashes, kinds,
         RunInv, RunOK, ProcessRecord
<1>2. turn.s \in Sessions /\ counted[turn.s] \in [Models -> Nat]
  <2>1. InTurn /\ turn.s \in 1 .. bounds.turns /\ bounds.turns \in 0 .. MaxTurns
    BY <1>1 DEF RunInv, PhaseFits, Open, InTurn, RunOK, Bounds
  <2>2. turn.s \in Sessions
    BY <2>1, Constants DEF Sessions
  <2> QED
    BY <2>2 DEF RunInv, TypeOK
<1>3. \A t \in Finals : [t |-> t] \in Event
  BY DEF Event, Finals
<1>4. <<>> \in Seq(Counts) /\ cli.pipe \o <<>> = cli.pipe
  BY <1>1, ConcatEmptySeq
<1>5. ASSUME NEW ok \in BOOLEAN, ClaudeFinishes(ok) PROVE \E X : Output(X)
  <2>1. PICK order \in Bijection(1 .. Cardinality(Used), Used) :
          cli' = [cli EXCEPT !.on = FALSE,
                    !.pipe = @ \o ClaudeUsage(order) \o <<[t |-> IF ok THEN "done" ELSE "error"]>>]
    BY <1>5 DEF ClaudeFinishes
  <2>2. PICK ev \in Event : ev = [t |-> IF ok THEN "done" ELSE "error"]
    BY <1>3 DEF Finals
  <2>3. ClaudeUsage(order) \in Seq(Counts)
    BY <1>2, ClaudeReports
  <2>4. Reporting(ClaudeUsage(order)) /\ ev.t \in Finals
    BY <1>5, <2>2 DEF ClaudeFinishes, Reporting, Finals
  <2> QED
    BY <1>1, <2>1, <2>2, <2>3, <2>4, EndingIs
<1>6. ASSUME NEW ok \in BOOLEAN, CodexFinishes(ok) PROVE \E X : Output(X)
  <2>1. CASE ok
    <3>1. PICK ev \in Event : ev = [t |-> "done"]
      BY <1>3 DEF Finals
    <3>2. cli' = [cli EXCEPT !.on = FALSE, !.pipe = @ \o (CodexUsage \o <<ev>>)]
      BY <1>6, <2>1, <3>1 DEF CodexFinishes
    <3>3. [t |-> "usage", m |-> 1, n |-> counted[turn.s][1], c |-> 0] \in Counts
      BY <1>2, Constants DEF Counts
    <3>4. CodexUsage \in Seq(Counts)
      BY <3>3 DEF CodexUsage
    <3>5. Reporting(CodexUsage) /\ ev.t \in Finals
      BY <1>6, <3>1 DEF CodexFinishes, Reporting, Finals
    <3>6. cli.pipe \o (CodexUsage \o <<ev>>) = cli.pipe \o CodexUsage \o <<ev>>
      <4>1. Counts \subseteq Event
        BY DEF Event
      <4>2. CodexUsage \in Seq(Event) /\ <<ev>> \in Seq(Event)
        BY <3>4, <4>1, SeqMonotonic
      <4>3. \A s, t, u \in Seq(Event) : (s \o t) \o u = s \o (t \o u)
        BY Regrouped
      <4> QED
        BY <1>1, <4>2, <4>3
    <3>7. cli' = [cli EXCEPT !.on = FALSE, !.pipe = @ \o CodexUsage \o <<ev>>]
      BY <3>2, <3>6
    <3> QED
      BY <1>1, <3>1, <3>4, <3>5, <3>7, EndingIs
  <2>2. CASE ~ok
    <3>1. PICK ev \in Event : ev = [t |-> "error"]
      BY <1>3 DEF Finals
    <3>2. cli' = [cli EXCEPT !.on = FALSE, !.pipe = @ \o <<>> \o <<ev>>]
      BY <1>4, <1>6, <2>2, <3>1 DEF CodexFinishes
    <3>3. ev.t \in Finals /\ ev.t # "done"
      BY <3>1 DEF Finals
    <3> QED
      BY <1>1, <1>4, <3>2, <3>3, EndingIs
  <2> QED
    BY <2>1, <2>2
<1>7. ASSUME ClaudeCrashes \/ CodexCrashes PROVE \E X : Output(X)
  <2>1. PICK t \in {"error", "eof"} : cli' = [cli EXCEPT !.on = FALSE, !.pipe = Append(@, [t |-> t])]
    BY <1>7 DEF ClaudeCrashes, CodexCrashes
  <2>2. PICK ev \in Event : ev = [t |-> t]
    BY <1>3 DEF Finals
  <2>3. Append(cli.pipe, ev) = cli.pipe \o <<>> \o <<ev>>
    BY <1>1, <1>4, OneMore
  <2>4. cli' = [cli EXCEPT !.on = FALSE, !.pipe = @ \o <<>> \o <<ev>>]
    BY <2>1, <2>2, <2>3
  <2>5. ev.t \in Finals /\ ev.t # "done"
    BY <2>2 DEF Finals
  <2> QED
    BY <1>1, <1>4, <2>4, <2>5, EndingIs
<1> QED
  BY <1>5, <1>6, <1>7

LEMMA ProcessSteps ==
  ASSUME RunInv, Process
  PROVE (\E X : Output(X)) \/ \E m \in Models : Working(m)
<1>1. CASE ClaudeSays \/ CodexSays
  BY <1>1, EmitsOutput DEF ClaudeSays, CodexSays
<1>2. CASE Chats
  BY <1>2, ChatsOutput
<1>3. CASE \E m \in Models : Works(m)
  BY <1>3, WorksWorking
<1>4. CASE \E bg \in BOOLEAN : Spawns(bg)
  BY <1>4, SpawnsOutput
<1>5. CASE Subagent
  BY <1>5, SubagentOutput DEF Subagent, Settles
<1>6. CASE \/ \E ok \in BOOLEAN : ClaudeFinishes(ok) \/ CodexFinishes(ok)
           \/ ClaudeCrashes \/ CodexCrashes
  BY <1>6, EndsOutput
<1> QED
  BY <1>1, <1>2, <1>3, <1>4, <1>5, <1>6 DEF Process

-----------------------------------------------------------------------------
(* What the steps change                                                   *)

Row == [st : {"NONE", "WAITING"} \cup Live \cup Ended, session : 0 .. MaxTurns,
        whose : {"none", "own", "taken", "shared", "replaced"}]

\* The row of an execution is written.
RowChange(e, st, session, whose) ==
  /\ exec' \in [Attempts -> Row] /\ \A a \in Attempts \ {e} : exec'[a] = exec[a]
  /\ exec'[e].st = st /\ exec'[e].session = session /\ exec'[e].whose = whose

LEMMA RowWritten ==
  ASSUME StoredOK, NEW e \in Attempts, NEW r \in Row, exec' = [exec EXCEPT ![e] = r]
  PROVE RowChange(e, r.st, r.session, r.whose)
BY DEF StoredOK, RowChange, Row

\* A row of which one or two parts are written
LEMMA RowOf ==
  ASSUME StoredOK, NEW e \in Attempts
  PROVE exec[e] \in Row /\ exec[e] = [st |-> exec[e].st, session |-> exec[e].session,
                                      whose |-> exec[e].whose]
BY DEF StoredOK, Row

LEMMA StateWritten ==
  ASSUME StoredOK, NEW e \in Attempts, NEW st \in {"NONE", "WAITING"} \cup Live \cup Ended,
         exec' = [exec EXCEPT ![e].st = st]
  PROVE RowChange(e, st, exec[e].session, exec[e].whose)
<1>1. PICK r \in Row : r = [exec[e] EXCEPT !.st = st]
  BY RowOf DEF Row
<1>2. exec' = [exec EXCEPT ![e] = r]
  BY <1>1 DEF StoredOK
<1>3. r.st = st /\ r.session = exec[e].session /\ r.whose = exec[e].whose
  BY <1>1, RowOf DEF Row
<1> QED
  BY <1>2, <1>3, RowWritten

LEMMA OwnerWritten ==
  ASSUME StoredOK, NEW e \in Attempts, NEW st \in {"NONE", "WAITING"} \cup Live \cup Ended,
         NEW whose \in {"none", "own", "taken", "shared", "replaced"},
         exec' = [exec EXCEPT ![e].st = st, ![e].whose = whose]
  PROVE RowChange(e, st, exec[e].session, whose)
<1>1. PICK r \in Row : r = [exec[e] EXCEPT !.st = st, !.whose = whose]
  BY RowOf DEF Row
<1>2. exec' = [exec EXCEPT ![e] = r]
  BY <1>1 DEF StoredOK
<1>3. r.st = st /\ r.session = exec[e].session /\ r.whose = whose
  BY <1>1, RowOf DEF Row
<1> QED
  BY <1>2, <1>3, RowWritten

\* A turn begins.
NewTurn(e, s, fresh, base, paid) ==
  /\ ~InTurn /\ Begun(e, s) /\ turn'.fresh = fresh /\ turn'.left = base /\ turn'.pool = paid
  /\ bounds' \in Bounds /\ bounds'.turns = bounds.turns + 1 /\ cli' = NoProcess /\ log' = <<>>
  /\ s \in 1 .. bounds'.turns /\ bounds'.turns <= MaxTurns
  /\ UNCHANGED <<role, runtime, usage, counted>>

LEMMA CurrentIs ==
  Current \in Attempts /\ Current = IF exec[2].st = "NONE" THEN 1 ELSE 2
BY DEF Current, Attempts

LEMMA TurnBegins ==
  ASSUME RunInv, NEW e \in Attempts, NEW s \in 1 .. bounds.turns + 1, NEW fresh \in BOOLEAN,
         NEW base \in [Models -> Nat], NEW paid \in Nat, Begin(e, s, fresh, base, paid),
         UNCHANGED <<role, runtime, usage, counted>>
  PROVE NewTurn(e, s, fresh, base, paid)
<1>1. bounds \in Bounds /\ s \in Nat
  BY DEF RunInv, RunOK, Bounds
<1>2. /\ ~InTurn /\ Begun(e, s)
      /\ turn'.fresh = fresh /\ turn'.left = base /\ turn'.pool = paid
      /\ bounds' \in Bounds /\ bounds'.turns = bounds.turns + 1
      /\ cli' = NoProcess /\ log' = <<>>
  BY <1>1, BeginFields
<1> QED
  BY <1>1, <1>2, Constants DEF NewTurn, Bounds

LEMMA StartsSteps ==
  ASSUME RunInv, NEW e \in Attempts, Starts(e)
  PROVE /\ exec[e].st = "ASSIGNED" /\ exec[e].whose = "none"
        /\ NewTurn(e, bounds.turns + 1, FALSE, Zero, 0)
        /\ RowChange(e, "ASSIGNED", exec[e].session, "own")
<1>1. bounds.turns + 1 \in 1 .. bounds.turns + 1
  BY DEF RunInv, RunOK, Bounds
<1>2. NewTurn(e, bounds.turns + 1, FALSE, Zero, 0)
  BY <1>1, TurnBegins, Constants DEF Starts, NewSession, kinds
<1>3. exec' = [exec EXCEPT ![e].st = exec[e].st, ![e].whose = "own"]
  BY TypesOf DEF Starts, StoredOK
<1>4. RowChange(e, exec[e].st, exec[e].session, "own")
  BY <1>3, TypesOf, RowOf, OwnerWritten DEF Row
<1> QED
  BY <1>2, <1>4 DEF Starts

LEMMA SessionOf ==
  ASSUME RunInv, NEW e \in Attempts, exec[e].session # 0
  PROVE /\ exec[e].session \in 1 .. bounds.turns + 1 /\ exec[e].session \in 1 .. bounds.turns
        /\ usage[e].main \in [Models -> Nat] /\ usage[e].cost \in Nat
BY Constants DEF RunInv, TypeOK, PhaseFits, RunOK, Bounds

LEMMA TakesOverSteps ==
  ASSUME RunInv, TakesOver
  PROVE /\ exec[2].st = "ASSIGNED" /\ exec[2].whose = "none" /\ exec[1].session # 0
        /\ NewTurn(2, exec[1].session, FALSE, usage[1].main, usage[1].cost)
        /\ RowChange(2, "RUNNING", exec[1].session, "taken")
<1>1. 1 \in Attempts /\ 2 \in Attempts /\ exec[1].session # 0
  BY DEF Attempts, TakesOver
<1>2. NewTurn(2, exec[1].session, FALSE, usage[1].main, usage[1].cost)
  BY <1>1, TurnBegins, SessionOf DEF TakesOver, Baseline, kinds
<1>3. PICK r \in Row : r = [st |-> "RUNNING", session |-> exec[1].session, whose |-> "taken"]
  BY <1>1, TypesOf, RowOf DEF Row, Live
<1>4. RowChange(2, r.st, r.session, r.whose)
  BY <1>1, <1>3, TypesOf, RowWritten DEF TakesOver
<1> QED
  BY <1>1, <1>2, <1>3, <1>4 DEF TakesOver

LEMMA ResumesSteps ==
  ASSUME RunInv, NEW e \in Attempts, Resumes(e)
  PROVE /\ Resumable(e) /\ exec[e].session # 0
        /\ NewTurn(e, exec[e].session, FALSE, usage[e].main, usage[e].cost)
        /\ RowChange(e, "RUNNING", exec[e].session,
                     IF exec[e].whose = "taken" THEN "shared" ELSE exec[e].whose)
<1>1. Resumable(e) /\ exec[e].session # 0
  BY DEF Resumes, CanResume
<1>2. NewTurn(e, exec[e].session, FALSE, usage[e].main, usage[e].cost)
  BY <1>1, TurnBegins, SessionOf DEF Resumes, Baseline, kinds
<1>3. PICK whose \in {"none", "own", "taken", "shared", "replaced"} :
        whose = IF exec[e].whose = "taken" THEN "shared" ELSE exec[e].whose
  BY TypesOf, RowOf DEF Row
<1>4. exec' = [exec EXCEPT ![e].st = "RUNNING", ![e].whose = whose]
  BY <1>3, TypesOf DEF Resumes, StoredOK
<1>5. RowChange(e, "RUNNING", exec[e].session, whose)
  BY <1>4, TypesOf, OwnerWritten DEF Live
<1> QED
  BY <1>1, <1>2, <1>3, <1>5

LEMMA StartsAfreshSteps ==
  ASSUME RunInv, NEW e \in Attempts, StartsAfresh(e)
  PROVE /\ Resumable(e)
        /\ NewTurn(e, bounds.turns + 1, TRUE, Zero, 0)
        /\ RowChange(e, "RUNNING", exec[e].session, "replaced")
<1>1. bounds.turns + 1 \in 1 .. bounds.turns + 1
  BY DEF RunInv, RunOK, Bounds
<1>2. NewTurn(e, bounds.turns + 1, TRUE, Zero, 0)
  BY <1>1, TurnBegins, Constants DEF StartsAfresh, NewSession, kinds
<1>3. RowChange(e, "RUNNING", exec[e].session, "replaced")
  BY TypesOf, OwnerWritten DEF StartsAfresh, Live
<1> QED
  BY <1>2, <1>3 DEF StartsAfresh

LEMMA NewTurnRun ==
  ASSUME RunInv, NEW e \in Attempts, NEW s, NEW fresh, NEW base, NEW paid,
         NewTurn(e, s, fresh, base, paid),
         NEW st, NEW session \in 0 .. bounds.turns, NEW whose, RowChange(e, st, session, whose)
  PROVE RunInv'
<1>1. StoredOK'
  BY TypesOf DEF StoredOK, NewTurn, RowChange, Row
<1>2. RunOK'
  <2>1. <<>> \in Seq(1 .. Message)
    OBVIOUS
  <2> QED
    BY <2>1, NoProcessTyped DEF RunOK, NewTurn, Begun
<1>3. \A a \in Attempts : exec'[a].session <= bounds'.turns
  <2>1. bounds.turns \in Nat /\ bounds'.turns = bounds.turns + 1
    BY Constants DEF RunInv, RunOK, Bounds, NewTurn
  <2>2. exec'[e].session = session /\ \A a \in Attempts \ {e} : exec'[a] = exec[a]
    BY DEF RowChange
  <2>3. \A a \in Attempts : exec[a].session \in 0 .. MaxTurns /\ exec[a].session <= bounds.turns
    BY DEF RunInv, TypeOK, PhaseFits
  <2> SUFFICES ASSUME NEW a \in Attempts PROVE exec'[a].session <= bounds'.turns
    OBVIOUS
  <2>4. CASE a = e
    BY <2>1, <2>2, <2>4
  <2>5. CASE a # e
    BY <2>1, <2>2, <2>3, <2>5, Constants
  <2> QED
    BY <2>4, <2>5
<1>4. turn' \in TurnRecord /\ turn'.s \in 1 .. bounds'.turns
  BY DEF NewTurn, Begun
<1>5. PhaseFits'
  BY <1>3, <1>4, NoProcessTyped DEF PhaseFits, NewTurn, Begun, InTurn, Open, AllRead, Finals
<1> QED
  BY <1>1, <1>2, <1>5, Typed

\* Opens: the process of the turn, or no turn
TurnOver == turn' = NoTurn /\ cli' = NoProcess /\ log' = <<>>

LEMMA OpensSteps ==
  ASSUME RunInv, Opens
  PROVE /\ turn.pc = "opening" /\ log' = log /\ bounds' = bounds
        /\ UNCHANGED <<role, runtime, exec, usage, counted>>
        /\ \/ TurnOver /\ exec[turn.e].st \notin Live
           \/ /\ exec[turn.e].st \in Live
              /\ turn' \in TurnRecord /\ turn'.pc = "pull" /\ turn'.end = turn.end
              /\ turn'.stop = turn.stop /\ turn'.queue = turn.queue /\ turn'.buffer = turn.buffer
              /\ SameTurn(turn, turn') /\ SameBill(turn, turn') /\ SameFlags(turn, turn')
              /\ cli' \in ProcessRecord /\ cli'.on /\ cli'.pipe = <<[t |-> "session"]>>
              /\ cli'.said = 0 /\ cli'.sub = "none"
<1>1. turn \in TurnRecord /\ turn.pc = "opening" /\ log = <<>>
  BY DEF RunInv, RunOK, PhaseFits, Opens
<1>2. CASE exec[turn.e].st \in Live
  <2>1. turn' = [turn EXCEPT !.pc = "pull"] /\ cli' = Spawned
    BY <1>2 DEF Opens
  <2>2. PICK ev \in Event : ev = [t |-> "session"]
    BY DEF Event
  <2>3. PICK pipe \in Seq(Event) : pipe = <<[t |-> "session"]>>
    BY <2>2, <<ev>> \in Seq(Event)
  <2>4. cli' = [NoProcess EXCEPT !.on = TRUE, !.pipe = pipe]
    BY <2>1, <2>3 DEF Spawned
  <2>5. /\ cli' \in ProcessRecord /\ cli'.on /\ cli'.pipe = pipe /\ cli'.said = 0
        /\ cli'.sub = "none"
    BY <2>3, <2>4, NoProcessTyped DEF ProcessRecord
  <2>6. /\ turn' \in TurnRecord /\ turn'.pc = "pull" /\ turn'.end = turn.end
        /\ turn'.stop = turn.stop /\ turn'.queue = turn.queue /\ turn'.buffer = turn.buffer
        /\ SameTurn(turn, turn') /\ SameBill(turn, turn') /\ SameFlags(turn, turn')
    BY <1>1, <2>1 DEF TurnRecord, SameTurn, SameBill, SameFlags
  <2> QED
    BY <1>1, <1>2, <2>3, <2>5, <2>6 DEF Opens, kinds
<1>3. CASE exec[turn.e].st \notin Live
  BY <1>1, <1>3 DEF Opens, TurnOver, kinds
<1> QED
  BY <1>2, <1>3

LEMMA TurnOverRun ==
  ASSUME RunInv, StoredOK', TurnOver, bounds' = bounds,
         \A e \in Attempts : exec'[e].session = exec[e].session
  PROVE RunInv'
<1>1. RunOK'
  <2>1. <<>> \in Seq(1 .. Message)
    OBVIOUS
  <2> QED
    BY <2>1, NoTurnTyped, NoProcessTyped DEF RunInv, RunOK, TurnOver
<1>2. PhaseFits'
  BY NoTurnTyped, NoProcessTyped DEF RunInv, PhaseFits, TurnOver, InTurn, Open, AllRead, Finals
<1> QED
  BY <1>1, <1>2, Typed

LEMMA OpensRun ==
  ASSUME RunInv, Opens
  PROVE RunInv'
<1>1. StoredOK'
  BY TypesOf, OpensSteps DEF StoredOK
<1>2. CASE TurnOver
  BY <1>1, <1>2, TurnOverRun, OpensSteps
<1>3. CASE ~TurnOver
  <2>1. /\ turn.pc = "opening" /\ log' = log /\ bounds' = bounds /\ exec' = exec
        /\ turn' \in TurnRecord /\ turn'.pc = "pull" /\ turn'.end = turn.end
        /\ turn'.stop = turn.stop /\ turn'.queue = turn.queue /\ turn'.buffer = turn.buffer
        /\ turn'.s = turn.s
        /\ cli' \in ProcessRecord /\ cli'.on /\ cli'.pipe = <<[t |-> "session"]>>
    BY <1>3, OpensSteps DEF SameTurn
  <2>2. RunOK'
    BY <2>1 DEF RunInv, RunOK
  <2>3. PhaseFits'
    BY <2>1 DEF RunInv, PhaseFits, InTurn, Open, AllRead, Finals
  <2> QED
    BY <1>1, <2>2, <2>3, Typed
<1> QED
  BY <1>2, <1>3

\* The process writes or works.
LEMMA OutputRun ==
  ASSUME RunInv, NEW X, Output(X)
  PROVE RunInv'
<1>1. StoredOK'
  BY TypesOf DEF StoredOK, Output
<1>2. RunOK'
  BY DEF RunInv, RunOK, Output
<1>3. /\ cli.on /\ Open /\ turn.stop = "none" /\ turn.end = "none"
      /\ cli.pipe \in Seq(Event) /\ X \in Seq(Event) /\ cli'.pipe = cli.pipe \o X
      /\ turn' = turn /\ log' = log /\ bounds' = bounds /\ exec' = exec
  BY DEF RunInv, RunOK, PhaseFits, ProcessRecord, Output
<1>4. /\ cli'.pipe \in Seq(Event) /\ Len(cli'.pipe) = Len(cli.pipe) + Len(X)
      /\ \A i \in 1 .. Len(cli.pipe) + Len(X) :
           cli'.pipe[i] = IF i <= Len(cli.pipe) THEN cli.pipe[i] ELSE X[i - Len(cli.pipe)]
  BY <1>3, ConcatProperties
<1>5. \A i \in 1 .. Len(X) :
        /\ X[i].t \in Finals => ~cli'.on /\ i = Len(X)
        /\ X[i].t = "usage" => ~cli'.on
  <2>1. CASE OneEvent(X)
    BY <2>1 DEF OneEvent, Speaks, SubagentSettles, ToolAnswers, Settles, Finals
  <2>2. CASE LastEvents(X)
    <3>1. PICK U \in Seq(Counts), ev \in Event : X = U \o <<ev>> /\ Finishes(U, ev)
      BY <2>2 DEF LastEvents
    <3>2. \A i \in 1 .. Len(U) : U[i].t = "usage"
      <4>1. \A i \in 1 .. Len(U) : U[i] \in Counts
        BY <3>1
      <4> QED
        BY <4>1 DEF Counts
    <3>3. Len(X) = Len(U) + 1 /\ \A i \in 1 .. Len(U) : X[i] = U[i]
      BY <3>1
    <3>4. Len(U) \in Nat /\ Len(X) \in Nat
      BY <3>1, <1>3
    <3> QED
      BY <3>1, <3>2, <3>3, <3>4 DEF Finishes, Finals
  <2> QED
    BY <2>1, <2>2 DEF Output
<1>6. \A i \in DOMAIN cli'.pipe :
        /\ cli'.pipe[i].t \in Finals => ~cli'.on /\ i = Len(cli'.pipe)
        /\ cli'.pipe[i].t = "usage" => ~cli'.on
  <2> SUFFICES ASSUME NEW i \in 1 .. Len(cli.pipe) + Len(X)
      PROVE /\ cli'.pipe[i].t \in Finals => ~cli'.on /\ i = Len(cli'.pipe)
            /\ cli'.pipe[i].t = "usage" => ~cli'.on
    BY <1>4
  <2>1. Len(cli.pipe) \in Nat /\ Len(X) \in Nat
    BY <1>3
  <2>2. CASE i <= Len(cli.pipe)
    BY <1>3, <1>4, <2>1, <2>2 DEF RunInv, PhaseFits
  <2>3. CASE i > Len(cli.pipe)
    <3>1. i - Len(cli.pipe) \in 1 .. Len(X) /\ cli'.pipe[i] = X[i - Len(cli.pipe)]
      BY <1>4, <2>1, <2>3
    <3> QED
      BY <1>4, <1>5, <2>1, <3>1
  <2> QED
    BY <2>1, <2>2, <2>3
<1>7. PhaseFits'
  BY <1>3, <1>6 DEF RunInv, PhaseFits, InTurn, Open, AllRead
<1> QED
  BY <1>1, <1>2, <1>7, Typed

LEMMA TurnSession ==
  ASSUME RunInv, InTurn
  PROVE turn.s \in Sessions /\ turn.s \in 1 .. bounds.turns /\ turn.e \in Attempts
BY Constants DEF RunInv, PhaseFits, RunOK, Bounds, Sessions, TurnRecord

LEMMA WorkingCounts ==
  ASSUME RunInv, NEW m \in Models, Working(m)
  PROVE /\ InTurn /\ turn.s \in Sessions /\ counted' \in [Sessions -> [Models -> Nat]]
        /\ counted'[turn.s] \in [Models -> Nat] /\ counted[turn.s] \in [Models -> Nat]
        /\ counted'[turn.s][m] = counted[turn.s][m] + 1
        /\ \A n \in Models \ {m} : counted'[turn.s][n] = counted[turn.s][n]
        /\ \A s \in Sessions \ {turn.s} : counted'[s] = counted[s]
<1>1. InTurn /\ turn.s \in Sessions /\ counted \in [Sessions -> [Models -> Nat]]
  BY TurnSession DEF RunInv, TypeOK, PhaseFits, Working, Open, InTurn
<1>2. counted' = [counted EXCEPT ![turn.s] = [counted[turn.s] EXCEPT ![m] = @ + 1]]
  BY <1>1 DEF Working
<1>3. PICK f \in [Models -> Nat] : f = [counted[turn.s] EXCEPT ![m] = @ + 1]
  <2>1. counted[turn.s] \in [Models -> Nat]
    BY <1>1
  <2>2. PICK g \in [Models -> Nat] : g = counted[turn.s]
    BY <2>1
  <2>3. g[m] + 1 \in Nat
    OBVIOUS
  <2>4. [g EXCEPT ![m] = @ + 1] \in [Models -> Nat]
    BY <2>3
  <2> QED
    BY <2>2, <2>4
<1>4. counted' = [counted EXCEPT ![turn.s] = f]
  BY <1>2, <1>3
<1> QED
  BY <1>1, <1>3, <1>4

LEMMA WorkingRun ==
  ASSUME RunInv, NEW m \in Models, Working(m)
  PROVE RunInv'
<1>1. StoredOK'
  BY TypesOf, WorkingCounts DEF StoredOK, Working
<1>2. RunOK'
  BY DEF RunInv, RunOK, Working
<1>3. PhaseFits'
  BY DEF RunInv, PhaseFits, Working, InTurn, Open, AllRead
<1> QED
  BY <1>1, <1>2, <1>3, Typed

SamePhase(t, u) == u.pc = t.pc /\ u.stop = t.stop /\ u.end = t.end
SameText(t, u)  == u.queue = t.queue /\ u.buffer = t.buffer

\* The tools of the agent, and people
RowCloses ==
  \E e \in Attempts, st \in Ended :
    /\ exec[e].st \in Live \cup {"WAITING"} /\ RowChange(e, st, exec[e].session, exec[e].whose)
    /\ turn' = turn /\ usage' = usage

IssueRaised ==
  /\ turn' \in TurnRecord /\ SamePhase(turn, turn') /\ SameText(turn, turn') /\ SameTurn(turn, turn')
  /\ SameBill(turn, turn') /\ turn'.tracked = turn.tracked /\ turn'.lost = turn.lost
  /\ InTurn /\ exec' = exec /\ usage' = usage

Reviewing ==
  /\ usage' \in [Attempts -> [main : [Models -> Nat], review : 0 .. 1, cost : Nat]]
  /\ \A e \in Attempts : usage'[e].main = usage[e].main /\ usage'[e].cost = usage[e].cost
  /\ turn' = turn /\ exec' = exec

RetryMade ==
  /\ role = "implementation" /\ exec[1].st = "FAILED" /\ exec[2].st = "NONE" /\ ~InTurn
  /\ RowChange(2, "ASSIGNED", exec[2].session, exec[2].whose) /\ turn' = turn /\ usage' = usage

LEMMA OthersSteps ==
  ASSUME RunInv, Others
  PROVE /\ UNCHANGED <<role, runtime, counted, cli, log, bounds>>
        /\ RowCloses \/ IssueRaised \/ Reviewing \/ RetryMade
<1>1. StoredOK /\ RunOK /\ PhaseFits
  BY TypesOf
<1>2. CASE RaisesIssue
  <2>1. turn' = [turn EXCEPT !.blocking = TRUE] /\ turn \in TurnRecord /\ cli.on /\ InTurn
    BY <1>1, <1>2 DEF RaisesIssue, RunOK, PhaseFits, Open, InTurn
  <2>2. turn' \in TurnRecord
    BY <2>1 DEF TurnRecord
  <2>3. /\ SamePhase(turn, turn') /\ SameText(turn, turn') /\ SameTurn(turn, turn')
        /\ SameBill(turn, turn') /\ turn'.tracked = turn.tracked /\ turn'.lost = turn.lost
    BY <2>1 DEF TurnRecord, SamePhase, SameText, SameTurn, SameBill
  <2> QED
    BY <1>2, <2>1, <2>2, <2>3 DEF IssueRaised, RaisesIssue, kinds
<1>3. CASE \E st \in {"COMPLETED", "FAILED"} : Reports(st)
  <2>1. PICK st \in {"COMPLETED", "FAILED"} : Reports(st)
    BY <1>3
  <2>2. turn.e \in Attempts /\ exec[turn.e].st \in Live /\ exec' = [exec EXCEPT ![turn.e].st = st]
    BY <1>1, <2>1 DEF Reports, RunOK, TurnRecord, Live
  <2>3. RowChange(turn.e, st, exec[turn.e].session, exec[turn.e].whose)
    BY <1>1, <2>2, StateWritten DEF Ended
  <2> QED
    BY <2>1, <2>2, <2>3 DEF Reports, RowCloses, Ended, kinds
<1>4. CASE Reviews
  <2>1. usage' = [usage EXCEPT ![turn.e].review = 1] /\ turn.e \in Attempts
    BY <1>1, <1>4 DEF Reviews, WithReview, RunOK, TurnRecord
  <2>2. usage \in [Attempts -> [main : [Models -> Nat], review : 0 .. 1, cost : Nat]]
    BY <1>1 DEF StoredOK
  <2>3. Reviewing
    BY <1>4, <2>1, <2>2 DEF Reviewing, Reviews
  <2> QED
    BY <1>4, <2>3 DEF Reviews, kinds
<1>5. CASE Cancelled
  <2>1. RowChange(Current, "CANCELLED", exec[Current].session, exec[Current].whose)
    BY <1>1, <1>5, CurrentIs, StateWritten DEF Cancelled, Ended
  <2> QED
    BY <1>5, <2>1, CurrentIs DEF Cancelled, RowCloses, Ended, kinds
<1>6. CASE ReviewRequested
  <2>1. RowChange(Current, "COMPLETED", exec[Current].session, exec[Current].whose)
    BY <1>1, <1>6, CurrentIs, StateWritten DEF ReviewRequested, Ended
  <2> QED
    BY <1>6, <2>1, CurrentIs DEF ReviewRequested, RowCloses, Ended, Live, kinds
<1>7. CASE Retried
  <2>1. 2 \in Attempts /\ exec' = [exec EXCEPT ![2].st = "ASSIGNED"]
    BY <1>7 DEF Retried, Attempts
  <2>2. RowChange(2, "ASSIGNED", exec[2].session, exec[2].whose)
    BY <1>1, <2>1, StateWritten DEF Live
  <2> QED
    BY <1>7, <2>2 DEF Retried, RetryMade, kinds
<1> QED
  BY <1>2, <1>3, <1>4, <1>5, <1>6, <1>7 DEF Others

LEMMA OthersRun ==
  ASSUME RunInv, Others
  PROVE RunInv'
<1>1. StoredOK /\ RunOK /\ PhaseFits
  BY TypesOf
<1>2. /\ UNCHANGED <<role, runtime, counted, cli, log, bounds>>
      /\ RowCloses \/ IssueRaised \/ Reviewing \/ RetryMade
  BY OthersSteps
<1>3. \A a \in Attempts : exec'[a].session = exec[a].session
  BY <1>2 DEF RowCloses, IssueRaised, Reviewing, RetryMade, RowChange, Attempts
<1>4. StoredOK'
  BY <1>1, <1>2 DEF StoredOK, RowCloses, IssueRaised, Reviewing, RetryMade, RowChange, Row
<1>5. /\ turn' \in TurnRecord /\ SamePhase(turn, turn') /\ SameText(turn, turn')
      /\ turn'.s = turn.s /\ turn'.tracked = turn.tracked /\ turn'.lost = turn.lost
      /\ turn.pc = "none" => turn' = turn
  BY <1>1, <1>2 DEF RunOK, RowCloses, IssueRaised, Reviewing, RetryMade, SamePhase, SameText,
                    SameTurn, InTurn
<1>6. RunOK'
  BY <1>1, <1>2, <1>5 DEF RunOK
<1>7. PhaseFits'
  BY <1>1, <1>2, <1>3, <1>5 DEF PhaseFits, SamePhase, SameText, InTurn, Open, AllRead
<1> QED
  BY <1>4, <1>6, <1>7, Typed

\* The run is stopped from outside.
LEMMA StopsSteps ==
  ASSUME RunInv, Hung \/ BlockingTimeout \/ Abort
  PROVE /\ UNCHANGED <<role, runtime, exec, usage, counted, log, bounds>>
        /\ Open /\ turn.stop = "none"
        /\ turn' \in TurnRecord /\ turn'.pc = turn.pc /\ turn'.end = turn.end
        /\ turn'.stop \in Reasons
        /\ SameText(turn, turn') /\ SameTurn(turn, turn') /\ SameBill(turn, turn')
        /\ SameFlags(turn, turn') /\ cli' = Killed(cli)
        /\ role = "implementation" /\ turn'.stop \in {"gone", "cancelled"} =>
             exec[turn.e].st \notin Live
<1>1. PICK reason \in Reasons :
        /\ Stops(reason)
        /\ role = "implementation" /\ reason \in {"gone", "cancelled"} =>
             exec[turn.e].st \notin Live
  BY DEF Hung, BlockingTimeout, Abort, SpecGone, CancelAborts, Reasons, Live
<1>2. turn \in TurnRecord /\ turn' = Stop(turn, reason) /\ turn.stop = "none"
  BY <1>1 DEF Stops, RunInv, RunOK
<1>3. /\ turn' \in TurnRecord /\ turn'.pc = turn.pc /\ turn'.end = turn.end
      /\ turn'.stop = reason /\ SameText(turn, turn') /\ SameTurn(turn, turn')
      /\ SameBill(turn, turn') /\ SameFlags(turn, turn')
  BY <1>2, StopFields DEF SameText
<1> QED
  BY <1>1, <1>2, <1>3 DEF Stops, kinds

LEMMA StopsRun ==
  ASSUME RunInv, Hung \/ BlockingTimeout \/ Abort
  PROVE RunInv'
<1>1. StoredOK /\ RunOK /\ PhaseFits
  BY TypesOf
<1>2. /\ UNCHANGED <<role, runtime, exec, usage, counted, log, bounds>>
      /\ Open /\ turn.stop = "none"
      /\ turn' \in TurnRecord /\ turn'.pc = turn.pc /\ turn'.end = turn.end
      /\ SameText(turn, turn') /\ SameTurn(turn, turn') /\ cli' = Killed(cli)
  BY StopsSteps
<1>3. cli' \in ProcessRecord /\ ~cli'.on /\ cli'.pipe = cli.pipe
  BY <1>1, <1>2, KilledFields DEF RunOK
<1>4. StoredOK'
  BY <1>1, <1>2 DEF StoredOK
<1>5. RunOK'
  BY <1>1, <1>2, <1>3 DEF RunOK
<1>6. PhaseFits'
  BY <1>1, <1>2, <1>3 DEF PhaseFits, SameText, SameTurn, InTurn, Open, AllRead
<1> QED
  BY <1>4, <1>5, <1>6, Typed

LEMMA TailAt ==
  ASSUME NEW S, NEW s \in Seq(S), s # <<>>
  PROVE /\ Len(s) \in Nat \ {0} /\ DOMAIN s = 1 .. Len(s) /\ 1 \in DOMAIN s /\ s[1] = Head(s)
        /\ Head(s) \in S /\ Tail(s) \in Seq(S) /\ Len(Tail(s)) = Len(s) - 1
        /\ DOMAIN Tail(s) = 1 .. Len(s) - 1
        /\ \A i \in DOMAIN Tail(s) : i + 1 \in DOMAIN s /\ Tail(s)[i] = s[i + 1]
        /\ \A i \in DOMAIN s \ {1} : i - 1 \in DOMAIN Tail(s) /\ Tail(s)[i - 1] = s[i]
<1>1. Len(s) \in Nat /\ DOMAIN s = 1 .. Len(s) /\ Len(s) # 0
  OBVIOUS
<1>2. PICK n \in Nat \ {0} : n = Len(s)
  BY <1>1
<1>3. /\ Tail(s) \in Seq(S) /\ Len(Tail(s)) = n - 1 /\ Head(s) \in S
      /\ \A i \in 1 .. n - 1 : Tail(s)[i] = s[i + 1]
  BY <1>2, HeadTailProperties
<1>4. DOMAIN Tail(s) = 1 .. n - 1 /\ s[1] = Head(s)
  BY <1>3
<1>5. \A i \in 1 .. n - 1 : i + 1 \in 1 .. n
  OBVIOUS
<1>6. \A i \in (1 .. n) \ {1} : i - 1 \in 1 .. n - 1 /\ (i - 1) + 1 = i
  OBVIOUS
<1> QED
  BY <1>1, <1>2, <1>3, <1>4, <1>5, <1>6

\* The flush timer
LEMMA FlushSteps ==
  ASSUME RunInv, Flushes
  PROVE /\ UNCHANGED <<role, runtime, exec, usage, counted, cli, log, bounds>>
        /\ turn.pc = "pull" /\ turn.buffer # <<>> /\ turn.end = "none"
        /\ turn' \in TurnRecord /\ SamePhase(turn, turn')
        /\ turn'.queue = turn.queue \o Flushed(turn) /\ turn'.buffer = <<>>
        /\ SameTurn(turn, turn') /\ SameBill(turn, turn') /\ SameFlags(turn, turn')
<1>1. turn \in TurnRecord /\ turn.queue \in Seq(Write) /\ turn.pc = "pull" /\ turn.end = "none"
  BY DEF RunInv, RunOK, PhaseFits, TurnRecord, Flushes
<1>2. PICK q \in Seq(Write) : q = turn.queue \o Flushed(turn)
  BY <1>1, FlushedWrites, ConcatProperties
<1>3. turn' = [turn EXCEPT !.queue = q, !.buffer = <<>>]
  BY <1>2 DEF Flushes
<1>4. <<>> \in Seq(Item)
  OBVIOUS
<1>5. turn' \in TurnRecord
  BY <1>1, <1>2, <1>3, <1>4 DEF TurnRecord
<1>6. /\ SamePhase(turn, turn') /\ turn'.queue = q /\ turn'.buffer = <<>>
      /\ SameTurn(turn, turn') /\ SameBill(turn, turn') /\ SameFlags(turn, turn')
  BY <1>1, <1>3 DEF TurnRecord, SamePhase, SameTurn, SameBill, SameFlags
<1> QED
  BY <1>1, <1>2, <1>5, <1>6 DEF Flushes, kinds

LEMMA FlushRun ==
  ASSUME RunInv, Flushes
  PROVE RunInv'
<1>1. StoredOK /\ RunOK /\ PhaseFits
  BY TypesOf
<1>2. /\ UNCHANGED <<role, runtime, exec, usage, counted, cli, log, bounds>>
      /\ turn.pc = "pull" /\ turn' \in TurnRecord /\ SamePhase(turn, turn')
      /\ SameTurn(turn, turn')
  BY FlushSteps
<1>3. StoredOK'
  BY <1>1, <1>2 DEF StoredOK
<1>4. RunOK'
  BY <1>1, <1>2 DEF RunOK
<1>5. PhaseFits'
  BY <1>1, <1>2 DEF PhaseFits, SamePhase, SameTurn, InTurn, Open, AllRead
<1> QED
  BY <1>3, <1>4, <1>5, Typed

LEMMA PullRun ==
  ASSUME RunInv, Pull
  PROVE RunInv'
<1>1. StoredOK /\ RunOK /\ PhaseFits
  BY TypesOf
<1>2. PICK ev \in Event : ev = Head(cli.pipe)
  BY PullFields
<1>3. /\ turn.pc = "pull" /\ turn.stop = "none" /\ turn.end = "none" /\ cli.pipe # <<>>
      /\ cli' \in ProcessRecord /\ cli'.pipe = Tail(cli.pipe)
      /\ cli'.on = cli.on
      /\ turn' \in TurnRecord /\ turn'.s = turn.s /\ turn'.stop = "none"
      /\ PulledWrites(ev)
  BY <1>2, PullFields DEF SameTurn
<1>4. UNCHANGED <<role, runtime, exec, usage, counted, log, bounds>>
  BY DEF Pull, kinds
<1>5. StoredOK'
  BY <1>1, <1>4 DEF StoredOK
<1>6. RunOK'
  BY <1>1, <1>3, <1>4 DEF RunOK
<1>7. /\ cli.pipe \in Seq(Event) /\ Len(cli.pipe) \in Nat /\ Len(cli'.pipe) = Len(cli.pipe) - 1
      /\ cli'.pipe \in Seq(Event) /\ DOMAIN cli'.pipe = 1 .. Len(cli'.pipe)
      /\ \A i \in DOMAIN cli'.pipe : i + 1 \in DOMAIN cli.pipe /\ cli'.pipe[i] = cli.pipe[i + 1]
      /\ cli.pipe[1] = ev /\ 1 \in DOMAIN cli.pipe
  <2>1. cli.pipe \in Seq(Event)
    BY <1>1 DEF RunOK, ProcessRecord
  <2> QED
    BY <1>2, <1>3, <2>1, TailAt
<1>8. ev.t \in Finals => ~cli.on /\ cli'.pipe = <<>>
  <2>1. ev.t \in Finals => ~cli.on /\ 1 = Len(cli.pipe)
    BY <1>1, <1>7 DEF PhaseFits
  <2> QED
    BY <1>7, <2>1
<1>9. \A i \in DOMAIN cli'.pipe :
        /\ cli'.pipe[i].t \in Finals => ~cli'.on /\ i = Len(cli'.pipe)
        /\ cli'.pipe[i].t = "usage" => ~cli'.on
  <2> SUFFICES ASSUME NEW i \in 1 .. Len(cli'.pipe)
      PROVE /\ cli'.pipe[i].t \in Finals => ~cli'.on /\ i = Len(cli'.pipe)
            /\ cli'.pipe[i].t = "usage" => ~cli'.on
    BY <1>7
  <2>1. i + 1 \in DOMAIN cli.pipe /\ cli'.pipe[i] = cli.pipe[i + 1] /\ i \in Nat
    BY <1>7
  <2> QED
    BY <1>1, <1>3, <1>7, <2>1 DEF PhaseFits
<1>10. /\ turn'.pc \in {"pull", "await", "closing"}
       /\ turn'.pc = "pull" => turn'.end = "none"
       /\ turn'.pc = "closing" => turn'.end # "none"
       /\ turn'.end # "none" => ev.t \in Finals
       /\ turn'.pc = "await" => turn'.queue # <<>>
  BY <1>2, EventFields, <1>3 DEF PulledWrites, Finals, Settles
<1>11. PhaseFits'
  BY <1>1, <1>3, <1>4, <1>8, <1>9, <1>10 DEF PhaseFits, InTurn, Open, AllRead
<1> QED
  BY <1>5, <1>6, <1>11, Typed

LEMMA StoppedSteps ==
  ASSUME RunInv, Stopped
  PROVE /\ UNCHANGED <<role, runtime, exec, usage, counted, cli, log, bounds>>
        /\ turn.pc = "pull" /\ turn.stop # "none"
        /\ turn' \in TurnRecord /\ turn'.pc = "closing" /\ turn'.end = "stopped"
        /\ turn'.stop = turn.stop
        /\ SameText(turn, turn') /\ SameTurn(turn, turn') /\ SameBill(turn, turn')
        /\ SameFlags(turn, turn')
BY DEF RunInv, RunOK, TurnRecord, Stopped, SameText, SameTurn, SameBill, SameFlags, kinds

LEMMA StoppedRun ==
  ASSUME RunInv, Stopped
  PROVE RunInv'
<1>1. StoredOK /\ RunOK /\ PhaseFits
  BY TypesOf
<1>2. /\ UNCHANGED <<role, runtime, exec, usage, counted, cli, log, bounds>>
      /\ turn.pc = "pull" /\ turn.stop # "none"
      /\ turn' \in TurnRecord /\ turn'.pc = "closing" /\ turn'.end = "stopped"
      /\ turn'.stop = turn.stop
      /\ SameText(turn, turn') /\ turn'.s = turn.s
  BY StoppedSteps DEF SameTurn
<1>3. StoredOK' /\ RunOK'
  BY <1>1, <1>2 DEF StoredOK, RunOK
<1>4. PhaseFits'
  BY <1>1, <1>2 DEF PhaseFits, SameText, InTurn, Open, AllRead
<1> QED
  BY <1>3, <1>4, Typed

\* What the end of a turn still writes
Closing(more) ==
  LET gone == turn.end = "stopped" /\ turn.stop = "gone"
      message == IF turn.spoke \/ turn.end = "done"
                 THEN <<[t |-> "call", n |-> Message]>> ELSE <<>>
  IN more = IF gone THEN <<>> ELSE Flushed(turn) \o message

LEMMA ClosesSteps ==
  ASSUME RunInv, Closes
  PROVE \E more \in Seq(Write) :
        /\ UNCHANGED <<role, runtime, exec, usage, counted, cli, log, bounds>>
        /\ turn.pc = "closing" /\ Closing(more)
        /\ turn' \in TurnRecord /\ turn'.queue = turn.queue \o more /\ turn'.buffer = <<>>
        /\ turn'.pc = IF turn'.queue = <<>> THEN "after" ELSE "drain"
        /\ turn'.stop = turn.stop /\ turn'.end = turn.end
        /\ SameTurn(turn, turn') /\ SameBill(turn, turn') /\ SameFlags(turn, turn')
<1>1. turn \in TurnRecord /\ turn.queue \in Seq(Write) /\ turn.pc = "closing"
  BY DEF RunInv, RunOK, TurnRecord, Closes
<1>2. PICK message \in Seq(Write) : message = IF turn.spoke \/ turn.end = "done"
                                              THEN <<[t |-> "call", n |-> Message]>> ELSE <<>>
  <2>1. PICK w \in Write : w = [t |-> "call", n |-> Message]
    <3>1. MaxSaid \in Nat /\ Message = MaxSaid + 1
      BY Constants
    <3>2. Message \in 1 .. Message
      BY <3>1
    <3> QED
      BY <3>2 DEF Write
  <2>2. <<w>> \in Seq(Write) /\ <<>> \in Seq(Write)
    OBVIOUS
  <2> QED
    BY <2>1, <2>2
<1>3. Flushed(turn) \o message \in Seq(Write)
  BY <1>1, <1>2, FlushedWrites, ConcatProperties
<1>4. PICK more \in Seq(Write) :
        more = IF turn.end = "stopped" /\ turn.stop = "gone" THEN <<>> ELSE Flushed(turn) \o message
  <2>1. <<>> \in Seq(Write)
    OBVIOUS
  <2> QED
    BY <1>3, <2>1
<1>5. PICK q \in Seq(Write), pc \in {"after", "drain"} :
        q = turn.queue \o more /\ pc = IF q = <<>> THEN "after" ELSE "drain"
  BY <1>1, <1>4, ConcatProperties
<1>6. turn' = [turn EXCEPT !.queue = q, !.buffer = <<>>, !.pc = pc]
  BY <1>2, <1>4, <1>5 DEF Closes
<1>7. <<>> \in Seq(Item)
  OBVIOUS
<1>8. turn' \in TurnRecord
  BY <1>1, <1>5, <1>6, <1>7 DEF TurnRecord
<1>9. /\ turn'.queue = q /\ turn'.buffer = <<>> /\ turn'.pc = pc
      /\ turn'.stop = turn.stop /\ turn'.end = turn.end
      /\ SameTurn(turn, turn') /\ SameBill(turn, turn') /\ SameFlags(turn, turn')
  BY <1>1, <1>6 DEF TurnRecord, SameTurn, SameBill, SameFlags
<1>10. Closing(more)
  BY <1>2, <1>4 DEF Closing
<1> QED
  BY <1>1, <1>5, <1>8, <1>9, <1>10 DEF Closes, kinds

LEMMA ClosesRun ==
  ASSUME RunInv, Closes
  PROVE RunInv'
<1>1. StoredOK /\ RunOK /\ PhaseFits
  BY TypesOf
<1>2. /\ UNCHANGED <<role, runtime, exec, usage, counted, cli, log, bounds>>
      /\ turn.pc = "closing" /\ turn' \in TurnRecord /\ turn'.buffer = <<>>
      /\ turn'.pc = IF turn'.queue = <<>> THEN "after" ELSE "drain"
      /\ turn'.stop = turn.stop /\ turn'.end = turn.end /\ turn'.s = turn.s
  BY ClosesSteps DEF SameTurn
<1>3. StoredOK' /\ RunOK'
  BY <1>1, <1>2 DEF StoredOK, RunOK
<1>4. PhaseFits'
  BY <1>1, <1>2 DEF PhaseFits, InTurn, Open, AllRead
<1> QED
  BY <1>3, <1>4, Typed

-----------------------------------------------------------------------------
(* The writes                                                              *)

\* The head of the queue is done with.
Dequeued ==
  /\ turn.queue # <<>> /\ Head(turn.queue) \in Write
  /\ turn' \in TurnRecord /\ turn'.queue = Tail(turn.queue) /\ turn'.buffer = turn.buffer
  /\ turn'.end = turn.end
  /\ turn'.pc = IF Tail(turn.queue) # <<>> \/ turn.pc = "pull" THEN turn.pc
                ELSE IF turn.pc = "drain" THEN "after"
                ELSE IF turn.end = "none" THEN "pull" ELSE "closing"
  /\ SameTurn(turn, turn') /\ SameBill(turn, turn') /\ turn'.tracked = turn.tracked
  /\ UNCHANGED <<role, runtime, counted>>

\* The run goes on, or it is stopped for a reason.
GoesOn == turn'.stop = turn.stop /\ cli' = cli
Halts(reason) ==
  turn'.stop = (IF turn.stop = "none" THEN reason ELSE turn.stop) /\ cli' = Killed(cli)

LEMMA QueueTyped ==
  ASSUME RunInv
  PROVE turn \in TurnRecord /\ turn.queue \in Seq(Write) /\ turn.buffer \in Seq(Item)
        /\ (turn.queue # <<>> => Head(turn.queue) \in Write)
BY DEF RunInv, RunOK, TurnRecord

LEMMA DequeueSteps ==
  ASSUME RunInv, turn.queue # <<>>, UNCHANGED <<role, runtime, counted>>
  PROVE /\ turn' = Written(turn) => Dequeued /\ turn'.stop = turn.stop /\ turn'.lost = turn.lost
        /\ \A reason \in Reasons :
             turn' = Stop(Written(turn), reason) =>
               /\ Dequeued /\ turn'.lost = turn.lost
               /\ turn'.stop = IF turn.stop = "none" THEN reason ELSE turn.stop
        /\ turn' = [Written(turn) EXCEPT !.lost = TRUE] =>
             Dequeued /\ turn'.lost /\ turn'.stop = turn.stop
<1>1. turn \in TurnRecord /\ Head(turn.queue) \in Write
  BY QueueTyped
<1>2. PICK t \in TurnRecord :
        /\ t = Written(turn)
        /\ t.queue = Tail(turn.queue) /\ t.buffer = turn.buffer
        /\ t.end = turn.end /\ t.stop = turn.stop
        /\ t.pc = IF Tail(turn.queue) # <<>> \/ turn.pc = "pull" THEN turn.pc
                  ELSE IF turn.pc = "drain" THEN "after"
                  ELSE IF turn.end = "none" THEN "pull" ELSE "closing"
        /\ SameTurn(turn, t) /\ SameBill(turn, t) /\ SameFlags(turn, t)
  BY <1>1, WrittenFields
<1>3. turn' = t => Dequeued /\ turn'.stop = turn.stop /\ turn'.lost = turn.lost
  BY <1>1, <1>2 DEF Dequeued, SameFlags
<1>4. ASSUME NEW reason \in Reasons, turn' = Stop(t, reason)
      PROVE /\ Dequeued /\ turn'.lost = turn.lost
            /\ turn'.stop = IF turn.stop = "none" THEN reason ELSE turn.stop
  <2>1. /\ turn' \in TurnRecord
        /\ turn'.queue = t.queue /\ turn'.buffer = t.buffer /\ turn'.end = t.end /\ turn'.pc = t.pc
        /\ turn'.stop = IF t.stop = "none" THEN reason ELSE t.stop
        /\ SameTurn(t, turn') /\ SameBill(t, turn') /\ SameFlags(t, turn')
    BY <1>4, StopFields
  <2>2. SameTurn(turn, turn') /\ SameBill(turn, turn') /\ SameFlags(turn, turn')
    BY <1>2, <2>1 DEF SameTurn, SameBill, SameFlags
  <2> QED
    BY <1>1, <1>2, <2>1, <2>2 DEF Dequeued, SameFlags
<1>5. ASSUME turn' = [t EXCEPT !.lost = TRUE]
      PROVE Dequeued /\ turn'.lost /\ turn'.stop = turn.stop
  <2>1. /\ turn' \in TurnRecord /\ turn'.lost
        /\ turn'.queue = t.queue /\ turn'.buffer = t.buffer /\ turn'.end = t.end /\ turn'.pc = t.pc
        /\ turn'.stop = t.stop /\ turn'.tracked = t.tracked
        /\ SameTurn(t, turn') /\ SameBill(t, turn')
    BY <1>5 DEF TurnRecord, SameTurn, SameBill
  <2>2. SameTurn(turn, turn') /\ SameBill(turn, turn') /\ turn'.tracked = turn.tracked
    BY <1>2, <2>1 DEF SameTurn, SameBill, SameFlags
  <2> QED
    BY <1>1, <1>2, <2>1, <2>2 DEF Dequeued
<1> QED
  BY <1>2, <1>3, <1>4, <1>5

\* The items of a write are stored, or the run is told that its execution is gone.
Stored(w) ==
  /\ w.t \in {"text", "call"} /\ UNCHANGED <<exec, usage, bounds>> /\ turn'.lost = turn.lost
  /\ \/ log' = log \o (IF w.t = "text" THEN w.ns ELSE <<w.n>>) /\ GoesOn
     \/ log' = log /\ role = "spec" /\ Halts("gone")

SessionStored(w) ==
  /\ w.t = "session" /\ UNCHANGED <<usage, log, bounds>> /\ turn'.lost = turn.lost
  /\ \/ /\ exec[turn.e].st \in Live /\ GoesOn
        /\ RowChange(turn.e, "RUNNING",
             IF exec[turn.e].st = "ASSIGNED" \/ turn.fresh THEN turn.s ELSE exec[turn.e].session,
             exec[turn.e].whose)
     \/ exec[turn.e].st \notin Live /\ exec' = exec /\ Halts("gone")

UsageStored(w) ==
  /\ w.t = "usage" /\ UNCHANGED <<exec, log, bounds>> /\ turn'.lost = turn.lost
  /\ usage' \in [Attempts -> [main : [Models -> Nat], review : 0 .. 1, cost : Nat]]
  /\ usage'[turn.e].main = [usage[turn.e].main EXCEPT ![w.m] = @ + w.n]
  /\ usage'[turn.e].cost = usage[turn.e].cost + (IF runtime = "codex" THEN w.n ELSE w.c)
  /\ \A e \in Attempts \ {turn.e} : usage'[e] = usage[e]
  /\ GoesOn \/ Halts("budget_exceeded")

WriteLost ==
  /\ turn'.lost /\ GoesOn /\ UNCHANGED <<exec, usage, log>>
  /\ bounds' \in Bounds /\ bounds'.turns = bounds.turns

LEMMA QueueInTurn ==
  ASSUME RunInv, turn.queue # <<>>
  PROVE /\ InTurn /\ turn.pc \in {"pull", "await", "closing", "drain"}
        /\ turn.s \in Sessions /\ turn.s \in 0 .. MaxTurns /\ turn.s \in 1 .. bounds.turns
        /\ turn.e \in Attempts
<1>1. InTurn
  BY NoTurnTyped DEF RunInv, PhaseFits
<1>2. turn.pc \in {"pull", "await", "closing", "drain"}
  BY <1>1 DEF RunInv, PhaseFits, RunOK, TurnRecord, InTurn
<1> QED
  BY <1>1, <1>2, TurnSession, Constants DEF Sessions

LEMMA UsageWritten ==
  ASSUME StoredOK, NEW e \in Attempts, NEW m \in Models, NEW n \in Nat, NEW cost \in Nat,
         usage' = WithUsage(e, m, n, cost)
  PROVE /\ usage' \in [Attempts -> [main : [Models -> Nat], review : 0 .. 1, cost : Nat]]
        /\ usage'[e].main = [usage[e].main EXCEPT ![m] = @ + n]
        /\ usage'[e].cost = usage[e].cost + cost
        /\ \A a \in Attempts \ {e} : usage'[a] = usage[a]
<1> DEFINE U == [main : [Models -> Nat], review : 0 .. 1, cost : Nat]
<1>1. PICK u \in U : u = usage[e]
  BY DEF StoredOK
<1>2. usage \in [Attempts -> U]
  BY DEF StoredOK
<1>3. PICK main \in [Models -> Nat] : main = [u.main EXCEPT ![m] = @ + n]
  <2>1. PICK f \in [Models -> Nat] : f = u.main
    BY <1>1
  <2>2. f[m] + n \in Nat
    OBVIOUS
  <2>3. [f EXCEPT ![m] = @ + n] \in [Models -> Nat]
    BY <2>2
  <2> QED
    BY <2>1, <2>3
<1>4. PICK c \in Nat : c = u.cost + cost
  BY <1>1
<1>5. PICK v \in U : v = [u EXCEPT !.main = main, !.cost = c]
  BY <1>1, <1>3, <1>4
<1>6. v.main = main /\ v.cost = c
  BY <1>1, <1>5
<1>7. usage' = [usage EXCEPT ![e] = v]
  <2>1. usage' = [usage EXCEPT ![e].main = main, ![e].cost = c]
    BY <1>1, <1>2, <1>3, <1>4 DEF WithUsage
  <2> QED
    BY <1>1, <1>2, <1>5, <2>1
<1> HIDE DEF U
<1>8. usage' \in [Attempts -> U] /\ usage'[e] = v /\ \A a \in Attempts \ {e} : usage'[a] = usage[a]
  BY <1>2, <1>5, <1>7
<1> QED
  BY <1>1, <1>3, <1>4, <1>6, <1>8 DEF U

LEMMA WritesSteps ==
  ASSUME RunInv, Writes
  PROVE Dequeued /\ LET w == Head(turn.queue) IN Stored(w) \/ SessionStored(w) \/ UsageStored(w)
<1>1. /\ turn.queue # <<>> /\ turn.e \in Attempts /\ turn.s \in 0 .. MaxTurns
      /\ StoredOK /\ RunOK
  BY QueueInTurn, TypesOf DEF Writes
<1>2. PICK w \in Write : w = Head(turn.queue) /\ (AppendsEvent(w) \/ StoresSession(w) \/ RecordsUsage(w))
  BY <1>1, QueueTyped DEF Writes
<1>3. {"gone", "budget_exceeded"} \subseteq Reasons
  BY DEF Reasons
<1>4. CASE AppendsEvent(w)
  <2>1. UNCHANGED <<role, runtime, exec, usage, counted, bounds>> /\ w.t \in {"text", "call"}
    BY <1>4 DEF AppendsEvent, kinds
  <2>2. CASE role = "spec" /\ exec[turn.e].st \notin Live
    BY <1>1, <1>2, <1>3, <1>4, <2>1, <2>2, DequeueSteps DEF AppendsEvent, Stored, Halts
  <2>3. CASE ~(role = "spec" /\ exec[turn.e].st \notin Live)
    BY <1>1, <1>2, <1>4, <2>1, <2>3, DequeueSteps DEF AppendsEvent, Stored, GoesOn
  <2> QED
    BY <2>2, <2>3
<1>5. CASE StoresSession(w)
  <2>1. UNCHANGED <<role, runtime, usage, counted, log, bounds>> /\ w.t = "session"
    BY <1>5 DEF StoresSession, kinds
  <2>2. CASE exec[turn.e].st \notin Live
    BY <1>1, <1>2, <1>3, <1>5, <2>1, <2>2, DequeueSteps DEF StoresSession, SessionStored, Halts
  <2>3. CASE exec[turn.e].st \in Live
    <3>1. PICK session \in 0 .. MaxTurns :
            session = IF exec[turn.e].st = "ASSIGNED" \/ turn.fresh THEN turn.s
                      ELSE exec[turn.e].session
      BY <1>1, RowOf DEF Row
    <3>2. PICK r \in Row : r = [exec[turn.e] EXCEPT !.st = "RUNNING", !.session = session]
      BY <1>1, RowOf DEF Row, Live
    <3>3. r.st = "RUNNING" /\ r.session = session /\ r.whose = exec[turn.e].whose
      BY <1>1, <3>2, RowOf DEF Row
    <3>4. exec' = [exec EXCEPT ![turn.e].st = "RUNNING", ![turn.e].session = session]
      BY <1>1, <1>5, <2>3, <3>1 DEF StoresSession, StoredOK
    <3>5. exec' = [exec EXCEPT ![turn.e] = r]
      BY <1>1, <3>2, <3>4 DEF StoredOK
    <3>6. RowChange(turn.e, "RUNNING", session, exec[turn.e].whose)
      BY <1>1, <3>3, <3>5, RowWritten
    <3> QED
      BY <1>1, <1>2, <1>5, <2>1, <2>3, <3>1, <3>6, DequeueSteps
         DEF StoresSession, SessionStored, GoesOn
  <2> QED
    BY <2>2, <2>3
<1>6. CASE RecordsUsage(w)
  <2>1. UNCHANGED <<role, runtime, exec, counted, log, bounds>> /\ w.t = "usage"
    BY <1>6 DEF RecordsUsage, kinds
  <2>2. w.m \in Models /\ w.n \in Nat /\ w.c \in Nat
    BY <1>2, <2>1, WriteFields DEF Counts
  <2>3. PICK priced \in Nat : priced = IF runtime = "codex" THEN w.n ELSE w.c
    BY <2>2
  <2>4. usage' = WithUsage(turn.e, w.m, w.n, priced)
    BY <1>6, <2>3 DEF RecordsUsage
  <2>5. \/ turn' = Stop(Written(turn), "budget_exceeded") /\ cli' = Killed(cli)
        \/ turn' = Written(turn) /\ cli' = cli
    BY <1>6 DEF RecordsUsage
  <2>6. /\ usage' \in [Attempts -> [main : [Models -> Nat], review : 0 .. 1, cost : Nat]]
        /\ usage'[turn.e].main = [usage[turn.e].main EXCEPT ![w.m] = @ + w.n]
        /\ usage'[turn.e].cost = usage[turn.e].cost + priced
        /\ \A a \in Attempts \ {turn.e} : usage'[a] = usage[a]
    BY <1>1, <2>2, <2>4, UsageWritten
  <2>7. Dequeued /\ turn'.lost = turn.lost /\ (GoesOn \/ Halts("budget_exceeded"))
    BY <1>1, <1>3, <2>1, <2>5, DequeueSteps DEF GoesOn, Halts
  <2> QED
    BY <1>2, <2>1, <2>3, <2>6, <2>7 DEF UsageStored
<1> QED
  BY <1>2, <1>4, <1>5, <1>6

LEMMA FailsSteps ==
  ASSUME RunInv, WriteFails
  PROVE Dequeued /\ WriteLost
<1>1. Dequeued /\ turn'.lost /\ turn'.stop = turn.stop
  BY DequeueSteps DEF WriteFails, kinds
<1>2. /\ bounds \in Bounds /\ bounds.faults < MaxFaults /\ MaxFaults \in Nat
      /\ bounds' = [bounds EXCEPT !.faults = @ + 1]
  BY Constants DEF WriteFails, RunInv, RunOK
<1>3. PICK faults \in 0 .. MaxFaults : faults = bounds.faults + 1
  BY <1>2 DEF Bounds
<1>4. bounds' = [bounds EXCEPT !.faults = faults]
  BY <1>2, <1>3
<1>5. bounds' \in Bounds /\ bounds'.turns = bounds.turns
  BY <1>2, <1>4 DEF Bounds
<1> QED
  BY <1>1, <1>5 DEF WriteFails, WriteLost, GoesOn

LEMMA DequeuedRun ==
  ASSUME RunInv, Dequeued, GoesOn \/ \E reason \in Reasons : Halts(reason),
         log' \in Seq(1 .. Message), bounds' \in Bounds, bounds'.turns = bounds.turns, StoredOK',
         \A e \in Attempts : exec'[e].session <= bounds.turns
  PROVE RunInv'
<1>1. StoredOK /\ RunOK /\ PhaseFits
  BY TypesOf
<1>2. turn.pc \in {"pull", "await", "closing", "drain"} /\ turn.queue \in Seq(Write) /\ turn.queue # <<>>
  BY QueueInTurn, QueueTyped DEF Dequeued
<1>3. /\ cli' \in ProcessRecord /\ cli'.pipe = cli.pipe
      /\ cli'.on => cli.on /\ turn'.stop = turn.stop
  BY <1>1, KilledFields DEF GoesOn, Halts, RunOK
<1>4. RunOK'
  BY <1>1, <1>3 DEF RunOK, Dequeued
<1>5. /\ turn'.pc \in {"pull", "await", "closing", "drain", "after"} /\ turn'.end = turn.end
      /\ turn'.pc \in {"pull", "await"} <=> turn.pc = "pull" \/ (turn.pc = "await" /\ (turn'.queue # <<>> \/ turn.end = "none"))
      /\ turn'.pc = "pull" => turn'.end = "none"
      /\ turn'.pc \in {"closing", "drain", "after"} => turn'.end # "none"
      /\ turn'.pc \in {"await", "drain"} => turn'.queue # <<>>
      /\ turn'.pc = "after" => turn'.queue = <<>>
      /\ turn'.pc \in {"drain", "after"} => turn'.buffer = <<>>
      /\ turn'.s = turn.s
  BY <1>1, <1>2 DEF Dequeued, PhaseFits, SameTurn
<1>6. cli'.on => Open'
  <2>1. cli'.on => cli.on /\ turn.stop = "none" /\ turn.end = "none" /\ Open
    BY <1>1, <1>3 DEF PhaseFits
  <2> QED
    BY <1>5, <2>1 DEF Open
<1>7. cli'.on => turn'.stop = "none" /\ turn'.end = "none"
  BY <1>1, <1>3, <1>5 DEF PhaseFits
<1>8. \A i \in DOMAIN cli'.pipe :
        /\ cli'.pipe[i].t \in Finals => ~cli'.on /\ i = Len(cli'.pipe)
        /\ cli'.pipe[i].t = "usage" => ~cli'.on
  BY <1>1, <1>3 DEF PhaseFits
<1>9. PhaseFits'
  BY <1>1, <1>2, <1>3, <1>5, <1>6, <1>7, <1>8 DEF PhaseFits, InTurn, AllRead, Open
<1> QED
  BY <1>4, <1>9, Typed

\* The items of a write
LEMMA ItemsTyped ==
  ASSUME NEW w \in Write, w.t \in {"text", "call"}
  PROVE (IF w.t = "text" THEN w.ns ELSE <<w.n>>) \in Seq(1 .. Message)
<1>1. CASE w.t = "text"
  <2>1. w.ns \in Seq(Item) /\ Item \subseteq 1 .. Message
    BY <1>1, WriteFields, Constants
  <2> QED
    BY <1>1, <2>1, SeqMonotonic
<1>2. CASE w.t = "call"
  BY <1>2, WriteFields
<1> QED
  BY <1>1, <1>2

LEMMA WritesRun ==
  ASSUME RunInv, Writes
  PROVE RunInv'
<1>1. StoredOK /\ RunOK /\ PhaseFits
  BY TypesOf
<1>2. Dequeued
  BY WritesSteps
<1>3. PICK w \in Write : w = Head(turn.queue) /\ (Stored(w) \/ SessionStored(w) \/ UsageStored(w))
  BY <1>2, WritesSteps DEF Dequeued
<1>4. /\ turn.queue # <<>> /\ turn.s \in 1 .. bounds.turns /\ turn.e \in Attempts
      /\ bounds.turns \in Nat
  BY <1>1, <1>2, QueueInTurn DEF Dequeued, RunOK, Bounds
<1>5. GoesOn \/ \E reason \in Reasons : Halts(reason)
  BY <1>3 DEF Stored, SessionStored, UsageStored, Reasons
<1>6. log' \in Seq(1 .. Message)
  <2>1. log \in Seq(1 .. Message)
    BY <1>1 DEF RunOK
  <2>2. CASE w.t \in {"text", "call"}
    <3>1. PICK more \in Seq(1 .. Message) : more = IF w.t = "text" THEN w.ns ELSE <<w.n>>
      BY <2>2, ItemsTyped
    <3>2. log \o more \in Seq(1 .. Message)
      BY <2>1, <3>1, ConcatProperties
    <3> QED
      BY <1>3, <2>1, <2>2, <3>1, <3>2 DEF Stored, SessionStored, UsageStored
  <2>3. CASE w.t \in {"session", "usage"}
    BY <1>3, <2>1, <2>3 DEF Stored, SessionStored, UsageStored
  <2> QED
    BY <2>2, <2>3, WriteFields
<1>7. bounds' = bounds
  BY <1>3 DEF Stored, SessionStored, UsageStored
<1>8. StoredOK'
  BY <1>1, <1>2, <1>3 DEF StoredOK, Dequeued, Stored, SessionStored, UsageStored, RowChange, Row
<1>9. \A e \in Attempts : exec'[e].session <= bounds.turns
  BY <1>1, <1>3, <1>4 DEF PhaseFits, Stored, SessionStored, UsageStored, RowChange
<1> QED
  BY <1>1, <1>2, <1>5, <1>6, <1>7, <1>8, <1>9, DequeuedRun DEF RunOK

LEMMA FailsRun ==
  ASSUME RunInv, WriteFails
  PROVE RunInv'
<1>1. StoredOK /\ RunOK /\ PhaseFits
  BY TypesOf
<1>2. Dequeued /\ WriteLost
  BY FailsSteps
<1>3. StoredOK'
  BY <1>1, <1>2 DEF StoredOK, Dequeued, WriteLost
<1> QED
  BY <1>1, <1>2, <1>3, DequeuedRun DEF RunOK, PhaseFits, WriteLost

\* The turn is over, and its execution is left in a state.
LEMMA TurnEndsSteps ==
  ASSUME RunInv, TurnEnds
  PROVE /\ turn.pc = "after" /\ TurnOver /\ turn.e \in Attempts
        /\ UNCHANGED <<role, runtime, usage, counted, bounds>>
        /\ RowChange(turn.e, AfterTurn(exec[turn.e].st), exec[turn.e].session, exec[turn.e].whose)
        /\ role = "implementation" /\ AfterTurn(exec[turn.e].st) = "RUNNING" =>
             turn.end = "stopped" /\ turn.stop \in {"gone", "cancelled"} /\ exec[turn.e].st = "RUNNING"
        /\ AfterTurn(exec[turn.e].st) \in {exec[turn.e].st, "FAILED", "WAITING"}
        /\ AfterTurn(exec[turn.e].st) # exec[turn.e].st => exec[turn.e].st \in Live
<1>1. turn.e \in Attempts /\ StoredOK /\ RunOK /\ turn.pc = "after"
  BY TypesOf DEF RunOK, TurnRecord, TurnEnds
<1>2. PICK st \in {"NONE", "WAITING"} \cup Live \cup Ended : st = exec[turn.e].st
  BY <1>1, RowOf DEF Row
<1>3. /\ AfterTurn(st) \in {st, "FAILED", "WAITING"}
      /\ AfterTurn(st) # st => st \in Live
      /\ role = "implementation" /\ AfterTurn(st) = "RUNNING" =>
           turn.end = "stopped" /\ turn.stop \in {"gone", "cancelled"} /\ st = "RUNNING"
  <2>1. CASE turn.end = "stopped" /\ turn.stop \in {"hung", "budget_exceeded"}
    BY <2>1 DEF AfterTurn, EndFailed, Live
  <2>2. CASE turn.end = "stopped" /\ turn.stop \in {"gone", "cancelled"}
    BY <2>2 DEF AfterTurn
  <2>3. CASE turn.end = "error"
    BY <2>3 DEF AfterTurn, EndFailed, Live
  <2>4. CASE /\ ~(turn.end = "stopped" /\ turn.stop \in {"hung", "budget_exceeded", "gone", "cancelled"})
             /\ turn.end # "error"
    BY <2>4 DEF AfterTurn, Outcome, EndFailed, Live
  <2> QED
    BY <2>1, <2>2, <2>3, <2>4
<1>4. PICK after \in {"NONE", "WAITING"} \cup Live \cup Ended : after = AfterTurn(st)
  BY <1>3 DEF Ended
<1>5. exec' = [exec EXCEPT ![turn.e].st = after]
  BY <1>1, <1>2, <1>4 DEF TurnEnds, StoredOK
<1>6. RowChange(turn.e, after, exec[turn.e].session, exec[turn.e].whose)
  BY <1>1, <1>5, StateWritten
<1> QED
  BY <1>1, <1>2, <1>3, <1>4, <1>6 DEF TurnEnds, TurnOver, kinds

LEMMA TurnEndsRun ==
  ASSUME RunInv, TurnEnds
  PROVE RunInv'
<1>1. StoredOK'
  BY TypesOf, TurnEndsSteps DEF StoredOK, RowChange, Row
<1>2. \A e \in Attempts : exec'[e].session = exec[e].session
  BY TurnEndsSteps DEF RowChange
<1> QED
  BY <1>1, <1>2, TurnEndsSteps, TurnOverRun

LEMMA TurnsRun ==
  ASSUME RunInv, Turns
  PROVE RunInv'
<1>1. \A e \in Attempts : exec[e].session \in 0 .. bounds.turns
  BY Constants DEF RunInv, TypeOK, PhaseFits, RunOK, Bounds
<1>2. ASSUME NEW e \in Attempts, Starts(e) PROVE RunInv'
  BY <1>1, <1>2, StartsSteps, NewTurnRun
<1>3. CASE TakesOver
  <2>1. 1 \in Attempts /\ 2 \in Attempts
    BY DEF Attempts
  <2> QED
    BY <1>1, <1>3, <2>1, TakesOverSteps, NewTurnRun
<1>4. CASE Resumes(Current)
  BY <1>1, <1>4, CurrentIs, ResumesSteps, NewTurnRun
<1>5. CASE StartsAfresh(Current)
  BY <1>1, <1>5, CurrentIs, StartsAfreshSteps, NewTurnRun
<1> QED
  BY <1>2, <1>3, <1>4, <1>5 DEF Turns

LEMMA InitRun == Init => RunInv
<1> SUFFICES ASSUME Init PROVE RunInv
  OBVIOUS
<1>1. PICK h \in Habits : bounds = [turns |-> 0, faults |-> 0, habits |-> h]
  BY DEF Init
<1>2. bounds \in Bounds /\ bounds.turns = 0
  BY <1>1, Constants DEF Bounds
<1>3. exec \in [Attempts -> Row]
  BY Constants DEF Init, Row, Live
<1>4. usage \in [Attempts -> [main : [Models -> Nat], review : 0 .. 1, cost : Nat]]
  BY Constants DEF Init
<1>5. counted \in [Sessions -> [Models -> Nat]]
  BY Constants DEF Init
<1>6. StoredOK
  BY <1>3, <1>4, <1>5 DEF StoredOK, Init, Row
<1>7. RunOK
  <2>1. <<>> \in Seq(1 .. Message)
    OBVIOUS
  <2> QED
    BY <1>2, <2>1, NoTurnTyped, NoProcessTyped DEF Init, RunOK
<1>8. \A e \in Attempts : exec[e].session <= bounds.turns
  BY <1>2 DEF Init
<1>9. PhaseFits
  BY <1>8, NoTurnTyped, NoProcessTyped DEF Init, PhaseFits, InTurn, Open, AllRead
<1> QED
  BY <1>2, <1>6, <1>7, <1>9, Constants DEF RunInv, TypeOK, StoredOK, PhaseFits, RunOK, TurnRecord, Bounds

\* The types and the phases hold in every state.
LEMMA RunStep ==
  ASSUME RunInv, [Next]_vars
  PROVE RunInv'
<1>1. CASE Turns
  BY <1>1, TurnsRun
<1>2. CASE Process
  BY <1>2, ProcessSteps, OutputRun, WorkingRun
<1>3. CASE Others
  BY <1>3, OthersRun
<1>4. CASE Loop
  BY <1>4, OpensRun, PullRun, StoppedRun, ClosesRun, WritesRun, TurnEndsRun DEF Loop
<1>5. CASE Hung \/ BlockingTimeout \/ Abort
  BY <1>5, StopsRun
<1>6. CASE Flushes
  BY <1>6, FlushRun
<1>7. CASE WriteFails
  BY <1>7, FailsRun
<1>8. CASE UNCHANGED vars
  BY <1>8 DEF vars, kinds, RunInv, TypeOK, RunOK, PhaseFits, InTurn, Open, AllRead
<1> QED
  BY <1>1, <1>2, <1>3, <1>4, <1>5, <1>6, <1>7, <1>8 DEF Next

\* TurnsAreTyped: a turn goes through its phases in order: its process runs only while the
\* loop reads it, what it counted and how it ended come after all the rest of its output,
\* and the turn is over only when everything that could be written is.
THEOREM TurnsAreTyped == Spec => []RunInv
<1>1. Init => RunInv
  BY InitRun
<1>2. RunInv /\ [Next]_vars => RunInv'
  BY RunStep
<1> QED
  BY <1>1, <1>2, PTL DEF Spec

-----------------------------------------------------------------------------
(* Who runs                                                                *)

LEMMA OnlyTurnRunsStep ==
  ASSUME RunInv, OnlyTurnRuns, [Next]_vars
  PROVE OnlyTurnRuns'
<1> SUFFICES ASSUME role' = "implementation" PROVE OnlyTurnRuns'
  BY DEF OnlyTurnRuns
<1>1. /\ 1 \in Attempts /\ 2 \in Attempts /\ Current \in Attempts
      /\ InTurn => turn.e \in Attempts
      /\ ~InTurn => turn = NoTurn /\ turn.stop = "none"
  BY CurrentIs, TurnSession, NoTurnTyped DEF Attempts, RunInv, PhaseFits
<1> DEFINE Same == /\ turn'.e = turn.e /\ (turn'.pc = "none" <=> turn.pc = "none")
                   /\ turn'.stop = turn.stop
<1>2. ASSUME exec' = exec, role' = role, Same PROVE OnlyTurnRuns'
  BY <1>2 DEF OnlyTurnRuns, InTurn
<1>3. ASSUME NEW e \in Attempts, NEW st, NEW session, NEW whose, NEW s, NEW fresh, NEW base,
             NEW paid, NewTurn(e, s, fresh, base, paid), RowChange(e, st, session, whose)
      PROVE OnlyTurnRuns'
  BY <1>3 DEF OnlyTurnRuns, NewTurn, RowChange, Begun, InTurn
<1>4. CASE Turns
  <2>1. ASSUME NEW e \in Attempts, Starts(e) PROVE OnlyTurnRuns'
    BY <1>3, <2>1, StartsSteps
  <2>2. CASE TakesOver
    BY <1>1, <1>3, <2>2, TakesOverSteps
  <2>3. CASE Resumes(Current)
    BY <1>1, <1>3, <2>3, ResumesSteps
  <2>4. CASE StartsAfresh(Current)
    BY <1>1, <1>3, <2>4, StartsAfreshSteps
  <2> QED
    BY <1>4, <2>1, <2>2, <2>3, <2>4 DEF Turns
<1>5. CASE Process
  <2>1. turn' = turn /\ exec' = exec /\ role' = role
    BY <1>5, ProcessSteps DEF Output, Working
  <2> QED
    BY <1>2, <2>1
<1>6. CASE Others
  <2>1. role' = role /\ (RowCloses \/ IssueRaised \/ Reviewing \/ RetryMade)
    BY <1>6, OthersSteps
  <2>2. CASE RowCloses
    <3>1. PICK e \in Attempts, st \in Ended :
            /\ RowChange(e, st, exec[e].session, exec[e].whose) /\ turn' = turn
      BY <2>2 DEF RowCloses
    <3>2. \A a \in Attempts : exec'[a].st = exec[a].st \/ exec'[a].st \in Ended
      BY <3>1 DEF RowChange
    <3>3. turn.e \in Attempts
      BY DEF RunInv, RunOK, TurnRecord
    <3> QED
      BY <2>1, <3>1, <3>2, <3>3 DEF OnlyTurnRuns, Ended, Live, InTurn
  <2>3. CASE IssueRaised
    BY <1>2, <2>1, <2>3 DEF IssueRaised, SamePhase, SameTurn
  <2>4. CASE Reviewing
    BY <1>2, <2>1, <2>4 DEF Reviewing
  <2>5. CASE RetryMade
    BY <1>1, <2>1, <2>5 DEF OnlyTurnRuns, RetryMade, RowChange, InTurn
  <2> QED
    BY <2>1, <2>2, <2>3, <2>4, <2>5
<1>7. CASE Opens
  <2>1. exec' = exec /\ role' = role /\ turn.pc = "opening"
    BY <1>7, OpensSteps
  <2>2. CASE TurnOver /\ exec[turn.e].st \notin Live
    BY <2>1, <2>2, NoTurnTyped DEF OnlyTurnRuns, TurnOver, Live, InTurn
  <2>3. CASE ~(TurnOver /\ exec[turn.e].st \notin Live)
    <3>1. Same
      BY <1>7, <2>1, <2>3, OpensSteps DEF SameTurn
    <3> QED
      BY <1>2, <2>1, <3>1
  <2> QED
    BY <2>2, <2>3
<1>8. CASE Pull
  <2>1. exec' = exec /\ role' = role
    BY <1>8 DEF Pull, kinds
  <2>2. PICK ev \in Event : PulledWrites(ev)
    BY <1>8, PullFields
  <2>3. turn'.pc # "none" /\ Same
    BY <1>8, <2>2, PullFields DEF PulledWrites, SameTurn
  <2> QED
    BY <1>2, <2>1, <2>3
<1>9. CASE Stopped
  BY <1>2, <1>9, StoppedSteps DEF SameTurn
<1>10. CASE Closes
  BY <1>2, <1>10, ClosesSteps DEF SameTurn
<1>11. CASE Flushes
  BY <1>2, <1>11, FlushSteps DEF SameTurn, SamePhase
<1>12. CASE Hung \/ BlockingTimeout \/ Abort
  <2>1. /\ exec' = exec /\ role' = role /\ turn'.e = turn.e /\ turn'.pc = turn.pc
        /\ role = "implementation" /\ turn'.stop \in {"gone", "cancelled"} =>
             exec[turn.e].st \notin Live
    BY <1>12, StopsSteps DEF SameTurn
  <2> QED
    BY <2>1 DEF OnlyTurnRuns, InTurn
<1>13. CASE WriteFails
  <2>1. Dequeued /\ WriteLost
    BY <1>13, FailsSteps
  <2>2. Same /\ role' = role /\ exec' = exec
    BY <2>1, QueueInTurn DEF Dequeued, WriteLost, GoesOn, SameTurn
  <2> QED
    BY <1>2, <2>2
<1>14. CASE Writes
  <2>1. Dequeued
    BY <1>14, WritesSteps
  <2>2. /\ turn'.e = turn.e /\ turn'.pc # "none" /\ turn.pc # "none" /\ role' = role /\ InTurn
        /\ turn.e \in Attempts
    BY <2>1, QueueInTurn DEF Dequeued, SameTurn
  <2>3. PICK w : Stored(w) \/ SessionStored(w) \/ UsageStored(w)
    BY <1>14, WritesSteps
  <2>4. CASE Stored(w)
    BY <1>2, <2>2, <2>4 DEF Stored, GoesOn
  <2>5. CASE UsageStored(w)
    BY <2>2, <2>5 DEF UsageStored, GoesOn, Halts, OnlyTurnRuns, InTurn
  <2>6. CASE SessionStored(w)
    <3>1. CASE exec[turn.e].st \in Live
      BY <2>2, <2>6, <3>1 DEF SessionStored, GoesOn, RowChange, OnlyTurnRuns, InTurn
    <3>2. CASE exec[turn.e].st \notin Live
      BY <2>2, <2>6, <3>2 DEF SessionStored, OnlyTurnRuns, InTurn
    <3> QED
      BY <3>1, <3>2
  <2> QED
    BY <2>3, <2>4, <2>5, <2>6
<1>15. CASE TurnEnds
  <2>1. /\ role' = role /\ TurnOver /\ turn.e \in Attempts
        /\ RowChange(turn.e, AfterTurn(exec[turn.e].st), exec[turn.e].session, exec[turn.e].whose)
        /\ AfterTurn(exec[turn.e].st) = "RUNNING" =>
             turn.stop \in {"gone", "cancelled"} /\ exec[turn.e].st = "RUNNING"
    BY <1>15, TurnEndsSteps
  <2> QED
    BY <2>1, NoTurnTyped DEF OnlyTurnRuns, TurnOver, RowChange, Live, InTurn
<1>16. CASE UNCHANGED vars
  BY <1>2, <1>16 DEF vars, kinds
<1> QED
  BY <1>4, <1>5, <1>6, <1>7, <1>8, <1>9, <1>10, <1>11, <1>12, <1>13, <1>14, <1>15, <1>16
     DEF Next, Loop

-----------------------------------------------------------------------------
(* The subagent                                                            *)

AboutIn(pipe) == {i \in DOMAIN pipe : pipe[i].t \in Settles \cup {"spawn"}}
Tracks(pipe, tracked, bg) ==
  /\ AboutIn(pipe) = {} => (tracked <=> bg)
  /\ \A i \in AboutIn(pipe) : (\A j \in AboutIn(pipe) : j <= i) => (pipe[i].bg <=> bg)

LEMMA ConcatAt ==
  ASSUME NEW S, NEW s \in Seq(S), NEW u \in Seq(S)
  PROVE /\ Len(s) \in Nat /\ Len(u) \in Nat /\ DOMAIN s = 1 .. Len(s) /\ DOMAIN u = 1 .. Len(u)
        /\ s \o u \in Seq(S) /\ DOMAIN (s \o u) = 1 .. Len(s) + Len(u)
        /\ \A i \in DOMAIN s : i \in DOMAIN (s \o u) /\ (s \o u)[i] = s[i]
        /\ \A i \in DOMAIN u : Len(s) + i \in DOMAIN (s \o u) /\ (s \o u)[Len(s) + i] = u[i]
        /\ \A i \in DOMAIN (s \o u) :
             i \in DOMAIN s \/ (i - Len(s) \in DOMAIN u /\ i = Len(s) + (i - Len(s)))
<1>1. PICK m \in Nat, n \in Nat : m = Len(s) /\ n = Len(u)
  OBVIOUS
<1>2. /\ s \o u \in Seq(S) /\ Len(s \o u) = m + n
      /\ \A i \in 1 .. m + n : (s \o u)[i] = IF i <= m THEN s[i] ELSE u[i - m]
  BY <1>1, ConcatProperties
<1>3. DOMAIN s = 1 .. m /\ DOMAIN u = 1 .. n /\ DOMAIN (s \o u) = 1 .. m + n
  BY <1>1, <1>2
<1>4. \A i \in 1 .. m : i \in 1 .. m + n /\ (s \o u)[i] = s[i]
  BY <1>2
<1>5. \A i \in 1 .. n : m + i \in 1 .. m + n /\ (s \o u)[m + i] = u[i]
  <2> SUFFICES ASSUME NEW i \in 1 .. n PROVE m + i \in 1 .. m + n /\ (s \o u)[m + i] = u[i]
    OBVIOUS
  <2>1. m + i \in 1 .. m + n /\ ~(m + i <= m) /\ (m + i) - m = i
    OBVIOUS
  <2> QED
    BY <1>2, <2>1
<1>6. \A i \in 1 .. m + n : i \in 1 .. m \/ (i - m \in 1 .. n /\ i = m + (i - m))
  OBVIOUS
<1> QED
  BY <1>1, <1>2, <1>3, <1>4, <1>5, <1>6

LEMMA TracksNews ==
  ASSUME NEW pipe \in Seq(Event), NEW ev \in Event, ev.t \in Settles \cup {"spawn"},
         NEW tracked \in BOOLEAN, NEW bg \in BOOLEAN, ev.bg <=> bg
  PROVE Tracks(pipe \o <<ev>>, tracked, bg)
<1>1. <<ev>> \in Seq(Event) /\ DOMAIN <<ev>> = {1} /\ <<ev>>[1] = ev
  OBVIOUS
<1>2. PICK n \in Nat : n = Len(pipe)
  OBVIOUS
<1>3. /\ DOMAIN (pipe \o <<ev>>) = 1 .. n + 1 /\ (pipe \o <<ev>>)[n + 1] = ev
  BY <1>1, <1>2, ConcatAt
<1>4. n + 1 \in AboutIn(pipe \o <<ev>>) /\ \A i \in AboutIn(pipe \o <<ev>>) : i \in 1 .. n + 1
  BY <1>3 DEF AboutIn
<1>5. \A i \in AboutIn(pipe \o <<ev>>) : n + 1 <= i => i = n + 1
  BY <1>4
<1> QED
  BY <1>3, <1>4, <1>5 DEF Tracks

LEMMA TracksOn ==
  ASSUME NEW pipe \in Seq(Event), NEW X \in Seq(Event), AboutIn(X) = {},
         NEW tracked \in BOOLEAN, NEW bg \in BOOLEAN, Tracks(pipe, tracked, bg)
  PROVE Tracks(pipe \o X, tracked, bg)
<1>1. AboutIn(pipe \o X) = AboutIn(pipe)
  BY ConcatAt DEF AboutIn
<1>2. \A i \in AboutIn(pipe) : (pipe \o X)[i] = pipe[i]
  BY ConcatAt DEF AboutIn
<1> QED
  BY <1>1, <1>2 DEF Tracks

LEMMA TracksTail ==
  ASSUME NEW pipe \in Seq(Event), pipe # <<>>, NEW tracked \in BOOLEAN, NEW bg \in BOOLEAN,
         Tracks(pipe, tracked, bg)
  PROVE Tracks(Tail(pipe), IF Head(pipe).t \in Settles \cup {"spawn"} THEN Head(pipe).bg ELSE tracked, bg)
<1>1. PICK n \in Nat \ {0} : n = Len(pipe)
  BY TailAt
<1>2. /\ DOMAIN pipe = 1 .. n /\ DOMAIN Tail(pipe) = 1 .. n - 1 /\ pipe[1] = Head(pipe)
      /\ \A i \in 1 .. n - 1 : i + 1 \in 1 .. n /\ Tail(pipe)[i] = pipe[i + 1]
      /\ \A i \in (1 .. n) \ {1} : i - 1 \in 1 .. n - 1 /\ Tail(pipe)[i - 1] = pipe[i]
  BY <1>1, TailAt
<1>3. \A i \in AboutIn(Tail(pipe)) : i \in 1 .. n - 1 /\ i + 1 \in AboutIn(pipe)
  BY <1>2 DEF AboutIn
<1>4. \A i \in AboutIn(pipe) : i \in 1 .. n /\ (i # 1 => i - 1 \in AboutIn(Tail(pipe)))
  BY <1>2 DEF AboutIn
<1>5. CASE AboutIn(Tail(pipe)) = {}
  <2>1. CASE Head(pipe).t \in Settles \cup {"spawn"}
    <3>1. 1 \in AboutIn(pipe)
      BY <1>2, <2>1 DEF AboutIn
    <3>2. \A j \in AboutIn(pipe) : j = 1
      BY <1>4, <1>5
    <3>3. pipe[1].bg <=> bg
      BY <3>1, <3>2 DEF Tracks
    <3> QED
      BY <1>2, <1>5, <2>1, <3>3 DEF Tracks
  <2>2. CASE ~(Head(pipe).t \in Settles \cup {"spawn"})
    <3>1. AboutIn(pipe) = {}
      <4>1. 1 \notin AboutIn(pipe)
        BY <1>2, <2>2 DEF AboutIn
      <4> QED
        BY <1>4, <1>5, <4>1
    <3> QED
      BY <1>5, <2>2, <3>1 DEF Tracks
  <2> QED
    BY <2>1, <2>2
<1>6. CASE AboutIn(Tail(pipe)) # {}
  <2>1. ASSUME NEW i \in AboutIn(Tail(pipe)), \A j \in AboutIn(Tail(pipe)) : j <= i
        PROVE Tail(pipe)[i].bg <=> bg
    <3>1. i \in 1 .. n - 1 /\ i + 1 \in AboutIn(pipe) /\ Tail(pipe)[i] = pipe[i + 1]
      BY <1>2, <1>3
    <3>2. ASSUME NEW j \in AboutIn(pipe) PROVE j <= i + 1
      <4>1. CASE j = 1
        BY <3>1, <4>1
      <4>2. CASE j # 1
        <5>1. j - 1 \in AboutIn(Tail(pipe)) /\ j \in 1 .. n
          BY <1>4, <4>2
        <5>2. j - 1 <= i
          BY <2>1, <5>1
        <5> QED
          BY <3>1, <5>1, <5>2
      <4> QED
        BY <4>1, <4>2
    <3> QED
      BY <3>1, <3>2 DEF Tracks
  <2> QED
    BY <1>6, <2>1 DEF Tracks
<1> QED
  BY <1>5, <1>6

LEMMA TracksIs == TracksFit <=> Tracks(cli.pipe, turn.tracked, Background)
BY DEF TracksFit, Tracks, AboutSubagent, AboutIn

LEMMA TracksIsNext == TracksFit' <=> Tracks(cli'.pipe, turn'.tracked, Background')
BY DEF TracksFit, Tracks, AboutSubagent, AboutIn, Background

LEMMA TracksFitStep ==
  ASSUME RunInv, TracksFit, [Next]_vars
  PROVE TracksFit'
<1>1. /\ cli \in ProcessRecord /\ turn.tracked \in BOOLEAN /\ cli.pipe \in Seq(Event)
      /\ Tracks(cli.pipe, turn.tracked, Background) /\ Background \in BOOLEAN
  BY TracksIs DEF RunInv, RunOK, ProcessRecord, TurnRecord, Background
<1>2. ASSUME cli'.pipe = cli.pipe, cli'.sub = cli.sub, turn'.tracked = turn.tracked
      PROVE TracksFit'
  BY <1>1, <1>2, TracksIsNext DEF Background
<1>3. ASSUME cli'.pipe = <<>>, cli'.sub = "none", ~turn'.tracked PROVE TracksFit'
  BY <1>3 DEF TracksFit, AboutSubagent, Background
<1>4. CASE Turns
  <2>1. cli' = NoProcess /\ ~turn'.tracked
    BY <1>4, StartsSteps, TakesOverSteps, ResumesSteps, StartsAfreshSteps, CurrentIs
       DEF Turns, NewTurn, Begun
  <2> QED
    BY <1>3, <2>1, NoProcessTyped
<1>5. CASE Process
  <2>1. CASE \E m \in Models : Working(m)
    BY <1>2, <2>1 DEF Working
  <2>2. ASSUME NEW X, Output(X) PROVE TracksFit'
    <3>1. /\ X \in Seq(Event) /\ cli'.pipe = cli.pipe \o X /\ turn'.tracked = turn.tracked
          /\ cli' \in ProcessRecord /\ Background' \in BOOLEAN
      BY <2>2 DEF Output, Background
    <3>2. CASE LastEvents(X)
      <4>1. PICK U \in Seq(Counts), ev \in Event : X = U \o <<ev>> /\ Finishes(U, ev)
        BY <3>2 DEF LastEvents
      <4>2. /\ Len(U) \in Nat /\ DOMAIN X = 1 .. Len(U) + 1 /\ X[Len(U) + 1] = ev
            /\ \A i \in 1 .. Len(U) : X[i] \in Counts
        BY <4>1
      <4>3. \A i \in DOMAIN X : X[i].t \in Finals \cup {"usage"}
        <5>1. \A i \in 1 .. Len(U) + 1 : i \in 1 .. Len(U) \/ i = Len(U) + 1
          BY <4>2
        <5>2. \A i \in 1 .. Len(U) : X[i].t = "usage"
          BY <4>2 DEF Counts
        <5>3. ev.t \in Finals
          BY <4>1 DEF Finishes
        <5> QED
          BY <4>2, <5>1, <5>2, <5>3
      <4>4. AboutIn(X) = {}
        BY <4>3 DEF AboutIn, Settles, Finals
      <4>5. Background' <=> Background
        BY <4>1 DEF Finishes, Background
      <4> QED
        BY <1>1, <3>1, <4>4, <4>5, TracksOn, TracksIsNext
    <3>3. CASE OneEvent(X)
      <4>1. PICK ev \in Event : X = <<ev>> /\ (Speaks(ev) \/ SubagentSettles(ev) \/ ToolAnswers(ev))
        BY <3>3 DEF OneEvent
      <4>2. CASE ev.t \in Settles \cup {"spawn"}
        <5>1. ev.bg <=> Background'
          BY <4>1, <4>2 DEF Speaks, SubagentSettles, ToolAnswers, Settles
        <5> QED
          BY <1>1, <3>1, <4>1, <4>2, <5>1, TracksNews, TracksIsNext
      <4>3. CASE ~(ev.t \in Settles \cup {"spawn"})
        <5>1. Background' <=> Background
          BY <4>1, <4>3 DEF Speaks, SubagentSettles, ToolAnswers, Background
        <5>2. AboutIn(X) = {}
          BY <4>1, <4>3 DEF AboutIn
        <5> QED
          BY <1>1, <3>1, <5>1, <5>2, TracksOn, TracksIsNext
      <4> QED
        BY <4>2, <4>3
    <3> QED
      BY <2>2, <3>2, <3>3 DEF Output
  <2> QED
    BY <1>5, <2>1, <2>2, ProcessSteps
<1>6. CASE Others
  <2>1. cli' = cli /\ turn'.tracked = turn.tracked
    BY <1>6, OthersSteps DEF RowCloses, IssueRaised, Reviewing, RetryMade
  <2> QED
    BY <1>2, <2>1
<1>7. CASE Opens
  <2>1. CASE TurnOver
    BY <1>3, <2>1, NoTurnTyped, NoProcessTyped DEF TurnOver
  <2>2. CASE ~TurnOver
    <3>1. /\ cli'.pipe = <<[t |-> "session"]>> /\ cli'.sub = "none" /\ turn'.tracked = turn.tracked
          /\ turn.pc = "opening"
      BY <1>7, <2>2, OpensSteps DEF SameFlags
    <3>2. ~turn.tracked
      BY <3>1 DEF RunInv, PhaseFits
    <3>3. AboutSubagent' = {}
      BY <3>1 DEF AboutSubagent, Settles
    <3> QED
      BY <3>1, <3>2, <3>3 DEF TracksFit, Background
  <2> QED
    BY <2>1, <2>2
<1>8. CASE Pull
  <2>1. /\ cli.pipe # <<>> /\ cli'.pipe = Tail(cli.pipe) /\ cli'.sub = cli.sub
        /\ turn'.tracked = IF Head(cli.pipe).t \in Settles \cup {"spawn"}
                           THEN Head(cli.pipe).bg ELSE turn.tracked
    BY <1>8, PullFields
  <2>2. Background' <=> Background
    BY <2>1 DEF Background
  <2>3. Tracks(cli'.pipe, turn'.tracked, Background)
    BY <1>1, <2>1, TracksTail
  <2> QED
    BY <2>2, <2>3, TracksIsNext DEF Tracks
<1>9. CASE Stopped
  BY <1>2, <1>9, StoppedSteps DEF SameFlags
<1>10. CASE Closes
  BY <1>2, <1>10, ClosesSteps DEF SameFlags
<1>11. CASE Flushes
  BY <1>2, <1>11, FlushSteps DEF SameFlags
<1>12. CASE Hung \/ BlockingTimeout \/ Abort
  <2>1. cli' = Killed(cli) /\ turn'.tracked = turn.tracked
    BY <1>12, StopsSteps DEF SameFlags
  <2> QED
    BY <1>1, <1>2, <2>1, KilledFields
<1>13. CASE Writes \/ WriteFails
  <2>1. Dequeued /\ (GoesOn \/ \E reason \in Reasons : Halts(reason))
    BY <1>13, WritesSteps, FailsSteps
       DEF Stored, SessionStored, UsageStored, WriteLost, Reasons
  <2>2. cli'.pipe = cli.pipe /\ cli'.sub = cli.sub /\ turn'.tracked = turn.tracked
    BY <1>1, <2>1, KilledFields DEF Dequeued, GoesOn, Halts
  <2> QED
    BY <1>2, <2>2
<1>14. CASE TurnEnds
  BY <1>3, <1>14, TurnEndsSteps, NoTurnTyped, NoProcessTyped DEF TurnOver
<1>15. CASE UNCHANGED vars
  BY <1>2, <1>15 DEF vars
<1> QED
  BY <1>4, <1>5, <1>6, <1>7, <1>8, <1>9, <1>10, <1>11, <1>12, <1>13, <1>14, <1>15
     DEF Next, Loop

-----------------------------------------------------------------------------
(* The order of what is written                                            *)

LEMMA WithinIs ==
  ASSUME NEW lg, NEW q, NEW b
  PROVE Within3(lg, q, b) = Range(lg) \cup InQueue(q) \cup Range(b)
BY DEF Within3

LEMMA RangeIn ==
  ASSUME NEW S, NEW s \in Seq(S)
  PROVE /\ Range(s) \subseteq S /\ \A i \in DOMAIN s : s[i] \in Range(s) /\ s[i] \in S
        /\ \A x \in Range(s) : \E i \in DOMAIN s : s[i] = x
BY DEF Range

LEMMA RangeEmpty == Range(<<>>) = {} /\ Ordered(<<>>) /\ InQueue(<<>>) = {}
BY DEF Range, Ordered, InQueue

LEMMA RangeConcat ==
  ASSUME NEW S, NEW s \in Seq(S), NEW u \in Seq(S)
  PROVE Range(s \o u) = Range(s) \cup Range(u)
<1>1. Range(s \o u) \subseteq Range(s) \cup Range(u)
  BY ConcatAt DEF Range
<1>2. Range(s) \subseteq Range(s \o u)
  BY ConcatAt DEF Range
<1>3. Range(u) \subseteq Range(s \o u)
  <2> SUFFICES ASSUME NEW i \in DOMAIN u PROVE u[i] \in Range(s \o u)
    BY DEF Range
  <2>1. Len(s) + i \in DOMAIN (s \o u) /\ (s \o u)[Len(s) + i] = u[i]
    BY ConcatAt
  <2> QED
    BY <2>1 DEF Range
<1> QED
  BY <1>1, <1>2, <1>3

LEMMA ItemsOfWrite ==
  ASSUME NEW w \in Write
  PROVE /\ ItemsOf(w) \subseteq 1 .. Message
        /\ w.t = "text" => ItemsOf(w) = Range(w.ns)
        /\ w.t = "call" => ItemsOf(w) = {w.n}
        /\ w.t \in {"usage", "session"} => ItemsOf(w) = {}
<1>1. CASE w.t = "text"
  <2>1. w.ns \in Seq(Item) /\ Item \subseteq 1 .. Message
    BY <1>1, WriteFields, Constants
  <2> QED
    BY <1>1, <2>1, RangeIn DEF ItemsOf
<1>2. CASE w.t # "text"
  BY <1>2, WriteFields DEF ItemsOf
<1> QED
  BY <1>1, <1>2

LEMMA InQueueOf ==
  ASSUME NEW q \in Seq(Write)
  PROVE /\ InQueue(q) \subseteq 1 .. Message
        /\ \A i \in DOMAIN q : q[i] \in Write /\ ItemsOf(q[i]) \subseteq InQueue(q)
<1>1. \A i \in DOMAIN q : q[i] \in Write
  OBVIOUS
<1> QED
  BY <1>1, ItemsOfWrite DEF InQueue

\* An ordered sequence, and another after it
LEMMA OrderedConcat ==
  ASSUME NEW s \in Seq(1 .. Message), NEW u \in Seq(1 .. Message), Ordered(s), Ordered(u),
         Before(Range(s), Range(u))
  PROVE Ordered(s \o u)
<1> DEFINE c == s \o u
<1>1. PICK m \in Nat, n \in Nat : m = Len(s) /\ n = Len(u)
  OBVIOUS
<1>2. /\ DOMAIN s = 1 .. m /\ DOMAIN u = 1 .. n /\ DOMAIN c = 1 .. m + n
      /\ \A i \in 1 .. m : c[i] = s[i]
      /\ \A i \in 1 .. n : c[m + i] = u[i]
  BY <1>1, ConcatAt
<1> HIDE DEF c
<1>3. ASSUME NEW i \in 1 .. m + n, NEW j \in 1 .. m + n, i < j PROVE c[i] < c[j]
  <2>1. CASE j <= m
    <3>1. i \in 1 .. m /\ j \in 1 .. m
      BY <1>3, <2>1
    <3> QED
      BY <1>2, <1>3, <3>1 DEF Ordered
  <2>2. CASE i > m
    <3>1. PICK k \in 1 .. n, l \in 1 .. n : i = m + k /\ j = m + l /\ k < l
      <4>1. i - m \in 1 .. n /\ j - m \in 1 .. n /\ i = m + (i - m) /\ j = m + (j - m) /\ i - m < j - m
        BY <1>3, <2>2
      <4> QED
        BY <4>1
    <3>2. u[k] < u[l]
      BY <1>2, <3>1 DEF Ordered
    <3> QED
      BY <1>2, <3>1, <3>2
  <2>3. CASE i <= m /\ j > m
    <3>1. PICK l \in 1 .. n : j = m + l
      <4>1. j - m \in 1 .. n /\ j = m + (j - m)
        BY <1>3, <2>3
      <4> QED
        BY <4>1
    <3>2. i \in 1 .. m
      BY <2>3
    <3>3. s[i] \in Range(s) /\ u[l] \in Range(u)
      BY <1>2, <3>1, <3>2 DEF Range
    <3> QED
      BY <1>2, <3>1, <3>2, <3>3 DEF Before
  <2> QED
    BY <2>1, <2>2, <2>3
<1> QED
  BY <1>2, <1>3 DEF Ordered, c

LEMMA OneOrdered ==
  ASSUME NEW S, NEW x \in S
  PROVE <<x>> \in Seq(S) /\ Ordered(<<x>>) /\ Range(<<x>>) = {x}
<1>1. <<x>> \in Seq(S) /\ DOMAIN <<x>> = {1} /\ <<x>>[1] = x
  OBVIOUS
<1> QED
  BY <1>1 DEF Ordered, Range

LEMMA ItemsConcat == \A s, u \in Seq(Item) : Range(s \o u) = Range(s) \cup Range(u)
<1>1. ASSUME NEW s \in Seq(Item), NEW u \in Seq(Item)
      PROVE  Range(s \o u) = Range(s) \cup Range(u)
  BY RangeConcat
<1> QED
  BY <1>1

\* A text goes into the buffer.
LEMMA TextBuffered ==
  ASSUME NEW lg \in Seq(1 .. Message), NEW q \in Seq(Write), NEW b \in Seq(Item),
         Arranged(lg, q, b), NEW n \in Item, Before(Within3(lg, q, b), {n})
  PROVE /\ Arranged(lg, q, Append(b, n))
        /\ Within3(lg, q, Append(b, n)) = Within3(lg, q, b) \cup {n}
<1>1. Append(b, n) = b \o <<n>>
  BY OneMore
<1>2. <<n>> \in Seq(Item) /\ Ordered(<<n>>) /\ Range(<<n>>) = {n}
  BY OneOrdered
<1>3. Range(Append(b, n)) = Range(b) \cup {n}
  <2>1. Range(b \o <<n>>) = Range(b) \cup Range(<<n>>)
    <3>1. b \in Seq(Item) /\ <<n>> \in Seq(Item)
      BY <1>2
    <3> QED
      BY <3>1, ItemsConcat
  <2> QED
    BY <1>1, <1>2, <2>1
<1>4. Ordered(Append(b, n))
  <2>1. Item \subseteq 1 .. Message
    BY Constants
  <2>2. b \in Seq(1 .. Message) /\ <<n>> \in Seq(1 .. Message)
    BY <1>2, <2>1, SeqMonotonic
  <2>3. Before(Range(b), {n})
    BY WithinIs DEF Before
  <2> QED
    BY <1>1, <1>2, <2>2, <2>3, OrderedConcat DEF Arranged
<1>5. Before(Range(lg), Range(Append(b, n)))
  BY <1>3, WithinIs DEF Before, Arranged
<1>6. \A i \in DOMAIN q : Before(ItemsOf(q[i]), Range(Append(b, n)))
  BY <1>3, WithinIs, InQueueOf DEF Before, Arranged
<1> QED
  BY <1>3, <1>4, <1>5, <1>6, WithinIs DEF Arranged

\* A write is queued after the rest.
LEMMA WriteQueued ==
  ASSUME NEW lg \in Seq(1 .. Message), NEW q \in Seq(Write), NEW b, Arranged(lg, q, b),
         NEW w \in Write, w.t = "text" => Ordered(w.ns),
         Before(Within3(lg, q, <<>>), ItemsOf(w))
  PROVE /\ q \o <<w>> \in Seq(Write) /\ Arranged(lg, q \o <<w>>, <<>>)
        /\ Within3(lg, q \o <<w>>, <<>>) = Within3(lg, q, <<>>) \cup ItemsOf(w)
<1> DEFINE p == q \o <<w>>
<1>1. PICK n \in Nat : n = Len(q)
  OBVIOUS
<1>2. <<w>> \in Seq(Write) /\ Len(<<w>>) = 1 /\ DOMAIN <<w>> = {1} /\ <<w>>[1] = w
  OBVIOUS
<1>3. /\ p \in Seq(Write) /\ DOMAIN q = 1 .. n /\ DOMAIN p = 1 .. n + 1
      /\ \A i \in 1 .. n : p[i] = q[i] /\ p[n + 1] = w
      /\ p[n + 1] = w
  BY <1>1, <1>2, ConcatAt
<1> HIDE DEF p
<1>4. \A i \in 1 .. n + 1 : i \in 1 .. n \/ i = n + 1
  OBVIOUS
<1>5. InQueue(p) = InQueue(q) \cup ItemsOf(w)
  <2>1. InQueue(p) \subseteq InQueue(q) \cup ItemsOf(w)
    BY <1>3, <1>4 DEF InQueue
  <2>2. InQueue(q) \subseteq InQueue(p)
    <3>1. \A i \in 1 .. n : i \in 1 .. n + 1
      OBVIOUS
    <3> QED
      BY <1>3, <3>1 DEF InQueue
  <2>3. ItemsOf(w) \subseteq InQueue(p)
    <3>1. n + 1 \in 1 .. n + 1
      OBVIOUS
    <3> QED
      BY <1>3, <3>1 DEF InQueue
  <2> QED
    BY <2>1, <2>2, <2>3
<1>6. Within3(lg, p, <<>>) = Within3(lg, q, <<>>) \cup ItemsOf(w)
  BY <1>5, WithinIs
<1>7. \A i \in 1 .. n : Before(ItemsOf(q[i]), ItemsOf(w))
  BY <1>3, WithinIs, InQueueOf DEF Before
<1>8. Before(Range(lg), ItemsOf(w))
  BY WithinIs DEF Before
<1>9. \A i \in 1 .. n + 1 :
        /\ p[i].t = "text" => Ordered(p[i].ns)
        /\ Before(Range(lg), ItemsOf(p[i]))
        /\ \A j \in 1 .. n + 1 : i < j => Before(ItemsOf(p[i]), ItemsOf(p[j]))
  <2>1. ASSUME NEW i \in 1 .. n + 1
        PROVE p[i].t = "text" => Ordered(p[i].ns)
    BY <1>3, <1>4 DEF Arranged
  <2>2. ASSUME NEW i \in 1 .. n + 1
        PROVE Before(Range(lg), ItemsOf(p[i]))
    BY <1>3, <1>4, <1>8 DEF Arranged
  <2>3. ASSUME NEW i \in 1 .. n + 1, NEW j \in 1 .. n + 1, i < j
        PROVE Before(ItemsOf(p[i]), ItemsOf(p[j]))
    <3>1. i \in 1 .. n
      BY <2>3
    <3>2. CASE j = n + 1
      BY <1>3, <1>7, <3>1, <3>2
    <3>3. CASE j \in 1 .. n
      BY <1>3, <2>3, <3>1, <3>3 DEF Arranged
    <3> QED
      BY <1>4, <3>2, <3>3
  <2> QED
    BY <2>1, <2>2, <2>3
<1>10. Arranged(lg, p, <<>>)
  <2>1. \A S : Before(S, {})
    BY DEF Before
  <2> QED
    BY <1>3, <1>9, <2>1, RangeEmpty DEF Arranged
<1> QED
  BY <1>3, <1>6, <1>10 DEF p

LEMMA BufferDropped ==
  ASSUME NEW lg, NEW q, NEW b, Arranged(lg, q, b)
  PROVE Arranged(lg, q, <<>>) /\ Within3(lg, q, <<>>) = Range(lg) \cup InQueue(q)
<1>1. \A S : Before(S, {})
  BY DEF Before
<1> QED
  BY <1>1, RangeEmpty, WithinIs DEF Arranged

\* The buffer is flushed: nothing is out of order, and nothing is lost.
LEMMA BufferFlushed ==
  ASSUME NEW lg \in Seq(1 .. Message), NEW t \in TurnRecord, Arranged(lg, t.queue, t.buffer)
  PROVE LET p == t.queue \o Flushed(t) IN
        /\ p \in Seq(Write) /\ Arranged(lg, p, <<>>)
        /\ Within3(lg, p, <<>>) = Within3(lg, t.queue, t.buffer)
<1>1. t.queue \in Seq(Write) /\ t.buffer \in Seq(Item)
  BY DEF TurnRecord
<1>2. /\ Arranged(lg, t.queue, <<>>)
      /\ Within3(lg, t.queue, <<>>) = Range(lg) \cup InQueue(t.queue)
  BY BufferDropped
<1>3. CASE t.buffer = <<>>
  <2>1. t.queue \o Flushed(t) = t.queue
    BY <1>1, <1>3, FlushedWrites, ConcatEmptySeq
  <2> QED
    BY <1>1, <1>2, <1>3, <2>1
<1>4. CASE t.buffer # <<>>
  <2>1. PICK w \in Write : w = [t |-> "text", ns |-> t.buffer]
    BY <1>1 DEF Write
  <2>2. Flushed(t) = <<w>> /\ w.t = "text" /\ w.ns = t.buffer
    BY <1>4, <2>1, FlushedWrites
  <2>3. ItemsOf(w) = Range(t.buffer)
    BY <2>2, ItemsOfWrite
  <2>4. Ordered(w.ns)
    BY <2>2 DEF Arranged
  <2>5. Before(Within3(lg, t.queue, <<>>), ItemsOf(w))
    <3>1. Before(Range(lg), Range(t.buffer))
      BY DEF Arranged
    <3>2. \A i \in DOMAIN t.queue : Before(ItemsOf(t.queue[i]), Range(t.buffer))
      BY DEF Arranged
    <3>3. \A x \in InQueue(t.queue) : \E i \in DOMAIN t.queue : x \in ItemsOf(t.queue[i])
      BY DEF InQueue
    <3> QED
      BY <1>2, <2>3, <3>1, <3>2, <3>3 DEF Before
  <2>6. /\ t.queue \o <<w>> \in Seq(Write) /\ Arranged(lg, t.queue \o <<w>>, <<>>)
        /\ Within3(lg, t.queue \o <<w>>, <<>>) = Within3(lg, t.queue, <<>>) \cup ItemsOf(w)
    BY <1>1, <2>4, <2>5, WriteQueued
  <2> QED
    BY <1>2, <2>2, <2>3, <2>6, WithinIs
<1> QED
  BY <1>3, <1>4

\* The head of the queue
LEMMA HeadOfQueue ==
  ASSUME NEW q \in Seq(Write), q # <<>>
  PROVE /\ Tail(q) \in Seq(Write) /\ Head(q) \in Write
        /\ InQueue(q) = InQueue(Tail(q)) \cup ItemsOf(Head(q))
<1>1. Tail(q) \in Seq(Write) /\ Head(q) \in Write
  BY TailAt
<1>2. InQueue(q) \subseteq InQueue(Tail(q)) \cup ItemsOf(Head(q))
  <2> SUFFICES ASSUME NEW i \in DOMAIN q PROVE ItemsOf(q[i]) \subseteq InQueue(Tail(q)) \cup ItemsOf(Head(q))
    BY DEF InQueue
  <2>1. CASE i = 1
    BY <2>1, TailAt
  <2>2. CASE i # 1
    <3>1. i - 1 \in DOMAIN Tail(q) /\ Tail(q)[i - 1] = q[i]
      BY <2>2, TailAt
    <3> QED
      BY <1>1, <3>1, InQueueOf
  <2> QED
    BY <2>1, <2>2
<1>3. InQueue(Tail(q)) \subseteq InQueue(q)
  <2> SUFFICES ASSUME NEW i \in DOMAIN Tail(q) PROVE ItemsOf(Tail(q)[i]) \subseteq InQueue(q)
    BY DEF InQueue
  <2>1. i + 1 \in DOMAIN q /\ Tail(q)[i] = q[i + 1]
    BY TailAt
  <2> QED
    BY <2>1, InQueueOf
<1>4. ItemsOf(Head(q)) \subseteq InQueue(q)
  <2>1. 1 \in DOMAIN q /\ q[1] = Head(q)
    BY TailAt
  <2> QED
    BY <2>1, InQueueOf
<1> QED
  BY <1>1, <1>2, <1>3, <1>4

LEMMA HeadDropped ==
  ASSUME NEW lg \in Seq(1 .. Message), NEW q \in Seq(Write), NEW b \in Seq(Item),
         Arranged(lg, q, b), q # <<>>
  PROVE /\ Arranged(lg, Tail(q), b)
        /\ Within3(lg, q, b) = Within3(lg, Tail(q), b) \cup ItemsOf(Head(q))
        /\ Before(ItemsOf(Head(q)), InQueue(Tail(q)) \cup Range(b))
        /\ Before(Range(lg), ItemsOf(Head(q)))
        /\ Head(q).t = "text" => Ordered(Head(q).ns)
<1>1. PICK n \in Nat \ {0} : n = Len(q)
  BY TailAt
<1>2. /\ DOMAIN q = 1 .. n /\ DOMAIN Tail(q) = 1 .. n - 1 /\ q[1] = Head(q) /\ 1 \in 1 .. n
      /\ \A i \in 1 .. n - 1 : i + 1 \in 1 .. n /\ Tail(q)[i] = q[i + 1]
  BY <1>1, TailAt
<1>3. \A i \in 1 .. n - 1 : i \in Nat /\ i + 1 > 1
  OBVIOUS
<1>4. \A i \in 1 .. n - 1 : Before(ItemsOf(Head(q)), ItemsOf(Tail(q)[i]))
  BY <1>2, <1>3 DEF Arranged
<1>5. Before(ItemsOf(Head(q)), InQueue(Tail(q)) \cup Range(b))
  <2>1. Before(ItemsOf(Head(q)), Range(b))
    BY <1>2 DEF Arranged
  <2>2. \A x \in InQueue(Tail(q)) : \E i \in 1 .. n - 1 : x \in ItemsOf(Tail(q)[i])
    BY <1>2 DEF InQueue
  <2> QED
    BY <1>4, <2>1, <2>2 DEF Before
<1>6. /\ Before(Range(lg), ItemsOf(Head(q)))
      /\ Head(q).t = "text" => Ordered(Head(q).ns)
  BY <1>2 DEF Arranged
<1>7. Arranged(lg, Tail(q), b)
  <2>1. ASSUME NEW i \in 1 .. n - 1, NEW j \in 1 .. n - 1, i < j
        PROVE Before(ItemsOf(Tail(q)[i]), ItemsOf(Tail(q)[j]))
    <3>1. i + 1 < j + 1
      BY <2>1
    <3> QED
      BY <1>2, <3>1 DEF Arranged
  <2>2. ASSUME NEW i \in 1 .. n - 1
        PROVE /\ Tail(q)[i].t = "text" => Ordered(Tail(q)[i].ns)
              /\ Before(Range(lg), ItemsOf(Tail(q)[i])) /\ Before(ItemsOf(Tail(q)[i]), Range(b))
    BY <1>2 DEF Arranged
  <2> QED
    BY <1>2, <2>1, <2>2 DEF Arranged
<1> QED
  BY <1>5, <1>6, <1>7, HeadOfQueue, WithinIs

\* The items of the head are stored.
LEMMA HeadStored ==
  ASSUME NEW lg \in Seq(1 .. Message), NEW q \in Seq(Write), NEW b \in Seq(Item),
         Arranged(lg, q, b), q # <<>>, NEW s \in Seq(1 .. Message), Ordered(s),
         Range(s) = ItemsOf(Head(q))
  PROVE /\ Arranged(lg \o s, Tail(q), b)
        /\ Within3(lg \o s, Tail(q), b) = Within3(lg, q, b)
<1>1. /\ Arranged(lg, Tail(q), b)
      /\ Within3(lg, q, b) = Within3(lg, Tail(q), b) \cup ItemsOf(Head(q))
      /\ Before(ItemsOf(Head(q)), InQueue(Tail(q)) \cup Range(b))
      /\ Before(Range(lg), ItemsOf(Head(q)))
  BY HeadDropped
<1>2. Ordered(lg \o s) /\ Range(lg \o s) = Range(lg) \cup Range(s)
  BY <1>1, OrderedConcat, RangeConcat DEF Arranged
<1>3. Tail(q) \in Seq(Write)
  BY HeadOfQueue
<1>4. \A i \in DOMAIN Tail(q) : Before(Range(s), ItemsOf(Tail(q)[i]))
  BY <1>1, <1>3, InQueueOf DEF Before
<1>5. \A i \in DOMAIN Tail(q) : Before(Range(lg \o s), ItemsOf(Tail(q)[i]))
  BY <1>1, <1>2, <1>4 DEF Before, Arranged
<1>6. Before(Range(lg \o s), Range(b))
  BY <1>1, <1>2 DEF Before, Arranged
<1>7. Arranged(lg \o s, Tail(q), b)
  BY <1>1, <1>2, <1>5, <1>6 DEF Arranged
<1> QED
  BY <1>1, <1>2, <1>7, WithinIs

-----------------------------------------------------------------------------
(* What is still to be read                                                *)

LEMMA SaidByEvent ==
  ASSUME NEW ev \in Event
  PROVE /\ SaidBy(ev) \subseteq Item
        /\ ev.t \in {"text", "call", "spawn"} => SaidBy(ev) = {ev.n} /\ ev.n \in Item
        /\ ~(ev.t \in {"text", "call", "spawn"}) => SaidBy(ev) = {}
BY EventFields DEF SaidBy

LEMMA SaidInOf ==
  ASSUME NEW pipe \in Seq(Event)
  PROVE /\ SaidIn(pipe) \subseteq Item
        /\ \A i \in DOMAIN pipe : pipe[i] \in Event /\ SaidBy(pipe[i]) \subseteq SaidIn(pipe)
<1>1. \A i \in DOMAIN pipe : pipe[i] \in Event
  OBVIOUS
<1> QED
  BY <1>1, SaidByEvent DEF SaidIn

LEMMA SaidInConcat ==
  ASSUME NEW p \in Seq(Event), NEW X \in Seq(Event)
  PROVE SaidIn(p \o X) = SaidIn(p) \cup SaidIn(X)
<1>1. SaidIn(p \o X) \subseteq SaidIn(p) \cup SaidIn(X)
  <2> SUFFICES ASSUME NEW i \in DOMAIN (p \o X)
      PROVE SaidBy((p \o X)[i]) \subseteq SaidIn(p) \cup SaidIn(X)
    BY DEF SaidIn
  <2>1. CASE i \in DOMAIN p
    <3>1. (p \o X)[i] = p[i]
      BY <2>1, ConcatAt
    <3> QED
      BY <2>1, <3>1, SaidInOf
  <2>2. CASE i - Len(p) \in DOMAIN X /\ i = Len(p) + (i - Len(p))
    <3>1. (p \o X)[i] = X[i - Len(p)]
      BY <2>2, ConcatAt
    <3> QED
      BY <2>2, <3>1, SaidInOf
  <2> QED
    BY <2>1, <2>2, ConcatAt
<1>2. SaidIn(p) \subseteq SaidIn(p \o X)
  BY ConcatAt DEF SaidIn
<1>3. SaidIn(X) \subseteq SaidIn(p \o X)
  <2> SUFFICES ASSUME NEW i \in DOMAIN X PROVE SaidBy(X[i]) \subseteq SaidIn(p \o X)
    BY DEF SaidIn
  <2>1. Len(p) + i \in DOMAIN (p \o X) /\ (p \o X)[Len(p) + i] = X[i] /\ p \o X \in Seq(Event)
    BY ConcatAt
  <2> QED
    BY <2>1, SaidInOf
<1> QED
  BY <1>1, <1>2, <1>3

LEMMA FollowsConcat ==
  ASSUME NEW p \in Seq(Event), NEW X \in Seq(Event), Follows(p), Follows(X),
         Before(SaidIn(p), SaidIn(X))
  PROVE Follows(p \o X)
<1> DEFINE c == p \o X
<1>1. PICK m \in Nat, n \in Nat : m = Len(p) /\ n = Len(X)
  OBVIOUS
<1>2. /\ DOMAIN p = 1 .. m /\ DOMAIN X = 1 .. n /\ DOMAIN c = 1 .. m + n
      /\ \A i \in 1 .. m : c[i] = p[i]
      /\ \A i \in 1 .. n : c[m + i] = X[i]
  BY <1>1, ConcatAt
<1> HIDE DEF c
<1>3. ASSUME NEW i \in 1 .. m + n, NEW j \in 1 .. m + n, i < j
      PROVE Before(SaidBy(c[i]), SaidBy(c[j]))
  <2>1. CASE j <= m
    <3>1. i \in 1 .. m /\ j \in 1 .. m
      BY <1>3, <2>1
    <3> QED
      BY <1>2, <1>3, <3>1 DEF Follows
  <2>2. CASE i > m
    <3>1. PICK k \in 1 .. n, l \in 1 .. n : i = m + k /\ j = m + l /\ k < l
      <4>1. i - m \in 1 .. n /\ j - m \in 1 .. n /\ i = m + (i - m) /\ j = m + (j - m) /\ i - m < j - m
        BY <1>3, <2>2
      <4> QED
        BY <4>1
    <3> QED
      BY <1>2, <3>1 DEF Follows
  <2>3. CASE i <= m /\ j > m
    <3>1. PICK l \in 1 .. n : j = m + l
      <4>1. j - m \in 1 .. n /\ j = m + (j - m)
        BY <1>3, <2>3
      <4> QED
        BY <4>1
    <3>2. i \in 1 .. m
      BY <2>3
    <3>3. SaidBy(p[i]) \subseteq SaidIn(p) /\ SaidBy(X[l]) \subseteq SaidIn(X)
      BY <1>2, <3>1, <3>2, SaidInOf
    <3>4. Before(SaidBy(p[i]), SaidBy(X[l]))
      BY <3>3 DEF Before
    <3> QED
      BY <1>2, <3>1, <3>2, <3>4
  <2> QED
    BY <2>1, <2>2, <2>3
<1> QED
  BY <1>2, <1>3 DEF Follows, c

LEMMA SaidInTail ==
  ASSUME NEW p \in Seq(Event), p # <<>>
  PROVE /\ SaidIn(p) = SaidIn(Tail(p)) \cup SaidBy(Head(p))
        /\ Follows(p) => Follows(Tail(p)) /\ Before(SaidBy(Head(p)), SaidIn(Tail(p)))
<1>1. PICK n \in Nat \ {0} : n = Len(p)
  BY TailAt
<1>2. /\ DOMAIN p = 1 .. n /\ DOMAIN Tail(p) = 1 .. n - 1 /\ p[1] = Head(p) /\ 1 \in 1 .. n
      /\ Tail(p) \in Seq(Event)
      /\ \A i \in 1 .. n - 1 : i + 1 \in 1 .. n /\ Tail(p)[i] = p[i + 1]
      /\ \A i \in (1 .. n) \ {1} : i - 1 \in 1 .. n - 1 /\ Tail(p)[i - 1] = p[i]
  BY <1>1, TailAt
<1>3. SaidIn(p) \subseteq SaidIn(Tail(p)) \cup SaidBy(Head(p))
  <2> SUFFICES ASSUME NEW i \in 1 .. n PROVE SaidBy(p[i]) \subseteq SaidIn(Tail(p)) \cup SaidBy(Head(p))
    BY <1>2 DEF SaidIn
  <2>1. CASE i = 1
    BY <1>2, <2>1
  <2>2. CASE i # 1
    BY <1>2, <2>2, SaidInOf
  <2> QED
    BY <2>1, <2>2
<1>4. SaidIn(Tail(p)) \subseteq SaidIn(p)
  <2> SUFFICES ASSUME NEW i \in 1 .. n - 1 PROVE SaidBy(Tail(p)[i]) \subseteq SaidIn(p)
    BY <1>2 DEF SaidIn
  <2> QED
    BY <1>2, SaidInOf
<1>5. SaidBy(Head(p)) \subseteq SaidIn(p)
  BY <1>2, SaidInOf
<1>6. ASSUME Follows(p) PROVE Follows(Tail(p)) /\ Before(SaidBy(Head(p)), SaidIn(Tail(p)))
  <2>1. ASSUME NEW i \in 1 .. n - 1, NEW j \in 1 .. n - 1, i < j
        PROVE Before(SaidBy(Tail(p)[i]), SaidBy(Tail(p)[j]))
    <3>1. i + 1 < j + 1
      BY <2>1
    <3> QED
      BY <1>2, <1>6, <3>1 DEF Follows
  <2>2. ASSUME NEW i \in 1 .. n - 1 PROVE Before(SaidBy(Head(p)), SaidBy(Tail(p)[i]))
    <3>1. 1 < i + 1
      OBVIOUS
    <3> QED
      BY <1>2, <1>6, <3>1 DEF Follows
  <2>3. \A x \in SaidIn(Tail(p)) : \E i \in 1 .. n - 1 : x \in SaidBy(Tail(p)[i])
    BY <1>2 DEF SaidIn
  <2>4. Before(SaidBy(Head(p)), SaidIn(Tail(p)))
    BY <2>2, <2>3 DEF Before
  <2> QED
    BY <1>2, <2>1, <2>4 DEF Follows
<1> QED
  BY <1>3, <1>4, <1>5, <1>6

LEMMA QuietEvents ==
  ASSUME NEW X \in Seq(Event), \A i \in DOMAIN X : ~(X[i].t \in {"text", "call", "spawn"})
  PROVE SaidIn(X) = {} /\ Follows(X)
<1>1. \A i \in DOMAIN X : SaidBy(X[i]) = {}
  BY SaidInOf, SaidByEvent
<1> QED
  BY <1>1 DEF SaidIn, Follows, Before

LEMMA OneSaid ==
  ASSUME NEW ev \in Event
  PROVE SaidIn(<<ev>>) = SaidBy(ev) /\ Follows(<<ev>>)
<1>1. <<ev>> \in Seq(Event) /\ DOMAIN <<ev>> = {1} /\ <<ev>>[1] = ev
  OBVIOUS
<1> QED
  BY <1>1 DEF SaidIn, Follows

-----------------------------------------------------------------------------
(* Nothing is out of order, and nothing is lost                            *)

InOrder == OrderFits /\ NothingLost
Late == {"drain", "after"}

LEMMA TextTyped ==
  ASSUME RunInv
  PROVE /\ turn \in TurnRecord /\ turn.queue \in Seq(Write) /\ turn.buffer \in Seq(Item)
        /\ log \in Seq(1 .. Message) /\ cli \in ProcessRecord /\ cli.pipe \in Seq(Event)
        /\ cli.said \in 0 .. MaxSaid /\ cli.said \in Nat /\ MaxSaid \in Nat /\ Message = MaxSaid + 1
        /\ Taken \subseteq 1 .. Message /\ Unread \subseteq Item
<1>1. /\ turn \in TurnRecord /\ turn.queue \in Seq(Write) /\ turn.buffer \in Seq(Item)
      /\ log \in Seq(1 .. Message) /\ cli \in ProcessRecord /\ cli.pipe \in Seq(Event)
      /\ cli.said \in 0 .. MaxSaid /\ MaxSaid \in Nat /\ Message = MaxSaid + 1
  BY QueueTyped, Constants DEF RunInv, RunOK, ProcessRecord
<1>2. Range(log) \subseteq 1 .. Message /\ Range(turn.buffer) \subseteq Item /\ Item \subseteq 1 .. Message
  BY <1>1, RangeIn, Constants
<1>3. Taken \subseteq 1 .. Message
  BY <1>1, <1>2, WithinIs, InQueueOf DEF Taken
<1>4. Unread \subseteq Item
  BY <1>1, SaidInOf DEF Unread
<1> QED
  BY <1>1, <1>3, <1>4

\* Steps that take nothing from the process
LEMMA OrderKept ==
  ASSUME InOrder, cli'.pipe = cli.pipe, cli'.said = cli.said,
         Arranged(log', turn'.queue, turn'.buffer), Taken' \subseteq Taken,
         turn.pc \in Late => turn'.pc \in Late, Open' => Open,
         Lossless' => Lossless /\ Taken' = Taken,
         turn'.pc \in Late /\ turn'.end = "done" => turn.pc \in Late /\ turn.end = "done"
  PROVE InOrder'
<1>1. Unread' = Unread /\ (Follows(cli.pipe) <=> Follows(cli'.pipe))
  BY DEF Unread
<1>2. OrderFits'
  <2>1. Taken' \subseteq (1 .. cli'.said) \cup (IF turn'.pc \in Late THEN {Message} ELSE {})
    BY DEF InOrder, OrderFits, Late
  <2>2. Unread' \subseteq 1 .. cli'.said
    BY <1>1 DEF InOrder, OrderFits
  <2>3. Open' => Before(Taken', Unread') /\ Follows(cli'.pipe)
    BY <1>1 DEF InOrder, OrderFits, Before
  <2> QED
    BY <2>1, <2>2, <2>3 DEF OrderFits, Late
<1>3. NothingLost'
  <2> SUFFICES ASSUME Lossless'
      PROVE /\ 1 .. cli'.said \subseteq Taken' \cup Unread'
            /\ turn'.pc \in Late /\ turn'.end = "done" => Message \in Taken'
    BY DEF NothingLost, Late
  <2> QED
    BY <1>1 DEF InOrder, NothingLost, Late
<1> QED
  BY <1>2, <1>3 DEF InOrder

\* A turn that has said and written nothing
LEMMA OrderEmpty ==
  ASSUME cli'.said = 0, SaidIn(cli'.pipe) = {}, Follows(cli'.pipe), log' = <<>>,
         turn'.queue = <<>>, turn'.buffer = <<>>, turn'.pc \notin Late
  PROVE InOrder'
<1>1. Taken' = {} /\ Unread' = {}
  BY RangeEmpty, WithinIs DEF Taken, Unread
<1>2. Arranged(log', turn'.queue, turn'.buffer)
  BY RangeEmpty DEF Arranged, Before
<1> QED
  BY <1>1, <1>2 DEF InOrder, OrderFits, NothingLost, Before, Late

LEMMA NothingToRead == SaidIn(<<>>) = {} /\ Follows(<<>>)
BY DEF SaidIn, Follows

LEMMA OutputInOrder ==
  ASSUME RunInv, InOrder, NEW X, Output(X)
  PROVE InOrder'
<1>1. /\ Open /\ turn.stop = "none" /\ turn.pc \notin Late /\ X \in Seq(Event)
      /\ cli'.pipe = cli.pipe \o X /\ turn' = turn /\ log' = log /\ cli.pipe \in Seq(Event)
  BY DEF RunInv, RunOK, PhaseFits, ProcessRecord, Output, Open, Late
<1>2. Unread' = Unread \cup SaidIn(X)
  BY <1>1, SaidInConcat DEF Unread
<1>3. Taken' = Taken
  BY <1>1 DEF Taken
<1>4. /\ Follows(X) /\ cli'.said \in Nat /\ cli'.said >= cli.said
      /\ \A n \in SaidIn(X) : n = cli.said + 1 /\ n = cli'.said
      /\ cli'.said # cli.said => cli'.said = cli.said + 1 /\ cli'.said \in SaidIn(X)
  <2>1. CASE LastEvents(X)
    <3>1. PICK U \in Seq(Counts), ev \in Event : X = U \o <<ev>> /\ Finishes(U, ev)
      BY <2>1 DEF LastEvents
    <3>2. /\ Len(U) \in Nat /\ DOMAIN X = 1 .. Len(U) + 1 /\ X[Len(U) + 1] = ev
          /\ \A i \in 1 .. Len(U) : X[i] \in Counts
      BY <3>1
    <3>3. \A i \in DOMAIN X : X[i].t \in Finals \cup {"usage"}
      <4>1. \A i \in 1 .. Len(U) + 1 : i \in 1 .. Len(U) \/ i = Len(U) + 1
        BY <3>2
      <4>2. \A i \in 1 .. Len(U) : X[i].t = "usage"
        BY <3>2 DEF Counts
      <4>3. ev.t \in Finals
        BY <3>1 DEF Finishes
      <4> QED
        BY <3>2, <4>1, <4>2, <4>3
    <3>4. SaidIn(X) = {} /\ Follows(X)
      BY <1>1, <3>3, QuietEvents DEF Finals
    <3>5. cli'.said = cli.said
      BY <3>1 DEF Finishes
    <3> QED
      BY <3>4, <3>5, TextTyped
  <2>2. CASE OneEvent(X)
    <3>1. PICK ev \in Event : X = <<ev>> /\ (Speaks(ev) \/ SubagentSettles(ev) \/ ToolAnswers(ev))
      BY <2>2 DEF OneEvent
    <3>2. SaidIn(X) = SaidBy(ev) /\ Follows(X)
      BY <3>1, OneSaid
    <3>3. CASE Speaks(ev)
      BY <3>2, <3>3, SaidByEvent, TextTyped DEF Speaks
    <3>4. CASE SubagentSettles(ev) \/ ToolAnswers(ev)
      <4>1. ~(ev.t \in {"text", "call", "spawn"}) /\ cli'.said = cli.said
        BY <3>4 DEF SubagentSettles, ToolAnswers, Settles
      <4> QED
        BY <3>2, <4>1, SaidByEvent, TextTyped
    <3> QED
      BY <3>1, <3>3, <3>4
  <2> QED
    BY <2>1, <2>2 DEF Output
<1>5. Taken \subseteq 1 .. cli.said /\ Unread \subseteq 1 .. cli.said /\ cli.said \in Nat
  BY <1>1, TextTyped DEF InOrder, OrderFits, Late
<1>6. Before(Taken, Unread) /\ Follows(cli.pipe) /\ Arranged(log, turn.queue, turn.buffer)
  BY <1>1 DEF InOrder, OrderFits
<1>7. Before(Taken, SaidIn(X)) /\ Before(SaidIn(cli.pipe), SaidIn(X))
  <2>1. \A x \in 1 .. cli.said : x < cli.said + 1
    BY <1>5
  <2> QED
    BY <1>4, <1>5, <2>1 DEF Before, Unread
<1>8. Before(Taken', Unread') /\ Follows(cli'.pipe)
  <2>1. Before(Taken', Unread')
    BY <1>2, <1>3, <1>6, <1>7 DEF Before
  <2> QED
    BY <1>1, <1>4, <1>6, <1>7, <2>1, FollowsConcat
<1>9. Unread' \subseteq 1 .. cli'.said /\ Taken' \subseteq 1 .. cli'.said
  <2>1. \A x \in 1 .. cli.said : x \in 1 .. cli'.said
    BY <1>4, <1>5
  <2>2. \A x \in SaidIn(X) : x \in 1 .. cli'.said
    <3> SUFFICES ASSUME NEW x \in SaidIn(X) PROVE x \in 1 .. cli'.said
      OBVIOUS
    <3>1. x = cli'.said /\ x = cli.said + 1
      BY <1>4
    <3> QED
      BY <1>4, <1>5, <3>1
  <2> QED
    BY <1>2, <1>3, <1>5, <2>1, <2>2
<1>10. Arranged(log', turn'.queue, turn'.buffer)
  BY <1>1, <1>6
<1>11. OrderFits'
  BY <1>1, <1>8, <1>9, <1>10 DEF OrderFits
<1>12. NothingLost'
  <2> SUFFICES ASSUME Lossless' PROVE 1 .. cli'.said \subseteq Taken' \cup Unread'
    BY <1>1 DEF NothingLost, Late
  <2>1. Lossless /\ 1 .. cli.said \subseteq Taken \cup Unread
    BY <1>1 DEF InOrder, NothingLost, Lossless
  <2>2. \A x \in 1 .. cli'.said : x \in 1 .. cli.said \/ (x = cli'.said /\ cli'.said # cli.said)
    BY <1>4, <1>5
  <2> QED
    BY <1>2, <1>3, <1>4, <2>1, <2>2
<1> QED
  BY <1>11, <1>12 DEF InOrder

\* What an event has to say, the loop takes.
LEMMA PullInOrder ==
  ASSUME RunInv, InOrder, Pull
  PROVE InOrder'
<1>1. PICK ev \in Event : ev = Head(cli.pipe)
  BY PullFields
<1>2. /\ turn.pc = "pull" /\ turn.stop = "none" /\ cli.pipe # <<>>
      /\ cli'.pipe = Tail(cli.pipe) /\ cli'.said = cli.said /\ log' = log
      /\ turn'.stop = "none" /\ turn'.lost = turn.lost /\ PulledWrites(ev)
      /\ Open /\ turn.pc \notin Late
  BY <1>1, PullFields DEF Pull, Open, Late
<1>3. /\ turn \in TurnRecord /\ turn.queue \in Seq(Write) /\ turn.buffer \in Seq(Item)
      /\ log \in Seq(1 .. Message) /\ cli.pipe \in Seq(Event) /\ cli.said \in Nat
  BY TextTyped
<1>4. /\ Arranged(log, turn.queue, turn.buffer) /\ Taken \subseteq 1 .. cli.said
      /\ Unread \subseteq 1 .. cli.said /\ Before(Taken, Unread) /\ Follows(cli.pipe)
  BY <1>2 DEF InOrder, OrderFits, Late
<1>5. /\ Unread = Unread' \cup SaidBy(ev) /\ Follows(cli'.pipe) /\ Before(SaidBy(ev), Unread')
  BY <1>1, <1>2, <1>3, <1>4, SaidInTail DEF Unread
<1>6. Before(Taken, SaidBy(ev))
  BY <1>4, <1>5 DEF Before
<1>7. Arranged(log', turn'.queue, turn'.buffer) /\ Taken' = Taken \cup SaidBy(ev) /\ turn'.pc \notin Late
  <2>1. CASE ev.t = "text"
    <3>1. /\ turn'.queue = turn.queue /\ turn'.buffer = Append(turn.buffer, ev.n)
          /\ turn'.pc = "pull" /\ SaidBy(ev) = {ev.n} /\ ev.n \in Item
      BY <1>2, <2>1, SaidByEvent DEF PulledWrites
    <3>2. /\ Arranged(log, turn.queue, Append(turn.buffer, ev.n))
          /\ Within3(log, turn.queue, Append(turn.buffer, ev.n))
               = Within3(log, turn.queue, turn.buffer) \cup {ev.n}
      <4>1. /\ Arranged(log, turn.queue, turn.buffer) /\ ev.n \in Item
            /\ Before(Within3(log, turn.queue, turn.buffer), {ev.n})
        BY <1>4, <1>6, <3>1 DEF Taken
      <4> QED
        BY <1>3, <4>1, TextBuffered
    <3> QED
      BY <1>2, <3>1, <3>2 DEF Taken, Late
  <2>2. CASE ev.t \in {"started", "updated", "settled", "eof"}
    <3>1. /\ turn'.queue = turn.queue /\ turn'.buffer = turn.buffer /\ turn'.pc \in {"pull", "closing"}
          /\ SaidBy(ev) = {}
      BY <1>2, <2>2, SaidByEvent DEF PulledWrites
    <3> QED
      BY <1>2, <1>4, <3>1 DEF Taken, Late
  <2>3. CASE ev.t \in {"call", "spawn", "denied", "session", "result", "usage", "done", "error"}
    <3>1. PICK p \in Seq(Write) :
            /\ p = turn.queue \o Flushed(turn) /\ Arranged(log, p, <<>>)
            /\ Within3(log, p, <<>>) = Taken
      BY <1>3, <1>4, BufferFlushed DEF Taken
    <3>2. /\ turn'.queue = turn.queue \o (Flushed(turn) \o Extra(ev)) /\ turn'.buffer = <<>>
          /\ turn'.pc \in {"await", "pull", "closing"}
      BY <1>2, <2>3 DEF PulledWrites
    <3>3. CASE ev.t \in {"denied", "result", "done", "error"}
      <4>1. Extra(ev) = <<>> /\ SaidBy(ev) = {}
        BY <3>3, SaidByEvent DEF Extra
      <4>2. Flushed(turn) \o <<>> = Flushed(turn)
        BY <1>3, FlushedWrites, ConcatEmptySeq
      <4> QED
        BY <1>2, <3>1, <3>2, <4>1, <4>2 DEF Taken, Late
    <3>4. CASE ev.t \in {"call", "spawn", "session", "usage"}
      <4>1. PICK w \in Write : Extra(ev) = <<w>> /\ ItemsOf(w) = SaidBy(ev) /\ w.t # "text"
        <5>1. CASE ev.t \in {"call", "spawn"}
          <6>1. ev.n \in Item /\ SaidBy(ev) = {ev.n} /\ Item \subseteq 1 .. Message
            BY <5>1, SaidByEvent, Constants
          <6>2. PICK w \in Write : w = [t |-> "call", n |-> ev.n]
            BY <6>1 DEF Write
          <6>3. w.t = "call" /\ w.n = ev.n /\ Extra(ev) = <<w>>
            BY <5>1, <6>2 DEF Extra
          <6> QED
            BY <6>1, <6>3, ItemsOfWrite
        <5>2. CASE ev.t = "session"
          <6>1. PICK w \in Write : w = [t |-> "session"]
            BY DEF Write
          <6>2. w.t = "session" /\ Extra(ev) = <<w>> /\ SaidBy(ev) = {}
            BY <5>2, <6>1, SaidByEvent DEF Extra
          <6> QED
            BY <6>2, ItemsOfWrite
        <5>3. CASE ev.t = "usage"
          <6>1. PICK w \in Write : w = Charged(turn, ev).ev /\ w.t = "usage"
            <7>1. Charged(turn, ev).ev \in Counts
              BY <1>3, <5>3, EventFields, ChargedFields
            <7> QED
              BY <7>1 DEF Write, Counts
          <6>2. Extra(ev) = <<w>> /\ SaidBy(ev) = {}
            BY <5>3, <6>1, SaidByEvent DEF Extra
          <6> QED
            BY <6>1, <6>2, ItemsOfWrite
        <5> QED
          BY <3>4, <5>1, <5>2, <5>3
      <4>2. turn.queue \o (Flushed(turn) \o <<w>>) = p \o <<w>>
        <5>1. \A s, t, u \in Seq(Write) : (s \o t) \o u = s \o (t \o u)
          BY Regrouped
        <5>2. Flushed(turn) \in Seq(Write) /\ <<w>> \in Seq(Write)
          BY <1>3, FlushedWrites
        <5> QED
          BY <1>3, <3>1, <5>1, <5>2
      <4>3. /\ Arranged(log, p \o <<w>>, <<>>)
            /\ Within3(log, p \o <<w>>, <<>>) = Within3(log, p, <<>>) \cup ItemsOf(w)
        <5>1. /\ Arranged(log, p, <<>>) /\ (w.t = "text" => Ordered(w.ns))
              /\ Before(Within3(log, p, <<>>), ItemsOf(w))
          BY <1>6, <3>1, <4>1
        <5>2. log \in Seq(1 .. Message) /\ p \in Seq(Write) /\ w \in Write
          BY <1>3
        <5> QED
          BY <5>1, <5>2, WriteQueued
      <4> QED
        BY <1>2, <3>1, <3>2, <4>1, <4>2, <4>3 DEF Taken, Late
    <3> QED
      BY <2>3, <3>3, <3>4
  <2> QED
    BY <2>1, <2>2, <2>3, EventFields DEF Settles
<1>8. Before(Taken', Unread')
  BY <1>4, <1>5, <1>7 DEF Before
<1>9. Taken' \subseteq 1 .. cli'.said /\ Unread' \subseteq 1 .. cli'.said
  BY <1>2, <1>4, <1>5, <1>7
<1>10. OrderFits'
  BY <1>5, <1>7, <1>8, <1>9 DEF OrderFits
<1>11. NothingLost'
  BY <1>2, <1>5, <1>7 DEF InOrder, NothingLost, Lossless, Late
<1> QED
  BY <1>10, <1>11 DEF InOrder

\* The end of a turn writes what is left of its text, and its message.
LEMMA ClosesInOrder ==
  ASSUME RunInv, InOrder, Closes
  PROVE InOrder'
<1>1. PICK more \in Seq(Write) :
        /\ UNCHANGED <<cli, log>> /\ turn.pc = "closing" /\ Closing(more)
        /\ turn'.queue = turn.queue \o more /\ turn'.buffer = <<>>
        /\ turn'.pc = IF turn'.queue = <<>> THEN "after" ELSE "drain"
        /\ turn'.stop = turn.stop /\ turn'.end = turn.end /\ turn'.lost = turn.lost
  BY ClosesSteps DEF SameFlags
<1>2. /\ turn \in TurnRecord /\ turn.queue \in Seq(Write) /\ turn.buffer \in Seq(Item)
      /\ log \in Seq(1 .. Message) /\ cli.said \in 0 .. MaxSaid /\ MaxSaid \in Nat
      /\ Message = MaxSaid + 1
  BY TextTyped
<1>3. Arranged(log, turn.queue, turn.buffer) /\ Taken \subseteq 1 .. cli.said
      /\ Unread \subseteq 1 .. cli.said
  BY <1>1 DEF InOrder, OrderFits
<1>4. PICK p \in Seq(Write) :
        /\ p = turn.queue \o Flushed(turn) /\ Arranged(log, p, <<>>)
        /\ Within3(log, p, <<>>) = Taken
  BY <1>2, <1>3, BufferFlushed DEF Taken
<1>5. PICK w \in Write : w = [t |-> "call", n |-> Message]
  <2>1. Message \in 1 .. Message
    BY <1>2
  <2>2. [t |-> "call", n |-> Message] \in Write
    BY <2>1 DEF Write
  <2> QED
    BY <2>2
<1>6. ItemsOf(w) = {Message} /\ w.t = "call"
  BY <1>5, ItemsOfWrite
<1>7. /\ Arranged(log, p \o <<w>>, <<>>)
      /\ Within3(log, p \o <<w>>, <<>>) = Taken \cup {Message}
  <2>1. \A x \in 1 .. cli.said : x < Message
    BY <1>2
  <2>2. Before(Taken, {Message})
    BY <1>3, <2>1 DEF Before
  <2>3. Before(Within3(log, p, <<>>), ItemsOf(w))
    BY <1>4, <1>6, <2>2
  <2>4. /\ log \in Seq(1 .. Message) /\ p \in Seq(Write) /\ w \in Write
        /\ Arranged(log, p, <<>>) /\ (w.t = "text" => Ordered(w.ns))
    BY <1>2, <1>4, <1>6
  <2>5. /\ Arranged(log, p \o <<w>>, <<>>)
        /\ Within3(log, p \o <<w>>, <<>>) = Within3(log, p, <<>>) \cup ItemsOf(w)
    BY <2>3, <2>4, WriteQueued
  <2> QED
    BY <1>4, <1>6, <2>5
<1>8. /\ Arranged(log', turn'.queue, turn'.buffer) /\ Taken' \subseteq Taken \cup {Message}
      /\ Lossless' => Lossless /\ Taken \subseteq Taken' /\ (turn'.end = "done" => Message \in Taken')
  <2>1. CASE turn.end = "stopped" /\ turn.stop = "gone"
    <3>1. more = <<>> /\ turn'.queue = turn.queue
      BY <1>1, <1>2, <2>1, ConcatEmptySeq DEF Closing
    <3>2. Arranged(log, turn.queue, <<>>) /\ Within3(log, turn.queue, <<>>) \subseteq Taken
      BY <1>3, BufferDropped, WithinIs DEF Taken
    <3>3. ~Lossless'
      BY <1>1, <2>1 DEF Lossless
    <3> QED
      BY <1>1, <3>1, <3>2, <3>3 DEF Taken
  <2>2. CASE ~(turn.end = "stopped" /\ turn.stop = "gone") /\ (turn.spoke \/ turn.end = "done")
    <3>1. more = Flushed(turn) \o <<w>>
      BY <1>1, <1>5, <2>2 DEF Closing
    <3>2. turn.queue \o (Flushed(turn) \o <<w>>) = p \o <<w>>
      <4>1. \A s, t, u \in Seq(Write) : (s \o t) \o u = s \o (t \o u)
        BY Regrouped
      <4>2. Flushed(turn) \in Seq(Write) /\ <<w>> \in Seq(Write)
        BY <1>2, FlushedWrites
      <4> QED
        BY <1>2, <1>4, <4>1, <4>2
    <3> QED
      BY <1>1, <1>7, <3>1, <3>2 DEF Taken, Lossless
  <2>3. CASE ~(turn.end = "stopped" /\ turn.stop = "gone") /\ ~(turn.spoke \/ turn.end = "done")
    <3>1. more = Flushed(turn) \o <<>>
      BY <1>1, <2>3 DEF Closing
    <3>2. Flushed(turn) \o <<>> = Flushed(turn)
      BY <1>2, FlushedWrites, ConcatEmptySeq
    <3> QED
      BY <1>1, <1>4, <2>3, <3>1, <3>2 DEF Taken, Lossless
  <2> QED
    BY <2>1, <2>2, <2>3
<1>9. Unread' = Unread /\ cli'.said = cli.said /\ turn'.pc \in Late /\ ~Open'
  BY <1>1 DEF Unread, Late, Open
<1>10. OrderFits'
  BY <1>3, <1>8, <1>9 DEF OrderFits, Late
<1>11. NothingLost'
  BY <1>1, <1>8, <1>9 DEF InOrder, NothingLost, Late
<1> QED
  BY <1>10, <1>11 DEF InOrder

LEMMA WritesInOrder ==
  ASSUME RunInv, InOrder, Writes \/ WriteFails
  PROVE InOrder'
<1>1. Dequeued
  BY WritesSteps, FailsSteps
<1>2. /\ turn.queue \in Seq(Write) /\ turn.buffer \in Seq(Item) /\ log \in Seq(1 .. Message)
      /\ turn.queue # <<>> /\ turn'.queue = Tail(turn.queue) /\ turn'.buffer = turn.buffer
      /\ cli \in ProcessRecord
  BY <1>1, TextTyped DEF Dequeued
<1>3. PICK w \in Write :
        /\ w = Head(turn.queue)
        /\ Stored(w) \/ SessionStored(w) \/ UsageStored(w) \/ WriteLost
  BY <1>1, WritesSteps, FailsSteps DEF Dequeued
<1>4. Arranged(log, turn.queue, turn.buffer)
  BY DEF InOrder, OrderFits
<1>5. /\ Arranged(log, turn'.queue, turn'.buffer)
      /\ Taken = Within3(log, turn'.queue, turn'.buffer) \cup ItemsOf(w)
      /\ w.t = "text" => Ordered(w.ns)
  BY <1>2, <1>3, <1>4, HeadDropped DEF Taken
<1>6. /\ Arranged(log', turn'.queue, turn'.buffer) /\ Taken' \subseteq Taken
      /\ Lossless' => Lossless /\ Taken' = Taken
  <2>1. CASE Stored(w)
    <3>1. PICK s \in Seq(1 .. Message) : s = IF w.t = "text" THEN w.ns ELSE <<w.n>>
      BY <2>1, ItemsTyped DEF Stored
    <3>2. Ordered(s) /\ Range(s) = ItemsOf(w)
      <4>1. CASE w.t = "text"
        BY <1>5, <3>1, <4>1, ItemsOfWrite
      <4>2. CASE w.t = "call"
        BY <3>1, <4>2, ItemsOfWrite, WriteFields, OneOrdered
      <4> QED
        BY <2>1, <4>1, <4>2 DEF Stored
    <3>3. CASE log' = log \o s /\ GoesOn
      <4>1. /\ Arranged(log \o s, Tail(turn.queue), turn.buffer)
            /\ Within3(log \o s, Tail(turn.queue), turn.buffer)
                 = Within3(log, turn.queue, turn.buffer)
        BY <1>2, <1>3, <1>4, <3>2, HeadStored
      <4> QED
        BY <1>2, <2>1, <3>3, <4>1 DEF Taken, Stored, GoesOn, Lossless
    <3>4. CASE log' = log /\ Halts("gone")
      <4>1. ~Lossless'
        BY <3>4 DEF Halts, Lossless
      <4> QED
        BY <1>5, <3>4, <4>1 DEF Taken
    <3> QED
      BY <2>1, <3>1, <3>3, <3>4 DEF Stored
  <2>2. CASE SessionStored(w) \/ UsageStored(w)
    <3>1. log' = log /\ ItemsOf(w) = {} /\ turn'.lost = turn.lost
      BY <2>2, ItemsOfWrite DEF SessionStored, UsageStored
    <3>2. turn'.stop = "none" => turn.stop = "none"
      BY <2>2 DEF SessionStored, UsageStored, GoesOn, Halts
    <3> QED
      BY <1>5, <3>1, <3>2 DEF Taken, Lossless
  <2>3. CASE WriteLost
    <3>1. log' = log /\ ~Lossless'
      BY <2>3 DEF WriteLost, Lossless
    <3> QED
      BY <1>5, <3>1 DEF Taken
  <2> QED
    BY <1>3, <2>1, <2>2, <2>3
<1>7. cli'.pipe = cli.pipe /\ cli'.said = cli.said
  BY <1>2, <1>3, KilledFields DEF Stored, SessionStored, UsageStored, WriteLost, GoesOn, Halts
<1>8. /\ turn.pc \in Late => turn'.pc \in Late
      /\ Open' => Open
      /\ turn'.pc \in Late /\ turn'.end = "done" => turn.pc \in Late /\ turn.end = "done"
  <2>1. /\ turn.pc \in {"pull", "await", "closing", "drain"} /\ turn'.end = turn.end
        /\ turn'.pc = IF Tail(turn.queue) # <<>> \/ turn.pc = "pull" THEN turn.pc
                      ELSE IF turn.pc = "drain" THEN "after"
                      ELSE IF turn.end = "none" THEN "pull" ELSE "closing"
        /\ turn.pc = "closing" => turn.end # "none"
    BY <1>1, QueueInTurn DEF Dequeued, RunInv, PhaseFits
  <2> QED
    BY <2>1 DEF Late, Open
<1> QED
  BY <1>6, <1>7, <1>8, OrderKept

LEMMA InOrderStep ==
  ASSUME RunInv, InOrder, [Next]_vars
  PROVE InOrder'
<1>1. /\ turn \in TurnRecord /\ log \in Seq(1 .. Message) /\ cli \in ProcessRecord
      /\ Arranged(log, turn.queue, turn.buffer)
  BY TextTyped DEF InOrder, OrderFits
<1>2. ASSUME cli'.pipe = cli.pipe, cli'.said = cli.said, log' = log, SameText(turn, turn'),
             turn'.lost = turn.lost, turn'.stop = "none" => turn.stop = "none",
             turn'.end = turn.end, turn'.pc = turn.pc
      PROVE InOrder'
  <2>1. Taken' = Taken
    BY <1>2 DEF Taken, SameText
  <2> QED
    BY <1>1, <1>2, <2>1, OrderKept DEF SameText, Lossless, Open
<1>3. ASSUME cli' = NoProcess, log' = <<>>, turn'.queue = <<>>, turn'.buffer = <<>>,
             turn'.pc \notin Late
      PROVE InOrder'
  BY <1>3, NoProcessTyped, NothingToRead, OrderEmpty
<1>4. CASE Turns
  <2>1. cli' = NoProcess /\ log' = <<>> /\ turn'.queue = <<>> /\ turn'.buffer = <<>> /\ turn'.pc = "opening"
    BY <1>4, StartsSteps, TakesOverSteps, ResumesSteps, StartsAfreshSteps, CurrentIs
       DEF Turns, NewTurn, Begun
  <2> QED
    BY <1>3, <2>1 DEF Late
<1>5. CASE Process
  <2>1. ASSUME NEW m \in Models, Working(m) PROVE InOrder'
    BY <1>2, <2>1 DEF Working, SameText
  <2> QED
    BY <1>5, <2>1, ProcessSteps, OutputInOrder
<1>6. CASE Others
  BY <1>2, <1>6, OthersSteps DEF RowCloses, IssueRaised, Reviewing, RetryMade, SameText, SamePhase
<1>7. CASE Opens
  <2>1. CASE TurnOver
    BY <1>3, <2>1, NoTurnTyped DEF TurnOver, Late
  <2>2. CASE ~TurnOver
    <3>1. /\ cli'.pipe = <<[t |-> "session"]>> /\ cli'.said = 0 /\ log' = log
          /\ SameText(turn, turn') /\ turn'.pc = "pull" /\ turn.pc = "opening"
      BY <1>7, <2>2, OpensSteps DEF SameText
    <3>2. log = <<>> /\ turn.queue = <<>> /\ turn.buffer = <<>>
      BY <3>1 DEF RunInv, PhaseFits
    <3>3. SaidIn(cli'.pipe) = {} /\ Follows(cli'.pipe)
      <4>1. PICK ev \in Event : ev = [t |-> "session"]
        BY DEF Event
      <4>2. SaidBy(ev) = {}
        BY <4>1, SaidByEvent
      <4> QED
        BY <3>1, <4>1, <4>2, OneSaid
    <3> QED
      BY <3>1, <3>2, <3>3, OrderEmpty DEF SameText, Late
  <2> QED
    BY <2>1, <2>2
<1>8. CASE Stopped
  <2>1. /\ cli' = cli /\ log' = log /\ SameText(turn, turn') /\ turn.pc = "pull" /\ turn'.pc = "closing"
        /\ turn'.stop # "none"
    BY <1>8, StoppedSteps
  <2>2. Taken' = Taken
    BY <2>1 DEF Taken, SameText
  <2> QED
    BY <1>1, <2>1, <2>2, OrderKept DEF SameText, Lossless, Open, Late
<1>9. CASE Flushes
  <2>1. /\ UNCHANGED <<cli, log>> /\ SamePhase(turn, turn') /\ SameFlags(turn, turn')
        /\ turn'.queue = turn.queue \o Flushed(turn) /\ turn'.buffer = <<>>
    BY <1>9, FlushSteps
  <2>2. Arranged(log', turn'.queue, turn'.buffer) /\ Taken' = Taken
    BY <1>1, <2>1, BufferFlushed DEF Taken
  <2> QED
    BY <2>1, <2>2, OrderKept DEF SamePhase, SameFlags, Lossless, Open
<1>10. CASE Hung \/ BlockingTimeout \/ Abort
  <2>1. /\ log' = log /\ SameText(turn, turn') /\ turn'.pc = turn.pc /\ turn'.end = turn.end
        /\ turn'.stop # "none" /\ turn'.lost = turn.lost /\ cli' = Killed(cli)
    BY <1>10, StopsSteps DEF SameFlags, Reasons
  <2> QED
    BY <1>1, <1>2, <2>1, KilledFields
<1>11. CASE TurnEnds
  BY <1>3, <1>11, TurnEndsSteps, NoTurnTyped DEF TurnOver, Late
<1>12. CASE UNCHANGED vars
  BY <1>2, <1>12 DEF vars, SameText
<1> QED
  BY <1>4, <1>5, <1>6, <1>7, <1>8, <1>9, <1>10, <1>11, <1>12, PullInOrder, ClosesInOrder,
     WritesInOrder DEF Next, Loop

-----------------------------------------------------------------------------
(* What a turn leaves behind                                               *)

LEMMA KeptInit == Init => KeptInv
<1> SUFFICES ASSUME Init PROVE KeptInv
  OBVIOUS
<1>1. RunInv
  BY InitRun
<1>2. TracksFit
  BY NoTurnTyped, NoProcessTyped DEF Init, TracksFit, AboutSubagent, Background
<1>3. OnlyTurnRuns
  BY NoTurnTyped DEF Init, OnlyTurnRuns
<1>4. OrderFits /\ NothingLost
  <2>1. log = <<>> /\ turn.queue = <<>> /\ turn.buffer = <<>> /\ cli.pipe = <<>> /\ cli.said = 0
        /\ turn.pc = "none"
    BY NoTurnTyped, NoProcessTyped DEF Init
  <2>2. Taken = {} /\ Unread = {} /\ Follows(cli.pipe)
    BY <2>1, RangeEmpty, WithinIs, NothingToRead DEF Taken, Unread
  <2>3. Arranged(log, turn.queue, turn.buffer)
    BY <2>1, RangeEmpty DEF Arranged, Before
  <2> QED
    BY <2>1, <2>2, <2>3 DEF OrderFits, NothingLost, Before
<1> QED
  BY <1>1, <1>2, <1>3, <1>4 DEF KeptInv

\* An ordered sequence is as long as its range is large.
LEMMA OrderedLen ==
  ASSUME NEW n \in Nat, NEW s \in Seq(1 .. n + 1), Ordered(s), NEW S, S = Range(s)
  PROVE IsFiniteSet(S) /\ Len(s) = Cardinality(S)
<1>1. PICK k \in Nat : k = Len(s) /\ DOMAIN s = 1 .. k
  OBVIOUS
<1>2. s \in [1 .. k -> S]
  BY <1>1, RangeIn
<1>3. \A i, j \in 1 .. k : s[i] = s[j] => i = j
  <2> SUFFICES ASSUME NEW i \in 1 .. k, NEW j \in 1 .. k, i # j PROVE s[i] # s[j]
    OBVIOUS
  <2>1. s[i] \in 1 .. n + 1 /\ s[j] \in 1 .. n + 1
    BY <1>1
  <2>2. i < j \/ j < i
    OBVIOUS
  <2> QED
    BY <1>1, <2>1, <2>2 DEF Ordered
<1>4. \A x \in S : \E i \in 1 .. k : s[i] = x
  BY <1>1 DEF Range
<1>5. s \in Bijection(1 .. k, S)
  BY <1>2, <1>3, <1>4 DEF Bijection, Injection, Surjection, IsInjective
<1>6. IsFiniteSet(1 .. k) /\ Cardinality(1 .. k) = k
  <2>1. 1 \in Int /\ k \in Int
    OBVIOUS
  <2>2. IsFiniteSet(1 .. k) /\ Cardinality(1 .. k) = IF 1 > k THEN 0 ELSE k - 1 + 1
    BY <2>1, FS_Interval
  <2> QED
    BY <2>2
<1>7. Cardinality(1 .. k) = Cardinality(S) /\ IsFiniteSet(S)
  BY <1>5, <1>6, FS_Bijection DEF ExistsBijection
<1> QED
  BY <1>1, <1>6, <1>7

LEMMA KeptMeans ==
  ASSUME KeptInv
  PROVE TurnIsKept
<1>1. /\ RunInv /\ TracksFit /\ OnlyTurnRuns /\ OrderFits /\ NothingLost
  BY DEF KeptInv
<1>2. /\ log \in Seq(1 .. Message) /\ cli.said \in 0 .. MaxSaid /\ MaxSaid \in Nat
      /\ Message = MaxSaid + 1
  BY <1>1, TextTyped
<1>3. ASSUME turn.pc = "after", turn.end = "done", turn.stop = "none", ~turn.lost
      PROVE Len(log) = cli.said + 1
  <2>1. turn.queue = <<>> /\ turn.buffer = <<>> /\ cli.pipe = <<>>
    BY <1>1, <1>3 DEF RunInv, PhaseFits, AllRead
  <2>2. Taken = Range(log) /\ Unread = {}
    BY <2>1, RangeEmpty, WithinIs, NothingToRead DEF Taken, Unread
  <2>3. Range(log) = (1 .. cli.said) \cup {Message}
    BY <1>1, <1>3, <2>2 DEF OrderFits, NothingLost, Lossless
  <2>4. IsFiniteSet(Range(log)) /\ Len(log) = Cardinality(Range(log))
    BY <1>1, <1>2, OrderedLen DEF OrderFits, Arranged
  <2>5. IsFiniteSet(1 .. cli.said) /\ Cardinality(1 .. cli.said) = cli.said /\ Message \notin 1 .. cli.said
    <3>1. 1 \in Int /\ cli.said \in Int /\ cli.said \in Nat
      BY <1>2
    <3>2. IsFiniteSet(1 .. cli.said) /\ Cardinality(1 .. cli.said) = IF 1 > cli.said THEN 0 ELSE cli.said - 1 + 1
      BY <3>1, FS_Interval
    <3> QED
      BY <1>2, <3>1, <3>2
  <2>6. Cardinality((1 .. cli.said) \cup {Message}) = cli.said + 1
    BY <2>5, FS_AddElement
  <2> QED
    BY <2>3, <2>4, <2>6
<1>4. KeepsOrder
  BY <1>1, <1>3 DEF KeepsOrder, OrderFits, Arranged, Ordered
<1>5. BackgroundIsCounted
  <2> SUFFICES ASSUME turn.end = "done" PROVE turn.tracked <=> Background
    BY DEF BackgroundIsCounted, Background
  <2>1. cli.pipe = <<>>
    BY <1>1 DEF RunInv, PhaseFits, AllRead
  <2>2. AboutSubagent = {}
    BY <2>1 DEF AboutSubagent
  <2> QED
    BY <1>1, <2>2 DEF TracksFit
<1>6. NotStranded
  BY <1>1 DEF NotStranded, OnlyTurnRuns
<1> QED
  BY <1>4, <1>5, <1>6 DEF TurnIsKept

\* TurnsAreKept (runner.ts, afterTurn and flush; claude.ts, trackSubagentTask): of every
\* turn, whatever it says, however it ends and whenever it is stopped, the events are
\* stored in their order, all of them when it ended by itself; the subagents it is said
\* to have left running are those it did; and no implementation is left RUNNING.
THEOREM TurnsAreKept == Spec => []TurnIsKept
<1>1. Init => KeptInv
  BY KeptInit
<1>2. KeptInv /\ [Next]_vars => KeptInv'
  BY RunStep, TracksFitStep, OnlyTurnRunsStep, InOrderStep DEF KeptInv, InOrder
<1>3. KeptInv => TurnIsKept
  BY KeptMeans
<1> QED
  BY <1>1, <1>2, <1>3, PTL DEF Spec

-----------------------------------------------------------------------------
(* The usage that waits to be written                                      *)

NoUsage(q) == \A i \in DOMAIN q : q[i].t # "usage"

LEMMA NoUsageWaits ==
  ASSUME NEW q \in Seq(Write), NoUsage(q), NEW m
  PROVE Unwritten(q, m) = 0 /\ UnwrittenCost(q) = 0
<1>1. q # <<>> => Len(q) \in DOMAIN q
  OBVIOUS
<1> QED
  BY <1>1 DEF NoUsage, Unwritten, UnwrittenCost, UsageWaits, LastOf

LEMMA NoUsageMore ==
  ASSUME NEW q \in Seq(Write), NEW u \in Seq(Write), NoUsage(q), NoUsage(u)
  PROVE q \o u \in Seq(Write) /\ NoUsage(q \o u)
<1>1. \A i \in DOMAIN (q \o u) : (q \o u)[i].t # "usage"
  <2> SUFFICES ASSUME NEW i \in DOMAIN (q \o u) PROVE (q \o u)[i].t # "usage"
    OBVIOUS
  <2>1. CASE i \in DOMAIN q
    BY <2>1, ConcatAt DEF NoUsage
  <2>2. CASE i - Len(q) \in DOMAIN u /\ i = Len(q) + (i - Len(q))
    <3>1. (q \o u)[i] = u[i - Len(q)]
      BY <2>2, ConcatAt
    <3> QED
      BY <2>2, <3>1 DEF NoUsage
  <2> QED
    BY <2>1, <2>2, ConcatAt
<1> QED
  BY <1>1, ConcatProperties DEF NoUsage

LEMMA NoUsageFlushed ==
  ASSUME NEW t \in TurnRecord
  PROVE Flushed(t) \in Seq(Write) /\ NoUsage(Flushed(t))
<1>1. CASE t.buffer = <<>>
  BY <1>1, FlushedWrites DEF NoUsage
<1>2. CASE t.buffer # <<>>
  <2>1. PICK w : w = [t |-> "text", ns |-> t.buffer] /\ Flushed(t) = <<w>>
    BY <1>2, FlushedWrites
  <2>2. DOMAIN <<w>> = {1} /\ <<w>>[1].t = "text"
    BY <2>1
  <2> QED
    BY <2>1, <2>2, FlushedWrites DEF NoUsage
<1> QED
  BY <1>1, <1>2

LEMMA NoUsageOne ==
  ASSUME NEW w \in Write, w.t # "usage"
  PROVE <<w>> \in Seq(Write) /\ NoUsage(<<w>>)
<1>1. <<w>> \in Seq(Write) /\ DOMAIN <<w>> = {1} /\ <<w>>[1] = w
  OBVIOUS
<1> QED
  BY <1>1 DEF NoUsage

\* The usage comes after all the rest.
LEMMA UsageQueued ==
  ASSUME NEW q \in Seq(Write), NoUsage(q), NEW w \in Counts
  PROVE LET p == q \o <<w>> IN
        /\ p \in Seq(Write) /\ p # <<>>
        /\ \A i \in DOMAIN p : p[i].t = "usage" => i = Len(p) /\ p[i] = w
        /\ \A m : Unwritten(p, m) = IF w.m = m THEN w.n ELSE 0
        /\ UnwrittenCost(p) = w.c
<1> DEFINE p == q \o <<w>>
<1>1. PICK n \in Nat : n = Len(q)
  OBVIOUS
<1>2. w \in Write /\ w.t = "usage"
  BY DEF Write, Counts
<1>3. <<w>> \in Seq(Write) /\ Len(<<w>>) = 1 /\ DOMAIN <<w>> = {1} /\ <<w>>[1] = w
  BY <1>2
<1>4. /\ p \in Seq(Write) /\ DOMAIN q = 1 .. n /\ DOMAIN p = 1 .. n + 1 /\ Len(p) = n + 1
      /\ \A i \in 1 .. n : p[i] = q[i]
      /\ p[n + 1] = w
  BY <1>1, <1>3, ConcatAt
<1> HIDE DEF p
<1>5. p # <<>>
  BY <1>4
<1>6. \A i \in 1 .. n + 1 : p[i].t = "usage" => i = n + 1
  BY <1>4 DEF NoUsage
<1>7. UsageWaits(p) /\ LastOf(p) = w
  BY <1>2, <1>4, <1>5 DEF UsageWaits, LastOf
<1> QED
  BY <1>4, <1>5, <1>6, <1>7 DEF Unwritten, UnwrittenCost, p

\* The head of the queue is done with.
LEMMA UsageDequeued ==
  ASSUME NEW q \in Seq(Write), q # <<>>,
         \A i \in DOMAIN q : q[i].t = "usage" => i = Len(q)
  PROVE /\ \A i \in DOMAIN Tail(q) :
             /\ i + 1 \in DOMAIN q /\ Tail(q)[i] = q[i + 1]
             /\ Tail(q)[i].t = "usage" => i = Len(Tail(q))
        /\ Head(q).t # "usage" =>
             \A m : /\ Unwritten(Tail(q), m) = Unwritten(q, m)
                    /\ UnwrittenCost(Tail(q)) = UnwrittenCost(q)
        /\ Head(q).t = "usage" =>
             /\ Tail(q) = <<>>
             /\ \A m : /\ Unwritten(q, m) = IF Head(q).m = m THEN Head(q).n ELSE 0
                       /\ UnwrittenCost(q) = Head(q).c
                       /\ Unwritten(Tail(q), m) = 0 /\ UnwrittenCost(Tail(q)) = 0
<1>1. PICK n \in Nat \ {0} : n = Len(q)
  BY TailAt
<1>2. /\ DOMAIN q = 1 .. n /\ DOMAIN Tail(q) = 1 .. n - 1 /\ q[1] = Head(q) /\ 1 \in 1 .. n
      /\ Tail(q) \in Seq(Write) /\ Len(Tail(q)) = n - 1
      /\ \A i \in 1 .. n - 1 : i + 1 \in 1 .. n /\ Tail(q)[i] = q[i + 1]
  BY <1>1, TailAt
<1>3. \A i \in 1 .. n - 1 : Tail(q)[i].t = "usage" => i = n - 1
  <2> SUFFICES ASSUME NEW i \in 1 .. n - 1, Tail(q)[i].t = "usage" PROVE i = n - 1
    OBVIOUS
  <2>1. i + 1 = n
    BY <1>1, <1>2
  <2> QED
    BY <2>1
<1>4. CASE n = 1
  <2>1. Tail(q) = <<>> /\ LastOf(q) = Head(q)
    BY <1>1, <1>2, <1>4 DEF LastOf
  <2> QED
    BY <1>1, <1>2, <1>3, <2>1 DEF Unwritten, UnwrittenCost, UsageWaits
<1>5. CASE n # 1
  <2>1. Head(q).t # "usage"
    BY <1>1, <1>2, <1>5
  <2>2. Tail(q) # <<>> /\ n - 1 \in 1 .. n - 1
    BY <1>2, <1>5
  <2>3. LastOf(Tail(q)) = LastOf(q)
    <3>1. Tail(q)[n - 1] = q[(n - 1) + 1] /\ (n - 1) + 1 = n
      BY <1>2, <2>2
    <3> QED
      BY <1>1, <1>2, <3>1 DEF LastOf
  <2> QED
    BY <1>1, <1>2, <1>3, <2>1, <2>2, <2>3 DEF Unwritten, UnwrittenCost, UsageWaits
<1> QED
  BY <1>4, <1>5

\* Nothing waits but while the loop waits.
LEMMA NoneWaits ==
  ASSUME RunInv, OneUsageWaits, turn.pc # "await"
  PROVE /\ turn.queue \in Seq(Write) /\ NoUsage(turn.queue)
        /\ UnwrittenCost(turn.queue) = 0 /\ \A m : Unwritten(turn.queue, m) = 0
<1>1. turn.queue \in Seq(Write) /\ NoUsage(turn.queue)
  BY QueueTyped DEF OneUsageWaits, NoUsage
<1> QED
  BY <1>1, NoUsageWaits

\* What follows from a queue without usage
LEMMA NoneWaitsNext ==
  ASSUME turn'.queue \in Seq(Write), NoUsage(turn'.queue)
  PROVE /\ OneUsageWaits'
        /\ UnwrittenCost(turn'.queue) = 0 /\ \A m : Unwritten(turn'.queue, m) = 0
<1>1. OneUsageWaits'
  BY DEF NoUsage, OneUsageWaits
<1> QED
  BY <1>1, NoUsageWaits

LEMMA EmptyQueue == <<>> \in Seq(Write) /\ NoUsage(<<>>)
BY DEF NoUsage

LEMMA FlushWaits ==
  ASSUME RunInv, OneUsageWaits, Flushes
  PROVE OneUsageWaits' /\ NoUsage(turn'.queue) /\ turn'.queue \in Seq(Write)
<1>1. turn.pc = "pull" /\ turn'.queue = turn.queue \o Flushed(turn) /\ turn \in TurnRecord
  BY FlushSteps, QueueTyped
<1>2. turn'.queue \in Seq(Write) /\ NoUsage(turn'.queue)
  BY <1>1, NoneWaits, NoUsageFlushed, NoUsageMore
<1> QED
  BY <1>2, NoneWaitsNext

LEMMA ClosesWaits ==
  ASSUME RunInv, OneUsageWaits, Closes
  PROVE OneUsageWaits' /\ NoUsage(turn'.queue) /\ turn'.queue \in Seq(Write)
<1>1. PICK more \in Seq(Write) :
        turn.pc = "closing" /\ Closing(more) /\ turn'.queue = turn.queue \o more
  BY ClosesSteps
<1>2. NoUsage(more)
  <2>1. turn \in TurnRecord /\ Flushed(turn) \in Seq(Write) /\ NoUsage(Flushed(turn))
    BY QueueTyped, NoUsageFlushed
  <2>2. PICK w : w = [t |-> "call", n |-> Message]
    OBVIOUS
  <2>3. w \in Write /\ w.t # "usage"
    <3>1. MaxSaid \in Nat /\ Message = MaxSaid + 1
      BY Constants
    <3>2. Message \in 1 .. Message
      BY <3>1
    <3> QED
      BY <2>2, <3>2 DEF Write
  <2>4. <<w>> \in Seq(Write) /\ NoUsage(<<w>>)
    BY <2>3, NoUsageOne
  <2>5. \A message : message = (IF turn.spoke \/ turn.end = "done" THEN <<w>> ELSE <<>>) =>
          NoUsage(Flushed(turn) \o message)
    BY <2>1, <2>4, EmptyQueue, NoUsageMore
  <2> QED
    BY <1>1, <2>2, <2>5, EmptyQueue DEF Closing
<1>3. turn'.queue \in Seq(Write) /\ NoUsage(turn'.queue)
  BY <1>1, <1>2, NoneWaits, NoUsageMore
<1> QED
  BY <1>3, NoneWaitsNext

\* A write is taken from the queue.
LEMMA DequeuedWaits ==
  ASSUME RunInv, OneUsageWaits, Dequeued
  PROVE LET w == Head(turn.queue) IN
        /\ OneUsageWaits' /\ w \in Write
        /\ w.t # "usage" => /\ \A m : Unwritten(turn'.queue, m) = Unwritten(turn.queue, m)
                            /\ UnwrittenCost(turn'.queue) = UnwrittenCost(turn.queue)
        /\ w.t = "usage" =>
             /\ turn.pc = "await" /\ w \in Counts /\ (runtime = "codex" => w.m = 1)
             /\ \A m : Unwritten(turn.queue, m) = IF w.m = m THEN w.n ELSE 0
             /\ \A m : Unwritten(turn'.queue, m) = 0
             /\ UnwrittenCost(turn.queue) = w.c /\ UnwrittenCost(turn'.queue) = 0
<1> DEFINE w == Head(turn.queue)
<1>1. /\ turn.queue # <<>> /\ turn.queue \in Seq(Write) /\ turn'.queue = Tail(turn.queue)
      /\ w \in Write /\ w = turn.queue[1] /\ 1 \in DOMAIN turn.queue
      /\ runtime' = runtime
      /\ turn'.queue # <<>> => turn'.pc = turn.pc
  BY QueueTyped DEF Dequeued
<1>2. \A i \in DOMAIN turn.queue : turn.queue[i].t = "usage" => i = Len(turn.queue)
  BY DEF OneUsageWaits
<1>3. \A i \in DOMAIN turn'.queue :
        /\ i + 1 \in DOMAIN turn.queue /\ turn'.queue[i] = turn.queue[i + 1]
        /\ turn'.queue[i].t = "usage" => i = Len(turn'.queue)
  BY <1>1, <1>2, UsageDequeued
<1>4. OneUsageWaits'
  <2>1. \A i \in DOMAIN turn'.queue : turn'.queue # <<>>
    OBVIOUS
  <2> QED
    BY <1>1, <1>3, <2>1 DEF OneUsageWaits
<1>5. w.t = "usage" => turn.pc = "await" /\ (runtime = "codex" => w.m = 1)
  BY <1>1 DEF OneUsageWaits
<1>6. /\ w.t # "usage" =>
           \A m : /\ Unwritten(Tail(turn.queue), m) = Unwritten(turn.queue, m)
                  /\ UnwrittenCost(Tail(turn.queue)) = UnwrittenCost(turn.queue)
      /\ w.t = "usage" =>
           /\ Tail(turn.queue) = <<>>
           /\ \A m : /\ Unwritten(turn.queue, m) = IF w.m = m THEN w.n ELSE 0
                     /\ UnwrittenCost(turn.queue) = w.c
                     /\ Unwritten(Tail(turn.queue), m) = 0 /\ UnwrittenCost(Tail(turn.queue)) = 0
  BY <1>1, <1>2, UsageDequeued
<1>7. w.t = "usage" => w \in Counts
  BY <1>1, WriteFields
<1> HIDE DEF w
<1> QED
  BY <1>1, <1>4, <1>5, <1>6, <1>7 DEF w

-----------------------------------------------------------------------------
(* The usage that is still to be read                                      *)

LEMMA NothingReported ==
  ASSUME NEW pipe, NoUsage(pipe), NEW f
  PROVE UsageReports(pipe, f) /\ ~CostToRead(pipe) /\ \A m : ~ToRead(pipe, m)
<1>1. UsageIn(pipe) = {}
  BY DEF NoUsage, UsageIn
<1> QED
  BY <1>1 DEF UsageReports, CostToRead, ToRead

\* One event is read.
LEMMA ReportsTail ==
  ASSUME NEW pipe \in Seq(Event), pipe # <<>>, NEW f, UsageReports(pipe, f)
  PROVE LET ev == Head(pipe) IN
        /\ ev \in Event /\ UsageReports(Tail(pipe), f)
        /\ ev.t # "usage" => /\ \A m : ToRead(Tail(pipe), m) <=> ToRead(pipe, m)
                             /\ CostToRead(Tail(pipe)) <=> CostToRead(pipe)
        /\ ev.t = "usage" =>
             /\ ev.n = f[ev.m] /\ ev.c \in {0, Total(f)} /\ (runtime = "codex" => ev.m = 1 /\ ev.c = 0)
             /\ ToRead(pipe, ev.m) /\ ~ToRead(Tail(pipe), ev.m)
             /\ \A m : m # ev.m => (ToRead(Tail(pipe), m) <=> ToRead(pipe, m))
             /\ ev.c # 0 => CostToRead(pipe) /\ ~CostToRead(Tail(pipe))
             /\ ev.c = 0 => (CostToRead(Tail(pipe)) <=> CostToRead(pipe))
<1> DEFINE ev == Head(pipe)
           rest == Tail(pipe)
<1>1. /\ ev \in Event /\ 1 \in DOMAIN pipe /\ pipe[1] = ev
      /\ \A i \in DOMAIN rest : i + 1 \in DOMAIN pipe /\ rest[i] = pipe[i + 1]
      /\ \A i \in DOMAIN pipe \ {1} : i - 1 \in DOMAIN rest /\ rest[i - 1] = pipe[i]
      /\ DOMAIN rest \subseteq Nat \ {0} /\ DOMAIN pipe \subseteq Nat \ {0}
  BY TailAt
<1> HIDE DEF ev, rest
<1>2. /\ \A i \in UsageIn(rest) : i + 1 \in UsageIn(pipe) /\ rest[i] = pipe[i + 1] /\ i + 1 # 1
                                  /\ i \in Nat
      /\ \A i \in UsageIn(pipe) \ {1} : i - 1 \in UsageIn(rest) /\ rest[i - 1] = pipe[i]
      /\ 1 \in UsageIn(pipe) <=> ev.t = "usage"
  BY <1>1 DEF UsageIn
<1>3. UsageReports(rest, f)
  <2>1. \A i, j \in UsageIn(rest) : i # j => i + 1 # j + 1
    BY <1>2
  <2> QED
    BY <1>2, <2>1 DEF UsageReports
<1>4. /\ \A m : ToRead(rest, m) <=> \E i \in UsageIn(pipe) \ {1} : pipe[i].m = m
      /\ CostToRead(rest) <=> \E i \in UsageIn(pipe) \ {1} : pipe[i].c # 0
  <2>1. \A m : ToRead(rest, m) => \E i \in UsageIn(pipe) \ {1} : pipe[i].m = m
    BY <1>2 DEF ToRead
  <2>2. CostToRead(rest) => \E i \in UsageIn(pipe) \ {1} : pipe[i].c # 0
    BY <1>2 DEF CostToRead
  <2>3. ASSUME NEW i \in UsageIn(pipe) \ {1}
        PROVE ToRead(rest, pipe[i].m) /\ (pipe[i].c # 0 => CostToRead(rest))
    BY <1>2 DEF ToRead, CostToRead
  <2> QED
    BY <2>1, <2>2, <2>3
<1>5. CASE ev.t # "usage"
  BY <1>1, <1>2, <1>3, <1>4, <1>5 DEF ToRead, CostToRead, ev, rest
<1>6. CASE ev.t = "usage"
  <2>1. 1 \in UsageIn(pipe)
    BY <1>2, <1>6
  <2>2. \A j \in UsageIn(pipe) \ {1} : pipe[j].m # ev.m /\ (pipe[j].c = 0 \/ ev.c = 0)
    BY <1>1, <2>1 DEF UsageReports
  <2>3. ev.n = f[ev.m] /\ ev.c \in {0, Total(f)} /\ (runtime = "codex" => ev.m = 1 /\ ev.c = 0)
    BY <1>1, <2>1 DEF UsageReports
  <2>4. /\ ToRead(pipe, ev.m) /\ ~ToRead(rest, ev.m)
        /\ \A m : m # ev.m => (ToRead(rest, m) <=> ToRead(pipe, m))
    BY <1>1, <1>4, <2>1, <2>2 DEF ToRead
  <2>5. /\ ev.c # 0 => CostToRead(pipe) /\ ~CostToRead(rest)
        /\ ev.c = 0 => (CostToRead(rest) <=> CostToRead(pipe))
    BY <1>1, <1>4, <2>1, <2>2 DEF CostToRead
  <2> QED
    BY <1>1, <1>3, <1>6, <2>3, <2>4, <2>5 DEF ev, rest
<1> QED
  BY <1>5, <1>6

\* The usage of a turn that ends is what is to be read after all that it said.
LEMMA ReportsNew ==
  ASSUME NEW pipe \in Seq(Event), NoUsage(pipe), NEW U \in Seq(Counts), NEW ev \in Event,
         ev.t # "usage", NEW f,
         \A i \in 1 .. Len(U) :
           /\ U[i].n = f[U[i].m] /\ U[i].c \in {0, Total(f)}
           /\ runtime = "codex" => U[i].m = 1 /\ U[i].c = 0
           /\ \A j \in 1 .. Len(U) : i # j => U[i].m # U[j].m /\ (U[i].c = 0 \/ U[j].c = 0)
  PROVE LET p == pipe \o (U \o <<ev>>) IN
        /\ UsageReports(p, f)
        /\ \A i \in 1 .. Len(U) : ToRead(p, U[i].m) /\ (U[i].c # 0 => CostToRead(p))
<1> DEFINE x == U \o <<ev>>
           p == pipe \o x
<1>1. PICK n \in Nat, k \in Nat : n = Len(pipe) /\ k = Len(U) /\ U \in Seq(Event)
  <2>1. Counts \subseteq Event
    BY DEF Event
  <2>2. U \in Seq(Event)
    BY <2>1, SeqMonotonic
  <2> QED
    BY <2>2
<1>2. /\ x \in Seq(Event) /\ DOMAIN x = 1 .. k + 1 /\ \A i \in 1 .. k : x[i] = U[i]
      /\ x[k + 1] = ev /\ Len(x) = k + 1
  <2>1. <<ev>> \in Seq(Event) /\ Len(<<ev>>) = 1 /\ DOMAIN <<ev>> = {1} /\ <<ev>>[1] = ev
    OBVIOUS
  <2> QED
    BY <1>1, <2>1, ConcatAt
<1> HIDE DEF x
<1>3. /\ p \in Seq(Event) /\ DOMAIN p = 1 .. n + (k + 1) /\ DOMAIN pipe = 1 .. n
      /\ \A i \in 1 .. n : p[i] = pipe[i]
      /\ \A i \in 1 .. k + 1 : p[n + i] = x[i]
  <2>1. x \in Seq(Event)
    BY <1>2
  <2>2. /\ p \in Seq(Event) /\ DOMAIN p = 1 .. Len(pipe) + Len(x) /\ DOMAIN pipe = 1 .. Len(pipe)
        /\ \A i \in DOMAIN pipe : p[i] = pipe[i]
        /\ \A i \in DOMAIN x : p[Len(pipe) + i] = x[i]
    BY <2>1, ConcatAt
  <2> QED
    BY <1>1, <1>2, <2>2
<1> HIDE DEF p
<1>4. \A i \in 1 .. k : U[i] \in Counts /\ U[i].t = "usage"
  <2>1. \A i \in 1 .. k : U[i] \in Counts
    BY <1>1
  <2> QED
    BY <2>1 DEF Counts
<1>5. \A i \in 1 .. k : n + i \in UsageIn(p) /\ p[n + i] = U[i]
  <2> SUFFICES ASSUME NEW i \in 1 .. k PROVE n + i \in UsageIn(p) /\ p[n + i] = U[i]
    OBVIOUS
  <2>1. i \in 1 .. k + 1 /\ n + i \in 1 .. n + (k + 1)
    OBVIOUS
  <2> QED
    BY <1>2, <1>3, <1>4, <2>1 DEF UsageIn
<1>6. \A i \in UsageIn(p) : i \in Nat /\ i - n \in 1 .. k /\ p[i] = U[i - n]
  <2> SUFFICES ASSUME NEW i \in 1 .. n + (k + 1), p[i].t = "usage"
      PROVE i - n \in 1 .. k /\ p[i] = U[i - n]
    BY <1>3 DEF UsageIn
  <2>1. CASE i <= n
    <3>1. i \in 1 .. n
      BY <2>1
    <3> QED
      BY <1>3, <3>1 DEF NoUsage
  <2>2. CASE i = n + (k + 1)
    <3>1. k + 1 \in 1 .. k + 1
      OBVIOUS
    <3> QED
      BY <1>2, <1>3, <2>2, <3>1
  <2>3. CASE i > n /\ i # n + (k + 1)
    <3>1. i - n \in 1 .. k /\ n + (i - n) = i
      BY <2>3
    <3> QED
      BY <1>5, <3>1
  <2> QED
    BY <2>1, <2>2, <2>3
<1>7. UsageReports(p, f)
  <2>1. \A i, j \in UsageIn(p) : i # j => i - n # j - n
    BY <1>6
  <2> QED
    BY <1>1, <1>6, <2>1 DEF UsageReports
<1>8. \A i \in 1 .. k : ToRead(p, U[i].m) /\ (U[i].c # 0 => CostToRead(p))
  BY <1>5 DEF ToRead, CostToRead
<1> QED
  BY <1>1, <1>7, <1>8 DEF p, x

\* While the process runs nothing is reported, and then all that it counted.
LEMMA OutputReads ==
  ASSUME RunInv, NEW X, Output(X)
  PROVE /\ InTurn /\ turn.s \in Sessions /\ counted[turn.s] \in [Models -> Nat]
        /\ MoreComes /\ ~Finished /\ NoUsage(cli.pipe)
        /\ UsageFits'
        /\ Finished' =>
             /\ \A m \in Models : ~ToRead(cli'.pipe, m) /\ (runtime = "codex" => m = 1) =>
                                    counted[turn.s][m] = 0
             /\ runtime = "claude" /\ ~CostToRead(cli'.pipe) => Total(counted[turn.s]) = 0
<1>1. /\ InTurn /\ turn.end = "none" /\ cli.on /\ cli.pipe \in Seq(Event)
      /\ X \in Seq(Event) /\ cli'.pipe = cli.pipe \o X
      /\ turn' = turn /\ counted' = counted /\ runtime' = runtime
  BY DEF RunInv, RunOK, PhaseFits, ProcessRecord, Output, Open, InTurn
<1>2. turn.s \in Sessions /\ counted[turn.s] \in [Models -> Nat]
  BY <1>1, TurnSession DEF RunInv, TypeOK
<1>3. /\ NoUsage(cli.pipe) /\ MoreComes
      /\ \A i \in DOMAIN cli.pipe : cli.pipe[i].t # "done"
  BY <1>1 DEF RunInv, PhaseFits, NoUsage, MoreComes, Finals
<1>4. ~Finished
  BY <1>1, <1>3 DEF Finished
<1> DEFINE f == counted[turn.s]
           Told == /\ UsageReports(cli'.pipe, f)
                   /\ Finished' =>
                        /\ \A m \in Models : ~ToRead(cli'.pipe, m) /\ (runtime = "codex" => m = 1) =>
                                               f[m] = 0
                        /\ runtime = "claude" /\ ~CostToRead(cli'.pipe) => Total(f) = 0
<1>5. ASSUME NEW ev \in Event, ev.t \notin {"usage", "done"}, X = <<ev>> PROVE Told
  <2>1. /\ DOMAIN X = {1} /\ X[1] = ev
    BY <1>5
  <2>2. \A i \in DOMAIN cli'.pipe : cli'.pipe[i].t \notin {"usage", "done"}
    <3> SUFFICES ASSUME NEW i \in DOMAIN cli'.pipe PROVE cli'.pipe[i].t \notin {"usage", "done"}
      OBVIOUS
    <3>1. \/ i \in DOMAIN cli.pipe /\ cli'.pipe[i] = cli.pipe[i]
          \/ cli'.pipe[i] = ev
      <4>1. CASE i \in DOMAIN cli.pipe
        BY <1>1, <4>1, ConcatAt
      <4>2. CASE i - Len(cli.pipe) \in DOMAIN X /\ i = Len(cli.pipe) + (i - Len(cli.pipe))
        <5>1. cli'.pipe[i] = X[i - Len(cli.pipe)]
          BY <1>1, <4>2, ConcatAt
        <5> QED
          BY <2>1, <4>2, <5>1
      <4> QED
        BY <1>1, <4>1, <4>2, ConcatAt
    <3> QED
      BY <1>3, <1>5, <3>1 DEF NoUsage
  <2>3. NoUsage(cli'.pipe)
    BY <2>2 DEF NoUsage
  <2>4. ~Finished'
    BY <1>1, <2>2 DEF Finished
  <2> QED
    BY <2>3, <2>4, NothingReported
<1>6. ASSUME NEW U \in Seq(Counts), NEW ev \in Event, X = U \o <<ev>>, ev.t # "usage",
             NEW order \in Bijection(1 .. Cardinality(Used), Used), U = ClaudeUsage(order),
             runtime = "claude"
      PROVE Told
  <2>1. PICK k \in Nat : k = Len(U)
    OBVIOUS
  <2>2. /\ order \in [1 .. k -> Used] /\ Used \subseteq Models
        /\ \A i, j \in 1 .. k : order[i] = order[j] => i = j
        /\ \A m \in Used : \E i \in 1 .. k : order[i] = m
        /\ \A i \in 1 .. k : U[i] = [t |-> "usage", m |-> order[i], n |-> f[order[i]],
                                     c |-> IF i = 1 THEN Total(f) ELSE 0]
    BY <1>2, <1>6, <2>1, ClaudeReports, UsedFinite
  <2> HIDE DEF f
  <2>3. \A i \in 1 .. k : /\ U[i].m = order[i] /\ U[i].n = f[order[i]]
                          /\ U[i].c = IF i = 1 THEN Total(f) ELSE 0
    <3> SUFFICES ASSUME NEW i \in 1 .. k
        PROVE /\ U[i].m = order[i] /\ U[i].n = f[order[i]]
              /\ U[i].c = IF i = 1 THEN Total(f) ELSE 0
      OBVIOUS
    <3>1. PICK c : c = IF i = 1 THEN Total(f) ELSE 0
      OBVIOUS
    <3>2. U[i] = [t |-> "usage", m |-> order[i], n |-> f[order[i]], c |-> c]
      BY <2>2, <3>1
    <3> QED
      BY <3>1, <3>2
  <2>4. \A i \in 1 .. k :
          /\ U[i].n = f[U[i].m] /\ U[i].c \in {0, Total(f)}
          /\ \A j \in 1 .. k : i # j => U[i].m # U[j].m /\ (U[i].c = 0 \/ U[j].c = 0)
    BY <2>2, <2>3
  <2>5. /\ UsageReports(cli'.pipe, f)
        /\ \A i \in 1 .. k : ToRead(cli'.pipe, U[i].m) /\ (U[i].c # 0 => CostToRead(cli'.pipe))
    <3>1. \A i \in 1 .. Len(U) :
            /\ U[i].n = f[U[i].m] /\ U[i].c \in {0, Total(f)}
            /\ runtime = "codex" => U[i].m = 1 /\ U[i].c = 0
            /\ \A j \in 1 .. Len(U) : i # j => U[i].m # U[j].m /\ (U[i].c = 0 \/ U[j].c = 0)
      BY <1>6, <2>1, <2>4
    <3>2. cli.pipe \in Seq(Event) /\ NoUsage(cli.pipe) /\ cli'.pipe = cli.pipe \o (U \o <<ev>>)
      BY <1>1, <1>3, <1>6
    <3>3. LET p == cli.pipe \o (U \o <<ev>>) IN
          /\ UsageReports(p, f)
          /\ \A i \in 1 .. Len(U) : ToRead(p, U[i].m) /\ (U[i].c # 0 => CostToRead(p))
      <4>1. U \in Seq(Counts) /\ ev \in Event /\ ev.t # "usage"
        BY <1>6
      <4> QED
        BY <3>1, <3>2, <4>1, ReportsNew
    <3> QED
      BY <2>1, <3>2, <3>3
  <2>6. ASSUME NEW m \in Models, f[m] # 0 PROVE m \in Used /\ ToRead(cli'.pipe, m) /\ 1 \in 1 .. k
    <3>1. m \in Used
      BY <1>2, <2>6 DEF Used, f
    <3>2. PICK i \in 1 .. k : order[i] = m
      BY <2>2, <3>1
    <3> QED
      BY <2>3, <2>5, <3>1, <3>2
  <2>7. Total(f) # 0 => CostToRead(cli'.pipe)
    <3>1. Total(f) # 0 => \E m \in Models : f[m] # 0
      BY <1>2, TotalOfNone DEF f
    <3>2. Total(f) # 0 => 1 \in 1 .. k
      BY <2>6, <3>1
    <3> QED
      BY <2>3, <2>5, <3>2
  <2> QED
    BY <2>5, <2>6, <2>7
<1>7. ASSUME NEW U \in Seq(Counts), NEW ev \in Event, X = U \o <<ev>>, ev.t # "usage",
             U = CodexUsage, runtime = "codex"
      PROVE Told
  <2>1. /\ Len(U) = 1 /\ U[1] = [t |-> "usage", m |-> 1, n |-> f[1], c |-> 0]
    BY <1>7 DEF CodexUsage
  <2> HIDE DEF f
  <2>2. U[1].m = 1 /\ U[1].n = f[1] /\ U[1].c = 0 /\ \A i \in 1 .. Len(U) : i = 1
    BY <2>1
  <2>3. /\ UsageReports(cli'.pipe, f)
        /\ \A i \in 1 .. Len(U) : ToRead(cli'.pipe, U[i].m)
    <3>1. \A i \in 1 .. Len(U) :
            /\ U[i].n = f[U[i].m] /\ U[i].c \in {0, Total(f)}
            /\ runtime = "codex" => U[i].m = 1 /\ U[i].c = 0
            /\ \A j \in 1 .. Len(U) : i # j => U[i].m # U[j].m /\ (U[i].c = 0 \/ U[j].c = 0)
      BY <2>2
    <3>2. cli.pipe \in Seq(Event) /\ NoUsage(cli.pipe) /\ cli'.pipe = cli.pipe \o (U \o <<ev>>)
      BY <1>1, <1>3, <1>7
    <3>3. LET p == cli.pipe \o (U \o <<ev>>) IN
          /\ UsageReports(p, f)
          /\ \A i \in 1 .. Len(U) : ToRead(p, U[i].m) /\ (U[i].c # 0 => CostToRead(p))
      <4>1. U \in Seq(Counts) /\ ev \in Event /\ ev.t # "usage"
        BY <1>7
      <4> QED
        BY <3>1, <3>2, <4>1, ReportsNew
    <3> QED
      BY <3>2, <3>3
  <2>4. ToRead(cli'.pipe, 1)
    BY <2>1, <2>2, <2>3
  <2> QED
    BY <1>7, <2>3, <2>4
<1>8. Told
  <2>1. CASE OneEvent(X)
    <3>1. PICK ev \in Event : X = <<ev>> /\ ev.t \in {"text", "call", "spawn", "result"} \cup Settles
      BY <2>1 DEF OneEvent, Speaks, SubagentSettles, ToolAnswers
    <3> QED
      BY <1>5, <3>1 DEF Settles
  <2>2. CASE LastEvents(X)
    <3>1. PICK U \in Seq(Counts), ev \in Event : X = U \o <<ev>> /\ Finishes(U, ev)
      BY <2>2 DEF LastEvents
    <3>2. ev.t \in {"done", "error", "eof"} /\ ((U = <<>> /\ ev.t # "done") \/ Reporting(U))
      BY <3>1 DEF Finishes, Finals
    <3>3. CASE U = <<>> /\ ev.t # "done"
      <4>1. X = <<ev>>
        BY <3>1, <3>3
      <4> QED
        BY <1>5, <3>2, <3>3, <4>1
    <3>4. CASE Reporting(U)
      BY <1>6, <1>7, <3>1, <3>2, <3>4 DEF Reporting
    <3> QED
      BY <3>2, <3>3, <3>4
  <2> QED
    BY <2>1, <2>2 DEF Output
<1>9. UsageFits'
  BY <1>1, <1>8 DEF UsageFits, UsageReports
<1> QED
  BY <1>1, <1>2, <1>3, <1>4, <1>8, <1>9

\* An event is read: its usage, less what was reported before, waits to be written.
LEMMA PullWaits ==
  ASSUME RunInv, OneUsageWaits, UsageFits, Pull
  PROVE LET ev == Head(cli.pipe)
            n  == Least(turn.left[ev.m], ev.n)
            c  == Least(turn.pool, ev.c)
        IN
        /\ OneUsageWaits' /\ UsageFits'
        /\ UnwrittenCost(turn.queue) = 0 /\ \A m : Unwritten(turn.queue, m) = 0
        /\ ev.t # "usage" =>
             /\ UnwrittenCost(turn'.queue) = 0 /\ \A m : Unwritten(turn'.queue, m) = 0
             /\ SameBill(turn, turn')
        /\ ev.t = "usage" =>
             /\ ev \in Counts
             /\ \A m : Unwritten(turn'.queue, m) = IF ev.m = m THEN ev.n - n ELSE 0
             /\ UnwrittenCost(turn'.queue) = ev.c - c
             /\ turn'.left = [turn.left EXCEPT ![ev.m] = @ - n] /\ turn'.pool = turn.pool - c
<1>1. PICK ev \in Event : ev = Head(cli.pipe)
  BY PullFields
<1>2. /\ turn.pc = "pull" /\ cli.pipe # <<>> /\ cli'.pipe = Tail(cli.pipe)
      /\ turn' \in TurnRecord /\ turn'.s = turn.s
      /\ PulledBill(ev) /\ PulledWrites(ev)
  BY <1>1, PullFields DEF SameTurn
<1>3. /\ turn \in TurnRecord /\ turn.queue \in Seq(Write) /\ NoUsage(turn.queue)
      /\ UnwrittenCost(turn.queue) = 0 /\ \A m : Unwritten(turn.queue, m) = 0
  BY <1>2, QueueTyped, NoneWaits
<1>4. /\ cli.pipe \in Seq(Event) /\ runtime' = runtime /\ counted' = counted
  BY DEF RunInv, RunOK, ProcessRecord, Pull, kinds
<1>5. /\ UsageReports(Tail(cli.pipe), counted[turn.s])
      /\ ev.t = "usage" => (runtime = "codex" => ev.m = 1)
  BY <1>1, <1>2, <1>4, ReportsTail DEF UsageFits
<1>6. UsageFits'
  <2>1. UsageReports(cli'.pipe, counted[turn.s])
    BY <1>2, <1>5
  <2> QED
    BY <1>2, <1>4, <2>1 DEF UsageFits, UsageReports
<1>7. Flushed(turn) \in Seq(Write) /\ NoUsage(Flushed(turn))
  BY <1>3, NoUsageFlushed
<1>8. CASE ev.t \in {"text", "started", "updated", "settled", "eof"}
  <2>1. turn'.queue = turn.queue /\ SameBill(turn, turn')
    BY <1>2, <1>8 DEF PulledWrites, PulledBill
  <2> QED
    BY <1>1, <1>3, <1>6, <1>8, <2>1, NoneWaitsNext
<1>9. CASE ev.t \in {"call", "spawn", "denied", "session", "result", "done", "error"}
  <2>1. turn'.queue = turn.queue \o (Flushed(turn) \o Extra(ev)) /\ SameBill(turn, turn')
    BY <1>2, <1>9 DEF PulledWrites, PulledBill
  <2>2. Extra(ev) \in Seq(Write) /\ NoUsage(Extra(ev))
    <3>1. CASE ev.t \in {"call", "spawn"}
      <4>1. [t |-> "call", n |-> ev.n] \in Write
        BY <3>1, EventFields, Constants DEF Write
      <4> QED
        BY <3>1, <4>1, NoUsageOne DEF Extra
    <3>2. CASE ev.t = "session"
      <4>1. [t |-> "session"] \in Write
        BY DEF Write
      <4> QED
        BY <3>2, <4>1, NoUsageOne DEF Extra
    <3>3. CASE ev.t \in {"denied", "result", "done", "error"}
      BY <3>3, EmptyQueue DEF Extra
    <3> QED
      BY <1>9, <3>1, <3>2, <3>3
  <2>3. turn'.queue \in Seq(Write) /\ NoUsage(turn'.queue)
    BY <1>3, <1>7, <2>1, <2>2, NoUsageMore
  <2> QED
    BY <1>1, <1>3, <1>6, <1>9, <2>1, <2>3, NoneWaitsNext
<1>10. CASE ev.t = "usage"
  <2>1. ev \in Counts
    BY <1>10, EventFields
  <2>2. PICK w \in Counts : w = Charged(turn, ev).ev
    BY <1>3, <2>1, ChargedFields
  <2>3. /\ turn'.left = [turn.left EXCEPT ![ev.m] = @ - Least(turn.left[ev.m], ev.n)]
        /\ turn'.pool = turn.pool - Least(turn.pool, ev.c)
        /\ w = [t |-> "usage", m |-> ev.m, n |-> ev.n - Least(turn.left[ev.m], ev.n),
                c |-> ev.c - Least(turn.pool, ev.c)]
    BY <1>2, <1>3, <1>10, <2>1, <2>2, ChargedFields DEF PulledBill
  <2>4. PICK n, c : n = ev.n - Least(turn.left[ev.m], ev.n) /\ c = ev.c - Least(turn.pool, ev.c)
    OBVIOUS
  <2>5. w.m = ev.m /\ w.n = n /\ w.c = c
    BY <2>3, <2>4
  <2>6. /\ turn'.queue = turn.queue \o (Flushed(turn) \o <<w>>)
        /\ turn'.pc = IF turn'.queue # <<>> THEN "await"
                      ELSE IF turn'.end = "none" THEN "pull" ELSE "closing"
    BY <1>2, <1>10, <2>2 DEF PulledWrites, Extra
  <2>7. PICK q \in Seq(Write) : q = turn.queue \o Flushed(turn) /\ NoUsage(q)
    BY <1>3, <1>7, NoUsageMore
  <2>8. turn'.queue = q \o <<w>>
    <3>1. \A s, t, u \in Seq(Write) : (s \o t) \o u = s \o (t \o u)
      BY Regrouped
    <3>2. <<w>> \in Seq(Write)
      <4>1. w \in Write
        BY DEF Write
      <4> QED
        BY <4>1
    <3> QED
      BY <1>3, <1>7, <2>6, <2>7, <3>1, <3>2
  <2>9. /\ turn'.queue # <<>>
        /\ \A i \in DOMAIN turn'.queue :
             turn'.queue[i].t = "usage" => i = Len(turn'.queue) /\ turn'.queue[i] = w
        /\ \A m : Unwritten(turn'.queue, m) = IF w.m = m THEN w.n ELSE 0
        /\ UnwrittenCost(turn'.queue) = w.c
    <3>1. w \in Counts /\ q \in Seq(Write) /\ NoUsage(q)
      BY <2>2, <2>7
    <3>2. PICK p : p = q \o <<w>>
      OBVIOUS
    <3>3. /\ p # <<>>
          /\ \A i \in DOMAIN p : p[i].t = "usage" => i = Len(p) /\ p[i] = w
          /\ \A m : Unwritten(p, m) = IF w.m = m THEN w.n ELSE 0
          /\ UnwrittenCost(p) = w.c
      BY <3>1, <3>2, UsageQueued
    <3>4. turn'.queue = p
      BY <2>8, <3>2
    <3> QED
      BY <3>3, <3>4
  <2>10. OneUsageWaits'
    BY <1>4, <1>5, <1>10, <2>5, <2>6, <2>9 DEF OneUsageWaits
  <2> QED
    BY <1>1, <1>3, <1>6, <1>10, <2>1, <2>3, <2>4, <2>5, <2>9, <2>10
<1> QED
  BY <1>8, <1>9, <1>10, EventFields DEF Settles

\* A new turn, and the end of one, leave no usage waiting and none to be read.
LEMMA NoUsageLeft ==
  ASSUME turn'.queue = <<>>, cli'.pipe = <<>>
  PROVE OneUsageWaits' /\ UsageFits'
<1>1. OneUsageWaits'
  BY NoneWaitsNext, EmptyQueue
<1>2. UsageIn(cli'.pipe) = {}
  BY DEF UsageIn
<1> QED
  BY <1>1, <1>2 DEF UsageFits, UsageReports, UsageIn

\* The events that are to be read stay the same, or one less.
LEMMA UsageKept ==
  ASSUME UsageFits, cli'.pipe = cli.pipe, turn'.s = turn.s, counted' = counted, runtime' = runtime
  PROVE UsageFits'
BY DEF UsageFits, UsageReports

LEMMA UsageStep ==
  ASSUME RunInv, OneUsageWaits, UsageFits, [Next]_vars
  PROVE OneUsageWaits' /\ UsageFits'
<1>1. ASSUME turn'.queue = turn.queue, turn'.pc = turn.pc \/ turn.pc # "await", runtime' = runtime
      PROVE OneUsageWaits'
  BY <1>1 DEF OneUsageWaits
<1>2. ASSUME NEW e, NEW s, NEW fresh, NEW base, NEW paid, NewTurn(e, s, fresh, base, paid)
      PROVE OneUsageWaits' /\ UsageFits'
  BY <1>2, NoUsageLeft, NoProcessTyped DEF NewTurn, Begun
<1>3. ASSUME TurnOver PROVE OneUsageWaits' /\ UsageFits'
  BY <1>3, NoUsageLeft, NoProcessTyped, NoTurnTyped DEF TurnOver
<1>4. CASE Turns
  <2>1. ASSUME NEW e \in Attempts, Starts(e) PROVE OneUsageWaits' /\ UsageFits'
    BY <1>2, <2>1, StartsSteps
  <2>2. CASE TakesOver
    BY <1>2, <2>2, TakesOverSteps
  <2>3. CASE Resumes(Current)
    BY <1>2, <2>3, CurrentIs, ResumesSteps
  <2>4. CASE StartsAfresh(Current)
    BY <1>2, <2>4, CurrentIs, StartsAfreshSteps
  <2> QED
    BY <1>4, <2>1, <2>2, <2>3, <2>4 DEF Turns
<1>5. CASE Process
  <2>1. turn' = turn /\ runtime' = runtime
    BY <1>5, ProcessSteps DEF Output, Working
  <2>2. OneUsageWaits'
    BY <1>1, <2>1
  <2>3. ASSUME NEW X, Output(X) PROVE UsageFits'
    BY <2>3, OutputReads
  <2>4. ASSUME NEW m \in Models, Working(m) PROVE UsageFits'
    <3>1. cli.on /\ cli'.pipe = cli.pipe
      BY <2>4 DEF Working
    <3>2. UsageIn(cli'.pipe) = {}
      BY <3>1 DEF RunInv, PhaseFits, UsageIn
    <3> QED
      BY <3>2 DEF UsageFits, UsageReports, UsageIn
  <2> QED
    BY <1>5, <2>2, <2>3, <2>4, ProcessSteps
<1>6. CASE Others
  <2>1. /\ UNCHANGED <<runtime, counted, cli>>
        /\ turn'.queue = turn.queue /\ turn'.pc = turn.pc /\ turn'.s = turn.s
    BY <1>6, OthersSteps DEF RowCloses, IssueRaised, Reviewing, RetryMade, SamePhase, SameText,
                             SameTurn
  <2> QED
    BY <1>1, <2>1, UsageKept
<1>7. CASE Hung \/ BlockingTimeout \/ Abort
  <2>1. /\ UNCHANGED <<runtime, counted>> /\ cli'.pipe = cli.pipe
        /\ turn'.queue = turn.queue /\ turn'.pc = turn.pc /\ turn'.s = turn.s
    BY <1>7, StopsSteps, KilledFields DEF SameText, SameTurn, RunInv, RunOK
  <2> QED
    BY <1>1, <2>1, UsageKept
<1>8. CASE Opens
  <2>1. CASE TurnOver
    BY <1>3, <2>1
  <2>2. CASE ~TurnOver
    <3>1. cli'.pipe = <<[t |-> "session"]>> /\ turn'.queue = turn.queue /\ turn.pc = "opening"
          /\ runtime' = runtime
      BY <1>8, <2>2, OpensSteps
    <3>2. UsageIn(cli'.pipe) = {}
      BY <3>1 DEF UsageIn
    <3> QED
      BY <1>1, <3>1, <3>2 DEF UsageFits, UsageReports, UsageIn
  <2> QED
    BY <2>1, <2>2
<1>9. CASE Pull
  BY <1>9, PullWaits
<1>10. CASE Stopped
  BY <1>1, <1>10, StoppedSteps, UsageKept DEF SameText, SameTurn
<1>11. CASE Closes
  BY <1>11, ClosesSteps, ClosesWaits, UsageKept DEF SameTurn
<1>12. CASE Flushes
  BY <1>12, FlushSteps, FlushWaits, UsageKept DEF SameTurn
<1>13. CASE Writes \/ WriteFails
  <2>1. Dequeued /\ cli'.pipe = cli.pipe
    <3>1. CASE Writes
      BY <3>1, WritesSteps, KilledFields
         DEF Stored, SessionStored, UsageStored, GoesOn, Halts, RunInv, RunOK
    <3>2. CASE WriteFails
      BY <3>2, FailsSteps DEF WriteLost, GoesOn
    <3> QED
      BY <1>13, <3>1, <3>2
  <2>2. turn'.s = turn.s /\ counted' = counted /\ runtime' = runtime
    BY <2>1 DEF Dequeued, SameTurn
  <2> QED
    BY <2>1, <2>2, DequeuedWaits, UsageKept
<1>14. CASE TurnEnds
  BY <1>3, <1>14, TurnEndsSteps
<1>15. CASE UNCHANGED vars
  BY <1>1, <1>15, UsageKept DEF vars, kinds
<1> QED
  BY <1>4, <1>5, <1>6, <1>7, <1>8, <1>9, <1>10, <1>11, <1>12, <1>13, <1>14, <1>15 DEF Next, Loop

-----------------------------------------------------------------------------
(* Whose the session of an execution is                                    *)

LEMMA TwoAttempts == 1 \in Attempts /\ 2 \in Attempts /\ \A e \in Attempts : e = 1 \/ e = 2
BY DEF Attempts

LEMMA SessionInit ==
  ASSUME Init
  PROVE OneUsageWaits /\ UsageFits /\ SessionFits /\ BillFits
<1>1. ~InTurn /\ turn.queue = <<>> /\ cli.pipe = <<>>
  BY NoTurnTyped, NoProcessTyped DEF Init, InTurn
<1>2. /\ \A e \in Attempts : /\ exec[e].whose = "none" /\ exec[e].session = 0
                             /\ usage[e].main = Zero /\ usage[e].cost = 0
      /\ exec[2].st = "NONE"
  BY TwoAttempts DEF Init
<1>3. OneUsageWaits /\ UsageFits
  BY <1>1 DEF OneUsageWaits, UsageFits, UsageReports, UsageIn
<1>4. SessionFits
  <2>1. \A s \in Sessions, m \in Models \ {1} : counted[s][m] = 0
    BY DEF Init, Zero
  <2>2. Zero[1] = 0
    BY Constants DEF Zero
  <2> QED
    BY <1>1, <1>2, <2>1, <2>2, TwoAttempts DEF SessionFits
<1>5. BillFits
  BY <1>1, <1>2 DEF BillFits, Accountable
<1> QED
  BY <1>3, <1>4, <1>5

\* The execution of a new turn: its session is its own, taken over or a new one.
SessionOpens(e, whose, session) ==
  /\ e = 1 => exec[2].st = "NONE"
  /\ e = 2 => exec[1].st = "FAILED"
  /\ whose # "none" /\ (turn'.fresh => whose = "replaced")
  /\ e = 1 => whose # "taken"
  /\ e = 2 /\ whose = "taken" => session = exec[1].session
  /\ whose \in {"own", "taken"} => session \in {0, turn'.s}

LEMMA NewTurnSession ==
  ASSUME RunInv, SessionFits, NEW e \in Attempts, NEW s, NEW fresh, NEW base, NEW paid,
         NewTurn(e, s, fresh, base, paid),
         NEW st \in {"RUNNING", "ASSIGNED"}, NEW whose, NEW session,
         RowChange(e, st, session, whose), SessionOpens(e, whose, session),
         whose = "taken" => st # "ASSIGNED"
  PROVE SessionFits'
<1>1. /\ turn'.e = e /\ UNCHANGED <<runtime, usage, counted>>
      /\ exec'[e].st = st /\ exec'[e].session = session /\ exec'[e].whose = whose
      /\ \A a \in Attempts \ {e} : exec'[a] = exec[a]
  BY DEF NewTurn, Begun, RowChange
<1>2. CASE e = 1
  BY <1>1, <1>2, TwoAttempts DEF SessionFits, SessionOpens, Billable
<1>3. CASE e = 2
  BY <1>1, <1>3, TwoAttempts DEF SessionFits, SessionOpens, Billable
<1> QED
  BY <1>2, <1>3, TwoAttempts

LEMMA TurnsSession ==
  ASSUME RunInv, SessionFits, Turns
  PROVE SessionFits'
<1>1. ASSUME NEW e \in Attempts, Starts(e) PROVE SessionFits'
  <2>1. /\ exec[e].st = "ASSIGNED" /\ exec[e].whose = "none"
        /\ NewTurn(e, bounds.turns + 1, FALSE, Zero, 0)
        /\ RowChange(e, "ASSIGNED", exec[e].session, "own")
    BY <1>1, StartsSteps
  <2>2. SessionOpens(e, "own", exec[e].session)
    BY <2>1, TwoAttempts DEF SessionFits, SessionOpens, NewTurn
  <2> QED
    BY <2>1, <2>2, NewTurnSession
<1>2. CASE TakesOver
  <2>1. /\ exec[2].st = "ASSIGNED"
        /\ NewTurn(2, exec[1].session, FALSE, usage[1].main, usage[1].cost)
        /\ RowChange(2, "RUNNING", exec[1].session, "taken")
    BY <1>2, TakesOverSteps
  <2>2. SessionOpens(2, "taken", exec[1].session)
    BY <2>1 DEF SessionFits, SessionOpens, NewTurn, Begun
  <2> QED
    BY <2>1, <2>2, NewTurnSession, TwoAttempts
<1> DEFINE e == Current
<1>3. /\ e \in Attempts /\ (e = 1 => exec[2].st = "NONE") /\ (e = 2 => exec[1].st = "FAILED")
  BY CurrentIs DEF SessionFits
<1> HIDE DEF e
<1>4. CASE Resumes(e)
  <2>1. /\ Resumable(e) /\ exec[e].session # 0
        /\ NewTurn(e, exec[e].session, FALSE, usage[e].main, usage[e].cost)
        /\ RowChange(e, "RUNNING", exec[e].session,
                     IF exec[e].whose = "taken" THEN "shared" ELSE exec[e].whose)
    BY <1>3, <1>4, ResumesSteps
  <2>2. PICK whose : whose = IF exec[e].whose = "taken" THEN "shared" ELSE exec[e].whose
    OBVIOUS
  <2>3. SessionOpens(e, whose, exec[e].session)
    BY <1>3, <2>1, <2>2 DEF SessionFits, SessionOpens, NewTurn, Begun
  <2> QED
    BY <1>3, <2>1, <2>2, <2>3, NewTurnSession
<1>5. CASE StartsAfresh(e)
  <2>1. /\ Resumable(e)
        /\ NewTurn(e, bounds.turns + 1, TRUE, Zero, 0)
        /\ RowChange(e, "RUNNING", exec[e].session, "replaced")
    BY <1>3, <1>5, StartsAfreshSteps
  <2>2. SessionOpens(e, "replaced", exec[e].session)
    BY <1>3 DEF SessionOpens
  <2> QED
    BY <1>3, <2>1, <2>2, NewTurnSession
<1> QED
  BY <1>1, <1>2, <1>4, <1>5 DEF Turns, e

\* The rows, their usage and the turn stay as they are.
LEMMA SessionKept ==
  ASSUME SessionFits, runtime' = runtime, counted' = counted, exec' = exec,
         \A e \in Attempts : usage'[e].main = usage[e].main /\ usage'[e].cost = usage[e].cost,
         InTurn' => InTurn /\ SameTurn(turn, turn')
  PROVE SessionFits'
BY TwoAttempts DEF SessionFits, SameTurn, Billable

\* The state of an execution is written, in its turn or out of it.
LEMMA SessionClosed ==
  ASSUME RunInv, SessionFits, runtime' = runtime, counted' = counted,
         \A e \in Attempts : usage'[e].main = usage[e].main /\ usage'[e].cost = usage[e].cost,
         InTurn' => InTurn /\ SameTurn(turn, turn'),
         NEW e \in Attempts, NEW st, RowChange(e, st, exec[e].session, exec[e].whose),
         st # "NONE", st # "ASSIGNED",
         e = 1 => exec[2].st = "NONE", e = 2 => exec[2].st # "NONE"
  PROVE SessionFits'
<1>1. /\ exec'[e].st = st /\ exec'[e].session = exec[e].session /\ exec'[e].whose = exec[e].whose
      /\ \A a \in Attempts \ {e} : exec'[a] = exec[a]
  BY DEF RowChange
<1>2. InTurn => turn.e \in Attempts
  BY TurnSession
<1>3. CASE e = 1
  <2>1. /\ exec[2].st = "NONE" /\ exec[2].whose = "none" /\ exec'[2] = exec[2]
        /\ exec'[1].st = st /\ exec'[1].session = exec[1].session /\ exec'[1].whose = exec[1].whose
    BY <1>1, <1>3, TwoAttempts DEF SessionFits
  <2>2. \A a \in Attempts : exec'[a].session = exec[a].session /\ exec'[a].whose = exec[a].whose
    BY <2>1, TwoAttempts
  <2>3. InTurn' => InTurn /\ turn'.e = turn.e /\ turn'.s = turn.s /\ turn'.fresh = turn.fresh
                   /\ turn.e \in Attempts
    BY <1>2 DEF SameTurn
  <2>4. InTurn' /\ Billable(turn.e)' => exec'[turn'.e].session \in {0, turn'.s}
    BY <2>1, <2>2, <2>3, TwoAttempts DEF SessionFits, Billable
  <2>5. InTurn' => /\ exec'[turn'.e].whose # "none"
                   /\ turn'.fresh => exec'[turn'.e].whose = "replaced"
    BY <2>2, <2>3 DEF SessionFits
  <2> QED
    BY <2>1, <2>2, <2>4, <2>5, TwoAttempts DEF SessionFits
<1>4. CASE e = 2
  BY <1>1, <1>4, TwoAttempts DEF SessionFits, SameTurn, Billable
<1> QED
  BY <1>3, <1>4, TwoAttempts

\* The session of the turn's execution is stored, when it is told.
LEMMA SessionTold ==
  ASSUME RunInv, SessionFits, Dequeued, NEW w, SessionStored(w)
  PROVE SessionFits'
<1>1. /\ turn.e \in Attempts /\ InTurn /\ turn'.e = turn.e /\ turn'.s = turn.s
      /\ turn'.fresh = turn.fresh
      /\ runtime' = runtime /\ counted' = counted /\ usage' = usage
  BY QueueInTurn DEF Dequeued, SameTurn, SessionStored
<1>2. CASE exec' = exec
  BY <1>1, <1>2, SessionKept DEF SameTurn
<1>3. CASE exec' # exec
  <2> PICK e \in Attempts : e = turn.e
    BY <1>1
  <2>1. PICK session : session = IF exec[e].st = "ASSIGNED" \/ turn.fresh THEN turn.s ELSE exec[e].session
    OBVIOUS
  <2>2. exec[e].st \in Live /\ RowChange(e, "RUNNING", session, exec[e].whose)
    BY <1>3, <2>1 DEF SessionStored
  <2>3. /\ exec'[e].st = "RUNNING" /\ exec'[e].session = session
        /\ exec'[e].whose = exec[e].whose
        /\ \A a \in Attempts \ {e} : exec'[a] = exec[a]
    BY <2>2 DEF RowChange
  <2>4. /\ exec[e].whose # "none" /\ (turn.fresh => exec[e].whose = "replaced")
        /\ Billable(e) => exec[e].session \in {0, turn.s}
    BY <1>1 DEF SessionFits
  <2>5. CASE e = 1
    <3>1. exec[2].st = "NONE" /\ exec[2].whose = "none" /\ exec'[2] = exec[2]
      BY <2>2, <2>3, <2>5, TwoAttempts DEF SessionFits, Live
    <3>2. Billable(e)' => exec'[e].session \in {0, turn.s}
      BY <2>1, <2>3, <2>4, <2>5 DEF Billable
    <3> QED
      BY <1>1, <2>3, <2>4, <2>5, <3>1, <3>2, TwoAttempts DEF SessionFits
  <2>6. CASE e = 2
    <3>1. exec[2].st # "NONE" /\ exec[1].st = "FAILED" /\ exec'[1] = exec[1]
      BY <2>2, <2>3, <2>6, TwoAttempts DEF SessionFits, Live
    <3>2. exec[2].whose = "taken" => session = exec[1].session
      BY <2>1, <2>4, <2>6 DEF SessionFits
    <3>3. Billable(e)' => exec'[e].session \in {0, turn.s}
      <4>1. Billable(e)' => Billable(e)
        BY <2>3, <2>6, <3>1 DEF Billable
      <4> QED
        BY <2>1, <2>3, <2>4, <4>1
    <3> QED
      BY <1>1, <2>3, <2>4, <2>6, <3>1, <3>2, <3>3, TwoAttempts DEF SessionFits
  <2> QED
    BY <1>1, <2>5, <2>6, TwoAttempts
<1> QED
  BY <1>2, <1>3

\* Usage is recorded of an execution that is in its turn.
LEMMA SessionBilled ==
  ASSUME RunInv, OneUsageWaits, SessionFits, Dequeued, UsageStored(Head(turn.queue))
  PROVE SessionFits'
<1>1. /\ turn.e \in Attempts /\ InTurn /\ turn'.e = turn.e /\ turn'.s = turn.s
      /\ turn'.fresh = turn.fresh
      /\ runtime' = runtime /\ counted' = counted /\ exec' = exec
  BY QueueInTurn DEF Dequeued, SameTurn, UsageStored
<1>2. PICK w \in Counts : w = Head(turn.queue) /\ (runtime = "codex" => w.m = 1) /\ UsageStored(w)
  BY DequeuedWaits DEF UsageStored
<1>3. /\ usage'[turn.e].main = [usage[turn.e].main EXCEPT ![w.m] = @ + w.n]
      /\ usage'[turn.e].cost = usage[turn.e].cost + (IF runtime = "codex" THEN w.n ELSE w.c)
      /\ \A e \in Attempts \ {turn.e} : usage'[e] = usage[e]
  BY <1>2 DEF UsageStored
<1>4. exec[turn.e].whose # "none"
  BY <1>1 DEF SessionFits
<1>5. \A e \in Attempts : exec'[e].whose = "none" =>
        exec'[e].session = 0 /\ usage'[e].main = Zero /\ usage'[e].cost = 0
  BY <1>1, <1>3, <1>4 DEF SessionFits
<1>6. runtime = "codex" => \A e \in Attempts : usage'[e].cost = usage'[e].main[1]
  <2> SUFFICES ASSUME runtime = "codex", NEW e \in Attempts PROVE usage'[e].cost = usage'[e].main[1]
    OBVIOUS
  <2>1. usage[e].cost = usage[e].main[1]
    <3>1. runtime = "codex" => \A a \in Attempts : usage[a].cost = usage[a].main[1]
      BY DEF SessionFits
    <3> QED
      BY <3>1
  <2>2. CASE e = turn.e
    <3>1. usage[e].main \in [Models -> Nat]
      BY DEF RunInv, TypeOK
    <3>2. usage'[e].main[1] = usage[e].main[1] + w.n
      BY <1>2, <1>3, <2>2, <3>1, Constants
    <3> QED
      BY <1>3, <2>1, <2>2, <3>2
  <2>3. CASE e # turn.e
    BY <1>3, <2>1, <2>3
  <2> QED
    BY <2>2, <2>3
<1> QED
  BY <1>1, <1>5, <1>6 DEF SessionFits, Billable

LEMMA SessionStep ==
  ASSUME RunInv, OneUsageWaits, SessionFits, [Next]_vars
  PROVE SessionFits'
<1>1. ASSUME UNCHANGED <<runtime, counted, exec, usage>>, turn'.pc = "none" \/ (InTurn /\ SameTurn(turn, turn'))
      PROVE SessionFits'
  BY <1>1, SessionKept DEF InTurn
<1>2. CASE Turns
  BY <1>2, TurnsSession
<1>3. CASE Process
  <2>1. ASSUME NEW X, Output(X) PROVE SessionFits'
    <3>1. UNCHANGED <<runtime, counted, exec, usage, turn>>
      BY <2>1 DEF Output
    <3> QED
      BY <3>1, SessionKept DEF SameTurn, InTurn
  <2>2. ASSUME NEW m \in Models, Working(m) PROVE SessionFits'
    <3>1. UNCHANGED <<runtime, exec, usage, turn>> /\ (runtime = "codex" => m = 1)
      BY <2>2 DEF Working
    <3>2. runtime = "codex" => \A s \in Sessions, n \in Models \ {1} : counted'[s][n] = counted[s][n]
      BY <2>2, <3>1, WorkingCounts
    <3> QED
      BY <3>1, <3>2 DEF SessionFits, Billable, InTurn
  <2> QED
    BY <1>3, <2>1, <2>2, ProcessSteps
<1>4. CASE Others
  <2>1. UNCHANGED <<runtime, counted>> /\ (RowCloses \/ IssueRaised \/ Reviewing \/ RetryMade)
    BY <1>4, OthersSteps
  <2>2. CASE RowCloses
    <3>1. PICK e \in Attempts, st \in Ended :
            /\ exec[e].st \in Live \cup {"WAITING"}
            /\ RowChange(e, st, exec[e].session, exec[e].whose)
            /\ turn' = turn /\ usage' = usage
      BY <2>2 DEF RowCloses
    <3>2. st # "NONE" /\ st # "ASSIGNED"
      BY <3>1 DEF Ended
    <3>3. (e = 1 => exec[2].st = "NONE") /\ (e = 2 => exec[2].st # "NONE")
      BY <3>1 DEF SessionFits, Live
    <3> QED
      BY <2>1, <3>1, <3>2, <3>3, SessionClosed DEF SameTurn, InTurn
  <2>3. CASE IssueRaised
    BY <1>1, <2>1, <2>3 DEF IssueRaised
  <2>4. CASE Reviewing
    BY <2>1, <2>4, SessionKept DEF Reviewing, SameTurn, InTurn
  <2>5. CASE RetryMade
    <3>1. /\ exec[1].st = "FAILED" /\ exec[2].st = "NONE" /\ ~InTurn /\ turn' = turn
          /\ usage' = usage
          /\ exec'[1] = exec[1] /\ exec'[2].session = exec[2].session
          /\ exec'[2].whose = exec[2].whose
      BY <2>5, TwoAttempts DEF RetryMade, RowChange
    <3>2. ~InTurn'
      BY <3>1 DEF InTurn
    <3> QED
      BY <2>1, <3>1, <3>2, TwoAttempts DEF SessionFits
  <2> QED
    BY <2>1, <2>2, <2>3, <2>4, <2>5
<1>5. CASE Hung \/ BlockingTimeout \/ Abort
  BY <1>1, <1>5, StopsSteps DEF Open, InTurn
<1>6. CASE Opens
  BY <1>1, <1>6, OpensSteps, NoTurnTyped DEF TurnOver, InTurn
<1>7. CASE Pull
  BY <1>1, <1>7, PullFields DEF Pull, kinds, InTurn
<1>8. CASE Stopped
  BY <1>1, <1>8, StoppedSteps DEF InTurn
<1>9. CASE Closes
  BY <1>1, <1>9, ClosesSteps DEF InTurn
<1>10. CASE Flushes
  BY <1>1, <1>10, FlushSteps DEF InTurn
<1>11. CASE Writes
  <2>1. Dequeued
    BY <1>11, WritesSteps
  <2>2. PICK w : w = Head(turn.queue) /\ (Stored(w) \/ SessionStored(w) \/ UsageStored(w))
    BY <1>11, WritesSteps
  <2>3. CASE Stored(w)
    BY <1>1, <2>1, <2>3, QueueInTurn DEF Stored, Dequeued
  <2> QED
    BY <2>1, <2>2, <2>3, SessionTold, SessionBilled
<1>12. CASE WriteFails
  BY <1>1, <1>12, FailsSteps, QueueInTurn DEF WriteLost, Dequeued
<1>13. CASE TurnEnds
  <2>1. /\ InTurn /\ TurnOver /\ turn.e \in Attempts /\ UNCHANGED <<runtime, usage, counted>>
        /\ RowChange(turn.e, AfterTurn(exec[turn.e].st), exec[turn.e].session, exec[turn.e].whose)
        /\ AfterTurn(exec[turn.e].st) \in {exec[turn.e].st, "FAILED", "WAITING"}
        /\ AfterTurn(exec[turn.e].st) # exec[turn.e].st => exec[turn.e].st \in Live
    BY <1>13, TurnEndsSteps DEF InTurn
  <2>2. ~InTurn'
    BY <2>1, NoTurnTyped DEF TurnOver, InTurn
  <2>3. PICK st : st = AfterTurn(exec[turn.e].st)
    OBVIOUS
  <2>4. /\ exec'[turn.e].st = st /\ exec'[turn.e].session = exec[turn.e].session
        /\ exec'[turn.e].whose = exec[turn.e].whose
        /\ \A a \in Attempts \ {turn.e} : exec'[a] = exec[a]
    BY <2>1, <2>3 DEF RowChange
  <2>5. CASE turn.e = 1
    <3>1. exec[2].st = "NONE" /\ exec'[2] = exec[2]
      BY <2>1, <2>4, <2>5, TwoAttempts DEF SessionFits
    <3> QED
      BY <2>1, <2>2, <2>4, <2>5, <3>1, TwoAttempts DEF SessionFits
  <2>6. CASE turn.e = 2
    <3>1. exec'[1] = exec[1] /\ (exec'[2].st = "NONE" <=> exec[2].st = "NONE")
          /\ (exec'[2].st = "ASSIGNED" => exec[2].st = "ASSIGNED")
      BY <2>1, <2>3, <2>4, <2>6, TwoAttempts DEF Live
    <3> QED
      BY <2>1, <2>2, <2>4, <2>6, <3>1, TwoAttempts DEF SessionFits
  <2> QED
    BY <2>1, <2>5, <2>6, TwoAttempts
<1>14. CASE UNCHANGED vars
  BY <1>14, SessionKept DEF vars, kinds, SameTurn, InTurn
<1> QED
  BY <1>2, <1>3, <1>4, <1>5, <1>6, <1>7, <1>8, <1>9, <1>10, <1>11, <1>12, <1>13, <1>14 DEF Next, Loop

-----------------------------------------------------------------------------
(* The bill                                                                *)

\* What usage u and rows x say that an execution has reported and paid for its session
Told(u, x, e, m) == u[e].main[m] + IF x[e].whose = "taken" THEN u[1].main[m] ELSE 0
PaidOf(u, x, e)  == u[e].cost + IF x[e].whose = "taken" THEN u[1].cost ELSE 0
Owner(x, e) == x[e].whose = "own" \/ (e = 2 /\ x[2].whose = "taken" /\ x[1].whose = "own")

\* The bill of the turn t of e, in a session that has counted f; that of no turn
TokenBill(u, x, e, f, t, more, all, pipe) ==
  \A m \in Models :
    Fits(Told(u, x, e, m), Unwritten(t.queue, m), f[m], t.left[m],
         more \/ ToRead(pipe, m), all /\ ~ToRead(pipe, m))
CostBill(u, x, e, f, t, more, all, pipe) ==
  Fits(PaidOf(u, x, e), UnwrittenCost(t.queue), Total(f), t.pool,
       more \/ CostToRead(pipe), all /\ ~CostToRead(pipe))
RestBill(u, x, e, f) ==
  (\A m \in Models : Told(u, x, e, m) <= f[m]) /\ PaidOf(u, x, e) <= Total(f)

LEMMA BillIs ==
  BillFits <=>
    /\ InTurn /\ Owner(exec, turn.e) =>
         /\ TokenBill(usage, exec, turn.e, counted[turn.s], turn, MoreComes, Finished, cli.pipe)
         /\ runtime = "claude" =>
              CostBill(usage, exec, turn.e, counted[turn.s], turn, MoreComes, Finished, cli.pipe)
    /\ \A e \in Attempts :
         exec[e].session # 0 /\ Owner(exec, e) /\ ~(InTurn /\ e = turn.e) =>
           RestBill(usage, exec, e, counted[exec[e].session])
<1>1. \A e : Billable(e) <=> Owner(exec, e)
  BY DEF Billable, Owner
<1>2. \A e : Accountable(e) <=> exec[e].session # 0 /\ Owner(exec, e)
  BY DEF Accountable, Owner
<1>3. \A e : \A m \in Models : Reported(e)[m] = Told(usage, exec, e, m)
  BY DEF Reported, Told
<1>4. \A e : Paid(e) = PaidOf(usage, exec, e)
  BY DEF Paid, PaidOf
<1>5. \A e : Within(e) <=> RestBill(usage, exec, e, counted[exec[e].session])
  BY <1>3, <1>4 DEF Within, RestBill
<1>6. (\A m \in Models : TokensFit(m)) <=>
        TokenBill(usage, exec, turn.e, counted[turn.s], turn, MoreComes, Finished, cli.pipe)
  BY <1>3 DEF TokensFit, TokenBill
<1>7. CostFits <=>
        CostBill(usage, exec, turn.e, counted[turn.s], turn, MoreComes, Finished, cli.pipe)
  BY <1>4 DEF CostFits, CostBill
<1> QED
  BY <1>1, <1>2, <1>5, <1>6, <1>7 DEF BillFits

LEMMA BillIsNext ==
  BillFits' <=>
    /\ InTurn' /\ Owner(exec', turn'.e) =>
         /\ TokenBill(usage', exec', turn'.e, counted'[turn'.s], turn', MoreComes', Finished', cli'.pipe)
         /\ runtime' = "claude" =>
              CostBill(usage', exec', turn'.e, counted'[turn'.s], turn', MoreComes', Finished', cli'.pipe)
    /\ \A e \in Attempts :
         exec'[e].session # 0 /\ Owner(exec', e) /\ ~(InTurn' /\ e = turn'.e) =>
           RestBill(usage', exec', e, counted'[exec'[e].session])
<1>1. (BillFits <=>
         /\ InTurn /\ Owner(exec, turn.e) =>
              /\ TokenBill(usage, exec, turn.e, counted[turn.s], turn, MoreComes, Finished, cli.pipe)
              /\ runtime = "claude" =>
                   CostBill(usage, exec, turn.e, counted[turn.s], turn, MoreComes, Finished, cli.pipe)
         /\ \A e \in Attempts :
              exec[e].session # 0 /\ Owner(exec, e) /\ ~(InTurn /\ e = turn.e) =>
                RestBill(usage, exec, e, counted[exec[e].session]))'
  BY BillIs, PTL
<1> QED
  BY <1>1

\* The bill is in natural numbers.
LEMMA BillTyped ==
  ASSUME RunInv
  PROVE /\ \A e \in Attempts : /\ PaidOf(usage, exec, e) \in Nat
                               /\ \A m \in Models : Told(usage, exec, e, m) \in Nat
                               /\ usage[e].main \in [Models -> Nat] /\ usage[e].cost \in Nat
        /\ \A s \in Sessions : counted[s] \in [Models -> Nat] /\ Total(counted[s]) \in Nat
        /\ turn.left \in [Models -> Nat] /\ turn.pool \in Nat
        /\ UnwrittenCost(turn.queue) \in Nat /\ \A m : Unwritten(turn.queue, m) \in Nat
        /\ \A e \in Attempts : exec[e].session # 0 => exec[e].session \in Sessions
<1>1. \A e \in Attempts : usage[e].main \in [Models -> Nat] /\ usage[e].cost \in Nat
  BY DEF RunInv, TypeOK
<1>2. \A e \in Attempts : /\ PaidOf(usage, exec, e) \in Nat
                          /\ \A m \in Models : Told(usage, exec, e, m) \in Nat
  BY <1>1, TwoAttempts DEF PaidOf, Told
<1>3. \A s \in Sessions : counted[s] \in [Models -> Nat] /\ Total(counted[s]) \in Nat
  <2>1. \A s \in Sessions : counted[s] \in [Models -> Nat]
    BY DEF RunInv, TypeOK
  <2> QED
    BY <2>1, TotalIsNat
<1>4. turn.left \in [Models -> Nat] /\ turn.pool \in Nat
  BY DEF RunInv, RunOK, TurnRecord
<1>5. UnwrittenCost(turn.queue) \in Nat /\ \A m : Unwritten(turn.queue, m) \in Nat
  <2>1. CASE UsageWaits(turn.queue)
    <3>1. LastOf(turn.queue) \in Write /\ LastOf(turn.queue).t = "usage"
      <4>1. turn.queue \in Seq(Write) /\ turn.queue # <<>>
        BY <2>1, QueueTyped DEF UsageWaits
      <4>2. Len(turn.queue) \in DOMAIN turn.queue
        BY <4>1
      <4> QED
        BY <2>1, <4>1, <4>2 DEF UsageWaits, LastOf
    <3>2. LastOf(turn.queue).n \in Nat /\ LastOf(turn.queue).c \in Nat
      BY <3>1, WriteFields DEF Counts
    <3> QED
      BY <3>2 DEF Unwritten, UnwrittenCost
  <2>2. CASE ~UsageWaits(turn.queue)
    BY <2>2 DEF Unwritten, UnwrittenCost
  <2> QED
    BY <2>1, <2>2
<1>6. \A e \in Attempts : exec[e].session # 0 => exec[e].session \in Sessions
  BY Constants DEF RunInv, TypeOK, Sessions
<1> QED
  BY <1>1, <1>2, <1>3, <1>4, <1>5, <1>6

\* The rows, what was reported and what is still to be stay as they are.
LEMMA BillKept ==
  ASSUME RunInv, BillFits, counted' = counted, runtime' = runtime,
         \A e \in Attempts : /\ exec'[e].whose = exec[e].whose
                             /\ usage'[e].main = usage[e].main /\ usage'[e].cost = usage[e].cost
                             /\ ~(InTurn /\ e = turn.e) => exec'[e].session = exec[e].session,
         InTurn' <=> InTurn,
         InTurn => SameTurn(turn, turn') /\ SameBill(turn, turn') /\ cli'.pipe = cli.pipe
                   /\ UnwrittenCost(turn'.queue) = UnwrittenCost(turn.queue)
                   /\ \A m : Unwritten(turn'.queue, m) = Unwritten(turn.queue, m),
         InTurn => (MoreComes' => MoreComes) /\ (Finished' => Finished)
  PROVE BillFits'
<1>1. \A e \in Attempts : /\ Owner(exec', e) <=> Owner(exec, e)
                          /\ PaidOf(usage', exec', e) = PaidOf(usage, exec, e)
                          /\ \A m : Told(usage', exec', e, m) = Told(usage, exec, e, m)
  <2> SUFFICES ASSUME NEW e \in Attempts
      PROVE /\ Owner(exec', e) <=> Owner(exec, e)
            /\ PaidOf(usage', exec', e) = PaidOf(usage, exec, e)
            /\ \A m : Told(usage', exec', e, m) = Told(usage, exec, e, m)
    OBVIOUS
  <2>1. /\ usage'[1].main = usage[1].main /\ usage'[1].cost = usage[1].cost
        /\ exec'[1].whose = exec[1].whose /\ exec'[2].whose = exec[2].whose
        /\ usage'[e].main = usage[e].main /\ usage'[e].cost = usage[e].cost
        /\ exec'[e].whose = exec[e].whose
    BY TwoAttempts
  <2> QED
    BY <2>1 DEF Owner, PaidOf, Told
<1>2. \A e \in Attempts : \A f :
        RestBill(usage, exec, e, f) => RestBill(usage', exec', e, f)
  BY <1>1 DEF RestBill
<1>3. ASSUME NEW e \in Attempts, exec'[e].session # 0, Owner(exec', e), ~(InTurn' /\ e = turn'.e)
      PROVE RestBill(usage', exec', e, counted'[exec'[e].session])
  <2>1. ~(InTurn /\ e = turn.e)
    BY <1>3 DEF SameTurn
  <2> QED
    BY <1>1, <1>2, <1>3, <2>1, BillIs
<1>4. ASSUME InTurn', Owner(exec', turn'.e)
      PROVE /\ TokenBill(usage', exec', turn'.e, counted'[turn'.s], turn', MoreComes', Finished', cli'.pipe)
            /\ runtime' = "claude" =>
                 CostBill(usage', exec', turn'.e, counted'[turn'.s], turn', MoreComes', Finished', cli'.pipe)
  <2>1. PICK e \in Attempts : e = turn.e /\ turn'.e = e
    BY <1>4, TurnSession DEF SameTurn
  <2> PICK s : s = turn.s
    OBVIOUS
  <2>2. InTurn /\ Owner(exec, e)
    BY <1>1, <1>4, <2>1
  <2>3. /\ TokenBill(usage, exec, e, counted[s], turn, MoreComes, Finished, cli.pipe)
        /\ runtime = "claude" =>
             CostBill(usage, exec, e, counted[s], turn, MoreComes, Finished, cli.pipe)
    BY <2>1, <2>2, BillIs
  <2>4. TokenBill(usage', exec', e, counted[s], turn', MoreComes', Finished', cli.pipe)
    BY <1>1, <2>2, <2>3 DEF TokenBill, Fits, SameBill
  <2>5. runtime = "claude" =>
          CostBill(usage', exec', e, counted[s], turn', MoreComes', Finished', cli.pipe)
    BY <1>1, <2>2, <2>3 DEF CostBill, Fits, SameBill
  <2>6. turn'.s = s /\ cli'.pipe = cli.pipe /\ counted' = counted /\ runtime' = runtime
    BY <2>2 DEF SameTurn
  <2> QED
    BY <2>1, <2>4, <2>5, <2>6
<1> QED
  BY <1>3, <1>4, BillIsNext

\* Codex has one model, and its tokens are priced one by one.
LEMMA CodexPays ==
  ASSUME RunInv, SessionFits, runtime = "codex", NEW e \in Attempts, NEW s \in Sessions
  PROVE /\ PaidOf(usage, exec, e) = Told(usage, exec, e, 1)
        /\ Total(counted[s]) = counted[s][1]
<1>1. PaidOf(usage, exec, e) = Told(usage, exec, e, 1)
  <2>1. usage[e].cost = usage[e].main[1] /\ usage[1].cost = usage[1].main[1]
    BY TwoAttempts DEF SessionFits
  <2> QED
    BY <2>1 DEF PaidOf, Told
<1>2. \A m \in Models \ {1} : counted[s][m] = 0
  BY DEF SessionFits
<1>3. counted[s] \in [Models -> Nat]
  BY BillTyped
<1> QED
  BY <1>1, <1>2, <1>3, TotalOfOne

\* The bill of a turn comes to no more than what its session counted.
LEMMA AllWithin ==
  ASSUME RunInv, SessionFits, BillFits,
         NEW e \in Attempts, exec[e].session # 0, Owner(exec, e)
  PROVE RestBill(usage, exec, e, counted[exec[e].session])
<1>1. CASE ~(InTurn /\ e = turn.e)
  BY <1>1, BillIs
<1>2. CASE InTurn /\ e = turn.e
  <2> PICK s : s = turn.s
    OBVIOUS
  <2>1. s \in Sessions /\ exec[e].session = s
    BY <1>2, TurnSession DEF SessionFits, Billable, Owner
  <2>2. /\ TokenBill(usage, exec, e, counted[s], turn, MoreComes, Finished, cli.pipe)
        /\ runtime = "claude" =>
             CostBill(usage, exec, e, counted[s], turn, MoreComes, Finished, cli.pipe)
    BY <1>2, BillIs
  <2>3. /\ PaidOf(usage, exec, e) \in Nat /\ \A m \in Models : Told(usage, exec, e, m) \in Nat
        /\ counted[s] \in [Models -> Nat] /\ Total(counted[s]) \in Nat
        /\ UnwrittenCost(turn.queue) \in Nat /\ \A m : Unwritten(turn.queue, m) \in Nat
    BY <2>1, BillTyped
  <2>4. \A m \in Models : Told(usage, exec, e, m) <= counted[s][m]
    BY <2>2, <2>3 DEF TokenBill, Fits
  <2>5. runtime \in {"claude", "codex"}
    BY AgentSessionAssumption DEF RunInv, TypeOK
  <2>6. CASE runtime = "claude"
    <3>1. PaidOf(usage, exec, e) <= Total(counted[s])
      BY <2>2, <2>3, <2>6 DEF CostBill, Fits
    <3> QED
      BY <2>1, <2>4, <3>1 DEF RestBill
  <2>7. CASE runtime = "codex"
    <3>1. /\ PaidOf(usage, exec, e) = Told(usage, exec, e, 1)
          /\ Total(counted[s]) = counted[s][1]
      BY <2>1, <2>7, CodexPays
    <3> QED
      BY <2>1, <2>4, <3>1, Constants DEF RestBill
  <2> QED
    BY <2>5, <2>6, <2>7
<1> QED
  BY <1>1, <1>2

\* The bill of the other attempt, in the turn of one
LEMMA OthersRest ==
  ASSUME RunInv, SessionFits, BillFits, InTurn,
         counted' \in [Sessions -> [Models -> Nat]],
         \A s \in Sessions : \A m \in Models : counted[s][m] <= counted'[s][m],
         \A a \in Attempts : exec'[a].whose = exec[a].whose,
         \A a \in Attempts \ {turn.e} : exec'[a].session = exec[a].session /\ usage'[a] = usage[a],
         NEW a \in Attempts \ {turn.e}, exec'[a].session # 0, Owner(exec', a)
  PROVE RestBill(usage', exec', a, counted'[exec'[a].session])
<1>1. turn.e = 2 /\ a = 1
  <2>1. turn.e = 1 => exec[2].whose = "none"
    BY DEF SessionFits
  <2> QED
    BY <2>1, TurnSession, TwoAttempts DEF Owner
<1>2. /\ exec'[1].whose = "own" /\ exec[1].whose = "own" /\ exec'[1].session = exec[1].session
      /\ usage'[1] = usage[1]
  BY <1>1, TwoAttempts DEF Owner
<1> PICK s : s = exec[1].session
  OBVIOUS
<1>3. RestBill(usage, exec, 1, counted[s])
  BY <1>1, <1>2, BillIs DEF Owner
<1>4. /\ s \in Sessions /\ counted[s] \in [Models -> Nat] /\ counted'[s] \in [Models -> Nat]
      /\ PaidOf(usage, exec, 1) \in Nat /\ \A m \in Models : Told(usage, exec, 1, m) \in Nat
      /\ Total(counted[s]) \in Nat
  BY <1>1, <1>2, BillTyped
<1>5. Total(counted'[s]) \in Nat /\ Total(counted[s]) <= Total(counted'[s])
  BY <1>4, TotalIsNat, TotalGrows
<1>6. /\ PaidOf(usage', exec', 1) = PaidOf(usage, exec, 1)
      /\ \A m \in Models : Told(usage', exec', 1, m) = Told(usage, exec, 1, m)
  BY <1>2 DEF PaidOf, Told
<1>7. PaidOf(usage, exec, 1) <= Total(counted'[s])
  BY <1>3, <1>4, <1>5 DEF RestBill
<1>8. \A m \in Models : Told(usage, exec, 1, m) <= counted'[s][m]
  BY <1>3, <1>4 DEF RestBill
<1> QED
  BY <1>1, <1>2, <1>6, <1>7, <1>8 DEF RestBill

\* A step of the turn's own bill
LEMMA TurnBilled ==
  ASSUME RunInv, SessionFits, BillFits, InTurn,
         counted' \in [Sessions -> [Models -> Nat]],
         \A s \in Sessions : \A m \in Models : counted[s][m] <= counted'[s][m],
         \A a \in Attempts : exec'[a].whose = exec[a].whose,
         \A a \in Attempts \ {turn.e} : exec'[a].session = exec[a].session /\ usage'[a] = usage[a],
         runtime' = runtime, SameTurn(turn, turn'), InTurn',
         \A e \in Attempts : \A s \in Sessions :
           /\ e = turn.e /\ s = turn.s
           /\ TokenBill(usage, exec, e, counted[s], turn, MoreComes, Finished, cli.pipe)
           /\ runtime = "claude" =>
                CostBill(usage, exec, e, counted[s], turn, MoreComes, Finished, cli.pipe)
           => /\ TokenBill(usage', exec', e, counted'[s], turn', MoreComes', Finished', cli'.pipe)
              /\ runtime = "claude" =>
                   CostBill(usage', exec', e, counted'[s], turn', MoreComes', Finished', cli'.pipe)
  PROVE BillFits'
<1>1. PICK e \in Attempts, s \in Sessions :
        e = turn.e /\ s = turn.s /\ turn'.e = e /\ turn'.s = s
  BY TurnSession DEF SameTurn
<1>2. Owner(exec', e) => Owner(exec, e)
  BY <1>1, TwoAttempts DEF Owner
<1>3. ASSUME Owner(exec', e)
      PROVE /\ TokenBill(usage', exec', e, counted'[s], turn', MoreComes', Finished', cli'.pipe)
            /\ runtime = "claude" =>
                 CostBill(usage', exec', e, counted'[s], turn', MoreComes', Finished', cli'.pipe)
  <2>1. /\ TokenBill(usage, exec, e, counted[s], turn, MoreComes, Finished, cli.pipe)
        /\ runtime = "claude" =>
             CostBill(usage, exec, e, counted[s], turn, MoreComes, Finished, cli.pipe)
    BY <1>1, <1>2, <1>3, BillIs
  <2> QED
    BY <1>1, <2>1
<1>4. \A a \in Attempts : exec'[a].session # 0 /\ Owner(exec', a) /\ ~(InTurn' /\ a = turn'.e) =>
        RestBill(usage', exec', a, counted'[exec'[a].session])
  BY <1>1, OthersRest
<1> QED
  BY <1>1, <1>3, <1>4, BillIsNext

\* While the process writes, what is left to subtract is what was reported.
LEMMA OutputBills ==
  ASSUME RunInv, SessionFits, BillFits, NEW X, Output(X)
  PROVE BillFits'
<1>1. /\ InTurn /\ MoreComes /\ turn' = turn /\ counted' = counted /\ exec' = exec
      /\ usage' = usage /\ runtime' = runtime
      /\ counted' \in [Sessions -> [Models -> Nat]]
  BY OutputReads DEF Output, RunInv, TypeOK
<1>2. /\ \A m \in Models : Finished' /\ ~ToRead(cli'.pipe, m) /\ (runtime = "codex" => m = 1) =>
                             counted[turn.s][m] = 0
      /\ Finished' /\ runtime = "claude" /\ ~CostToRead(cli'.pipe) => Total(counted[turn.s]) = 0
  BY OutputReads
<1>3. \A m \in Models : Finished' /\ ~ToRead(cli'.pipe, m) => counted[turn.s][m] = 0
  BY <1>1, <1>2, TurnSession DEF SessionFits
<1>4. ASSUME NEW e \in Attempts, NEW s \in Sessions, e = turn.e, s = turn.s,
             TokenBill(usage, exec, e, counted[s], turn, MoreComes, Finished, cli.pipe),
             runtime = "claude" =>
               CostBill(usage, exec, e, counted[s], turn, MoreComes, Finished, cli.pipe)
      PROVE /\ TokenBill(usage', exec', e, counted'[s], turn', MoreComes', Finished', cli'.pipe)
            /\ runtime = "claude" =>
                 CostBill(usage', exec', e, counted'[s], turn', MoreComes', Finished', cli'.pipe)
  <2>1. /\ PaidOf(usage, exec, e) \in Nat /\ \A m \in Models : Told(usage, exec, e, m) \in Nat
        /\ counted[s] \in [Models -> Nat] /\ Total(counted[s]) \in Nat
    BY BillTyped
  <2>2. \A m \in Models :
          Fits(Told(usage, exec, e, m), Unwritten(turn.queue, m), counted[s][m], turn.left[m],
               MoreComes' \/ ToRead(cli'.pipe, m), Finished' /\ ~ToRead(cli'.pipe, m))
    BY <1>1, <1>3, <1>4, <2>1 DEF TokenBill, Fits
  <2>3. runtime = "claude" =>
          Fits(PaidOf(usage, exec, e), UnwrittenCost(turn.queue), Total(counted[s]), turn.pool,
               MoreComes' \/ CostToRead(cli'.pipe), Finished' /\ ~CostToRead(cli'.pipe))
    BY <1>1, <1>2, <1>4, <2>1 DEF CostBill, Fits
  <2> QED
    BY <1>1, <2>2, <2>3 DEF TokenBill, CostBill
<1>5. \A s \in Sessions : \A m \in Models : counted[s][m] <= counted'[s][m]
  BY <1>1, BillTyped
<1> QED
  BY <1>1, <1>4, <1>5, TurnBilled DEF SameTurn, InTurn

\* A token is counted, that is not reported yet.
LEMMA WorkingBills ==
  ASSUME RunInv, SessionFits, BillFits, NEW m \in Models, Working(m)
  PROVE BillFits'
<1>1. /\ InTurn /\ MoreComes /\ turn' = turn /\ exec' = exec /\ usage' = usage
      /\ runtime' = runtime /\ turn.end = "none"
      /\ counted' \in [Sessions -> [Models -> Nat]]
      /\ cli.on /\ cli'.on /\ cli'.pipe = cli.pipe
  BY WorkingCounts DEF Working, RunInv, PhaseFits, MoreComes
<1>2. ~Finished'
  <2>1. \A i \in DOMAIN cli.pipe : cli.pipe[i].t # "done"
    BY <1>1 DEF RunInv, PhaseFits, Finals
  <2> QED
    BY <1>1, <2>1 DEF Finished
<1>3. \A s \in Sessions : \A n \in Models : counted[s][n] <= counted'[s][n]
  <2> SUFFICES ASSUME NEW s \in Sessions, NEW n \in Models PROVE counted[s][n] <= counted'[s][n]
    OBVIOUS
  <2>1. counted[s] \in [Models -> Nat]
    BY BillTyped
  <2>2. counted[s][n] \in Nat
    BY <2>1
  <2>3. counted'[s][n] \in {counted[s][n], counted[s][n] + 1}
    BY WorkingCounts
  <2> QED
    BY <2>2, <2>3
<1>4. ASSUME NEW e \in Attempts, NEW s \in Sessions, e = turn.e, s = turn.s,
             TokenBill(usage, exec, e, counted[s], turn, MoreComes, Finished, cli.pipe),
             runtime = "claude" =>
               CostBill(usage, exec, e, counted[s], turn, MoreComes, Finished, cli.pipe)
      PROVE /\ TokenBill(usage', exec', e, counted'[s], turn', MoreComes', Finished', cli'.pipe)
            /\ runtime = "claude" =>
                 CostBill(usage', exec', e, counted'[s], turn', MoreComes', Finished', cli'.pipe)
  <2>1. /\ PaidOf(usage, exec, e) \in Nat /\ \A n \in Models : Told(usage, exec, e, n) \in Nat
        /\ counted[s] \in [Models -> Nat] /\ Total(counted[s]) \in Nat
        /\ counted'[s] \in [Models -> Nat]
    BY <1>1, BillTyped
  <2>2. Total(counted'[s]) \in Nat /\ Total(counted[s]) <= Total(counted'[s])
    BY <1>3, <2>1, TotalIsNat, TotalGrows
  <2>3. \A n \in Models :
          Fits(Told(usage, exec, e, n), Unwritten(turn.queue, n), counted'[s][n], turn.left[n],
               MoreComes' \/ ToRead(cli'.pipe, n), Finished' /\ ~ToRead(cli'.pipe, n))
    <3> SUFFICES ASSUME NEW n \in Models
        PROVE Fits(Told(usage, exec, e, n), Unwritten(turn.queue, n), counted'[s][n], turn.left[n],
                   MoreComes' \/ ToRead(cli'.pipe, n), Finished' /\ ~ToRead(cli'.pipe, n))
      OBVIOUS
    <3>1. /\ Told(usage, exec, e, n) <= counted[s][n] /\ turn.left[n] = Told(usage, exec, e, n)
          /\ Unwritten(turn.queue, n) = 0
      BY <1>1, <1>4, <2>1 DEF TokenBill, Fits
    <3>2. counted[s][n] <= counted'[s][n] /\ counted[s][n] \in Nat /\ counted'[s][n] \in Nat
          /\ Told(usage, exec, e, n) \in Nat
      BY <1>3, <2>1
    <3> QED
      BY <1>2, <3>1, <3>2 DEF Fits
  <2>4. runtime = "claude" =>
          Fits(PaidOf(usage, exec, e), UnwrittenCost(turn.queue), Total(counted'[s]), turn.pool,
               MoreComes' \/ CostToRead(cli'.pipe), Finished' /\ ~CostToRead(cli'.pipe))
    BY <1>1, <1>2, <1>4, <2>1, <2>2 DEF CostBill, Fits
  <2> QED
    BY <1>1, <2>3, <2>4 DEF TokenBill, CostBill
<1> QED
  BY <1>1, <1>3, <1>4, TurnBilled DEF SameTurn, InTurn

\* The process starts, and has all to report.
LEMMA OpensBills ==
  ASSUME RunInv, SessionFits, BillFits, Opens, ~TurnOver
  PROVE BillFits'
<1>1. /\ InTurn /\ InTurn' /\ MoreComes /\ exec' = exec /\ usage' = usage /\ counted' = counted
      /\ runtime' = runtime /\ turn.end = "none" /\ turn'.end = "none"
      /\ SameTurn(turn, turn') /\ SameBill(turn, turn') /\ turn'.queue = turn.queue
      /\ cli'.pipe = <<[t |-> "session"]>>
      /\ counted' \in [Sessions -> [Models -> Nat]]
  BY OpensSteps DEF RunInv, TypeOK, PhaseFits, MoreComes, InTurn
<1>2. ~Finished'
  <2>1. \A i \in DOMAIN cli'.pipe : cli'.pipe[i].t # "done"
    BY <1>1
  <2> QED
    BY <1>1, <2>1 DEF Finished
<1>3. ASSUME NEW e \in Attempts, NEW s \in Sessions, e = turn.e, s = turn.s,
             TokenBill(usage, exec, e, counted[s], turn, MoreComes, Finished, cli.pipe),
             runtime = "claude" =>
               CostBill(usage, exec, e, counted[s], turn, MoreComes, Finished, cli.pipe)
      PROVE /\ TokenBill(usage', exec', e, counted'[s], turn', MoreComes', Finished', cli'.pipe)
            /\ runtime = "claude" =>
                 CostBill(usage', exec', e, counted'[s], turn', MoreComes', Finished', cli'.pipe)
  BY <1>1, <1>2, <1>3 DEF TokenBill, CostBill, Fits, SameBill
<1>4. \A s \in Sessions : \A m \in Models : counted[s][m] <= counted'[s][m]
  BY <1>1, BillTyped
<1> QED
  BY <1>1, <1>3, <1>4, TurnBilled

\* A turn is over.
LEMMA OverBills ==
  ASSUME RunInv, SessionFits, BillFits, ~InTurn', UNCHANGED <<usage, counted>>,
         \A e \in Attempts : exec'[e].whose = exec[e].whose /\ exec'[e].session = exec[e].session
  PROVE BillFits'
<1>1. ASSUME NEW e \in Attempts, exec'[e].session # 0, Owner(exec', e)
      PROVE RestBill(usage', exec', e, counted'[exec'[e].session])
  <2>1. exec[e].session # 0 /\ Owner(exec, e) /\ exec'[e].session = exec[e].session
    BY <1>1, TwoAttempts DEF Owner
  <2>2. RestBill(usage, exec, e, counted[exec[e].session])
    BY <2>1, AllWithin
  <2>3. /\ PaidOf(usage', exec', e) = PaidOf(usage, exec, e)
        /\ \A m : Told(usage', exec', e, m) = Told(usage, exec, e, m)
    BY DEF PaidOf, Told
  <2> QED
    BY <2>1, <2>2, <2>3 DEF RestBill
<1> QED
  BY <1>1, BillIsNext

\* An event is read: a total is charged against what was reported of it.
LEMMA PullBills ==
  ASSUME RunInv, OneUsageWaits, UsageFits, SessionFits, BillFits, Pull
  PROVE BillFits'
<1>1. PICK ev \in Event : ev = Head(cli.pipe)
  BY PullFields
<1>2. /\ turn.pc = "pull" /\ turn.end = "none" /\ cli.pipe # <<>> /\ cli'.pipe = Tail(cli.pipe)
      /\ cli'.on = cli.on /\ turn'.lost = turn.lost /\ SameTurn(turn, turn') /\ PulledWrites(ev)
  BY <1>1, PullFields
<1>3. /\ UNCHANGED <<role, runtime, exec, usage, counted>> /\ cli.pipe \in Seq(Event)
      /\ counted' \in [Sessions -> [Models -> Nat]]
  BY DEF Pull, kinds, RunInv, RunOK, TypeOK, ProcessRecord
<1>4. InTurn /\ InTurn' /\ (MoreComes' <=> cli.on) /\ (MoreComes <=> cli.on)
  <2>1. turn'.pc \in {"pull", "await", "closing"}
    BY <1>2, EventFields DEF PulledWrites
  <2> QED
    BY <1>2, <2>1 DEF InTurn, MoreComes
<1>5. Finished' => Finished
  <2>1. /\ 1 \in DOMAIN cli.pipe /\ cli.pipe[1] = ev
        /\ \A i \in DOMAIN Tail(cli.pipe) :
             i + 1 \in DOMAIN cli.pipe /\ Tail(cli.pipe)[i] = cli.pipe[i + 1]
    BY <1>1, <1>2, <1>3, TailAt
  <2>2. turn'.end = "done" => ev.t = "done"
    BY <1>2, EventFields DEF PulledWrites
  <2> QED
    BY <1>2, <2>1, <2>2 DEF Finished
<1>6. ASSUME NEW e \in Attempts, NEW s \in Sessions, e = turn.e, s = turn.s,
             TokenBill(usage, exec, e, counted[s], turn, MoreComes, Finished, cli.pipe),
             runtime = "claude" =>
               CostBill(usage, exec, e, counted[s], turn, MoreComes, Finished, cli.pipe)
      PROVE /\ TokenBill(usage', exec', e, counted'[s], turn', MoreComes', Finished', cli'.pipe)
            /\ runtime = "claude" =>
                 CostBill(usage', exec', e, counted'[s], turn', MoreComes', Finished', cli'.pipe)
  <2> PICK f \in [Models -> Nat] : f = counted[s]
    BY BillTyped
  <2> PICK pipe \in Seq(Event) : pipe = cli.pipe
    BY <1>3
  <2> PICK rest : rest = Tail(pipe)
    OBVIOUS
  <2>1. /\ PaidOf(usage, exec, e) \in Nat /\ \A m \in Models : Told(usage, exec, e, m) \in Nat
        /\ f \in [Models -> Nat] /\ Total(f) \in Nat
        /\ turn.left \in [Models -> Nat] /\ turn.pool \in Nat
    BY BillTyped
  <2>2. UsageReports(pipe, f)
    BY <1>6 DEF UsageFits
  <2>3. /\ ev.t # "usage" => /\ \A m : ToRead(rest, m) <=> ToRead(pipe, m)
                             /\ CostToRead(rest) <=> CostToRead(pipe)
        /\ ev.t = "usage" =>
             /\ ev.n = f[ev.m] /\ ev.c \in {0, Total(f)}
             /\ ToRead(pipe, ev.m) /\ ~ToRead(rest, ev.m)
             /\ \A m : m # ev.m => (ToRead(rest, m) <=> ToRead(pipe, m))
             /\ ev.c # 0 => CostToRead(pipe) /\ ~CostToRead(rest)
             /\ ev.c = 0 => (CostToRead(rest) <=> CostToRead(pipe))
    <3>1. pipe # <<>> /\ Head(pipe) = ev
      BY <1>1, <1>2
    <3> QED
      BY <2>2, <3>1, ReportsTail
  <2>4. /\ \A m \in Models :
             Fits(Told(usage, exec, e, m), 0, f[m], turn.left[m],
                  cli.on \/ ToRead(pipe, m), Finished /\ ~ToRead(pipe, m))
        /\ runtime = "claude" =>
             Fits(PaidOf(usage, exec, e), 0, Total(f), turn.pool,
                  cli.on \/ CostToRead(pipe), Finished /\ ~CostToRead(pipe))
    <3>1. UnwrittenCost(turn.queue) = 0 /\ \A m : Unwritten(turn.queue, m) = 0
      BY PullWaits
    <3> QED
      BY <1>4, <1>6, <3>1 DEF TokenBill, CostBill
  <2>5. CASE ev.t # "usage"
    <3>1. /\ UnwrittenCost(turn'.queue) = 0 /\ \A m : Unwritten(turn'.queue, m) = 0
          /\ SameBill(turn, turn')
      BY <1>1, <2>5, PullWaits
    <3>2. /\ \A m \in Models :
             Fits(Told(usage, exec, e, m), 0, f[m], turn.left[m],
                  cli.on \/ ToRead(rest, m), Finished' /\ ~ToRead(rest, m))
          /\ runtime = "claude" =>
             Fits(PaidOf(usage, exec, e), 0, Total(f), turn.pool,
                  cli.on \/ CostToRead(rest), Finished' /\ ~CostToRead(rest))
      BY <1>5, <2>3, <2>4, <2>5 DEF Fits
    <3> QED
      BY <1>2, <1>3, <1>4, <3>1, <3>2 DEF TokenBill, CostBill, SameBill
  <2>6. CASE ev.t = "usage"
    <3> PICK n, c : n = Least(turn.left[ev.m], ev.n) /\ c = Least(turn.pool, ev.c)
      OBVIOUS
    <3>1. /\ ev \in Counts
          /\ \A m : Unwritten(turn'.queue, m) = IF ev.m = m THEN ev.n - n ELSE 0
          /\ UnwrittenCost(turn'.queue) = ev.c - c
          /\ turn'.left = [turn.left EXCEPT ![ev.m] = @ - n] /\ turn'.pool = turn.pool - c
      BY <1>1, <2>6, PullWaits
    <3>2. ev.m \in Models
      BY <3>1 DEF Counts
    <3>3. ~cli.on
      <4>1. \E i \in DOMAIN cli.pipe : cli.pipe[i].t = "usage"
        BY <2>3, <2>6 DEF ToRead, UsageIn
      <4> QED
        BY <4>1 DEF RunInv, PhaseFits
    <3>4. n = Told(usage, exec, e, ev.m) /\ n <= f[ev.m] /\ n \in Nat /\ f[ev.m] \in Nat
      <4>1. turn.left[ev.m] = Told(usage, exec, e, ev.m) /\ Told(usage, exec, e, ev.m) <= f[ev.m]
        BY <2>1, <2>3, <2>4, <2>6, <3>2 DEF Fits
      <4> QED
        BY <2>1, <2>3, <2>6, <3>2, <4>1 DEF Least
    <3>5. ASSUME NEW m \in Models
          PROVE Fits(Told(usage, exec, e, m), Unwritten(turn'.queue, m), f[m], turn'.left[m],
                     cli.on \/ ToRead(rest, m), Finished' /\ ~ToRead(rest, m))
      <4>1. CASE m = ev.m
        <5>1. Unwritten(turn'.queue, m) = f[m] - n /\ Told(usage, exec, e, m) = n
              /\ ~ToRead(rest, m)
          BY <2>3, <2>6, <3>1, <3>4, <4>1
        <5>2. n + (f[m] - n) = f[m] /\ n + (f[m] - n) <= f[m]
          BY <3>4, <4>1
        <5> QED
          BY <3>3, <5>1, <5>2 DEF Fits
      <4>2. CASE m # ev.m
        <5>1. Unwritten(turn'.queue, m) = 0 /\ turn'.left[m] = turn.left[m]
              /\ (ToRead(rest, m) <=> ToRead(pipe, m))
          BY <2>1, <2>3, <2>6, <3>1, <4>2
        <5> QED
          BY <1>5, <2>4, <5>1 DEF Fits
      <4> QED
        BY <4>1, <4>2
    <3>6. ASSUME runtime = "claude"
          PROVE Fits(PaidOf(usage, exec, e), UnwrittenCost(turn'.queue), Total(f), turn'.pool,
                     cli.on \/ CostToRead(rest), Finished' /\ ~CostToRead(rest))
      <4>1. Fits(PaidOf(usage, exec, e), 0, Total(f), turn.pool,
                 cli.on \/ CostToRead(pipe), Finished /\ ~CostToRead(pipe))
        BY <2>4, <3>6
      <4>2. CASE ev.c = 0
        <5>1. c = 0 /\ UnwrittenCost(turn'.queue) = 0 /\ turn'.pool = turn.pool
              /\ (CostToRead(rest) <=> CostToRead(pipe))
          <6>1. c = 0
            BY <2>1, <4>2 DEF Least
          <6> QED
            BY <2>1, <2>3, <2>6, <3>1, <4>2, <6>1
        <5> QED
          BY <1>5, <4>1, <5>1 DEF Fits
      <4>3. CASE ev.c # 0
        <5>1. ev.c = Total(f) /\ CostToRead(pipe) /\ ~CostToRead(rest)
          BY <2>3, <2>6, <4>3
        <5>2. turn.pool = PaidOf(usage, exec, e) /\ PaidOf(usage, exec, e) <= Total(f)
          BY <2>1, <4>1, <5>1 DEF Fits
        <5>3. c = PaidOf(usage, exec, e) /\ c \in Nat /\ c <= Total(f)
          BY <2>1, <5>1, <5>2 DEF Least
        <5>4. UnwrittenCost(turn'.queue) = Total(f) - c /\ c + (Total(f) - c) = Total(f)
              /\ c + (Total(f) - c) <= Total(f)
          BY <2>1, <3>1, <5>1, <5>3
        <5> QED
          BY <3>3, <5>1, <5>3, <5>4 DEF Fits
      <4> QED
        BY <4>2, <4>3
    <3> QED
      BY <1>2, <1>3, <1>4, <3>5, <3>6 DEF TokenBill, CostBill
  <2> QED
    BY <2>5, <2>6
<1>7. \A s \in Sessions : \A m \in Models : counted[s][m] <= counted'[s][m]
  BY <1>3, BillTyped
<1> QED
  BY <1>3, <1>4, <1>2, <1>6, <1>7, TurnBilled

\* A write is taken from the queue; its usage is stored, or not.
LEMMA DequeuedBills ==
  ASSUME RunInv, OneUsageWaits, SessionFits, BillFits, Dequeued, Writes \/ WriteFails
  PROVE BillFits'
<1>1. PICK w \in Write : w = Head(turn.queue)
  BY DequeuedWaits
<1>2. /\ InTurn /\ turn.pc \in {"pull", "await", "closing", "drain"} /\ turn.e \in Attempts
      /\ SameTurn(turn, turn') /\ SameBill(turn, turn') /\ turn'.end = turn.end
      /\ UNCHANGED <<runtime, counted>> /\ counted' \in [Sessions -> [Models -> Nat]]
  BY QueueInTurn DEF Dequeued, RunInv, TypeOK
<1>3. InTurn' /\ turn'.pc # "opening"
  BY <1>2 DEF Dequeued, InTurn
<1>4. /\ w.t # "usage" => /\ \A m : Unwritten(turn'.queue, m) = Unwritten(turn.queue, m)
                          /\ UnwrittenCost(turn'.queue) = UnwrittenCost(turn.queue)
      /\ w.t = "usage" =>
           /\ w \in Counts
           /\ \A m : Unwritten(turn.queue, m) = IF w.m = m THEN w.n ELSE 0
           /\ \A m : Unwritten(turn'.queue, m) = 0
           /\ UnwrittenCost(turn.queue) = w.c /\ UnwrittenCost(turn'.queue) = 0
  BY <1>1, DequeuedWaits
<1>5. cli.pipe = cli'.pipe /\ (cli'.on => cli.on)
  <2>1. CASE Writes
    BY <2>1, WritesSteps, KilledFields
       DEF Stored, SessionStored, UsageStored, GoesOn, Halts, RunInv, RunOK
  <2>2. CASE WriteFails
    BY <2>2, FailsSteps DEF WriteLost, GoesOn
  <2> QED
    BY <2>1, <2>2
<1>6. MoreComes' => MoreComes
  BY <1>3, <1>5 DEF MoreComes
<1>7. \A s \in Sessions : \A m \in Models : counted[s][m] <= counted'[s][m]
  BY <1>2, BillTyped
<1>8. CASE WriteFails
  <2>1. exec' = exec /\ usage' = usage /\ turn'.lost
    BY <1>8, FailsSteps DEF WriteLost
  <2>2. ~Finished'
    BY <2>1 DEF Finished
  <2>3. ASSUME NEW e \in Attempts, NEW s \in Sessions, e = turn.e, s = turn.s,
               TokenBill(usage, exec, e, counted[s], turn, MoreComes, Finished, cli.pipe),
               runtime = "claude" =>
                 CostBill(usage, exec, e, counted[s], turn, MoreComes, Finished, cli.pipe)
        PROVE /\ TokenBill(usage', exec', e, counted'[s], turn', MoreComes', Finished', cli'.pipe)
              /\ runtime = "claude" =>
                   CostBill(usage', exec', e, counted'[s], turn', MoreComes', Finished', cli'.pipe)
    <3> PICK f \in [Models -> Nat] : f = counted[s]
      BY BillTyped
    <3>1. /\ PaidOf(usage, exec, e) \in Nat /\ \A m \in Models : Told(usage, exec, e, m) \in Nat
          /\ Total(f) \in Nat
          /\ UnwrittenCost(turn.queue) \in Nat /\ \A m : Unwritten(turn.queue, m) \in Nat
      BY BillTyped
    <3>2. /\ \A m : Unwritten(turn'.queue, m) \in {0, Unwritten(turn.queue, m)}
          /\ UnwrittenCost(turn'.queue) \in {0, UnwrittenCost(turn.queue)}
      BY <1>4
    <3>3. \A m \in Models :
            Fits(Told(usage, exec, e, m), Unwritten(turn'.queue, m), f[m], turn.left[m],
                 MoreComes' \/ ToRead(cli.pipe, m), Finished' /\ ~ToRead(cli.pipe, m))
      <4> SUFFICES ASSUME NEW m \in Models
          PROVE Fits(Told(usage, exec, e, m), Unwritten(turn'.queue, m), f[m], turn.left[m],
                     MoreComes' \/ ToRead(cli.pipe, m), Finished' /\ ~ToRead(cli.pipe, m))
        OBVIOUS
      <4>1. Fits(Told(usage, exec, e, m), Unwritten(turn.queue, m), f[m], turn.left[m],
                 MoreComes \/ ToRead(cli.pipe, m), Finished /\ ~ToRead(cli.pipe, m))
        BY <2>3 DEF TokenBill
      <4> QED
        BY <1>6, <2>2, <3>1, <3>2, <4>1 DEF Fits
    <3>4. runtime = "claude" =>
            Fits(PaidOf(usage, exec, e), UnwrittenCost(turn'.queue), Total(f), turn.pool,
                 MoreComes' \/ CostToRead(cli.pipe), Finished' /\ ~CostToRead(cli.pipe))
      BY <1>6, <2>2, <2>3, <3>1, <3>2 DEF CostBill, Fits
    <3> QED
      BY <1>2, <1>5, <2>1, <3>3, <3>4 DEF TokenBill, CostBill, SameBill
  <2> QED
    BY <1>2, <1>3, <1>7, <2>1, <2>3, TurnBilled
<1>9. CASE Writes /\ w.t # "usage"
  <2>1. /\ usage' = usage /\ turn'.lost = turn.lost
        /\ \A e \in Attempts : exec'[e].whose = exec[e].whose
        /\ \A e \in Attempts \ {turn.e} : exec'[e].session = exec[e].session
    <3>1. Stored(w) \/ SessionStored(w)
      BY <1>1, <1>9, WritesSteps DEF UsageStored
    <3> QED
      BY <1>2, <3>1 DEF Stored, SessionStored, RowChange
  <2>2. Finished' <=> Finished
    BY <1>2, <1>5, <2>1 DEF Finished
  <2> QED
    BY <1>2, <1>3, <1>4, <1>5, <1>6, <1>9, <2>1, <2>2, BillKept
<1>10. CASE Writes /\ w.t = "usage"
  <2>1. /\ exec' = exec /\ turn'.lost = turn.lost
        /\ usage'[turn.e].main = [usage[turn.e].main EXCEPT ![w.m] = @ + w.n]
        /\ usage'[turn.e].cost = usage[turn.e].cost + (IF runtime = "codex" THEN w.n ELSE w.c)
        /\ \A e \in Attempts \ {turn.e} : usage'[e] = usage[e]
    <3>1. UsageStored(w)
      BY <1>1, <1>10, WritesSteps DEF Stored, SessionStored
    <3> QED
      BY <3>1 DEF UsageStored
  <2>2. Finished' => Finished
    BY <1>2, <1>5, <2>1 DEF Finished
  <2>3. w.m \in Models /\ w.n \in Nat /\ w.c \in Nat
    BY <1>4, <1>10 DEF Counts
  <2>4. ASSUME NEW e \in Attempts, NEW s \in Sessions, e = turn.e, s = turn.s,
               TokenBill(usage, exec, e, counted[s], turn, MoreComes, Finished, cli.pipe),
               runtime = "claude" =>
                 CostBill(usage, exec, e, counted[s], turn, MoreComes, Finished, cli.pipe)
        PROVE /\ TokenBill(usage', exec', e, counted'[s], turn', MoreComes', Finished', cli'.pipe)
              /\ runtime = "claude" =>
                   CostBill(usage', exec', e, counted'[s], turn', MoreComes', Finished', cli'.pipe)
    <3> PICK f \in [Models -> Nat] : f = counted[s]
      BY BillTyped
    <3>1. /\ PaidOf(usage, exec, e) \in Nat /\ \A m \in Models : Told(usage, exec, e, m) \in Nat
          /\ \A a \in Attempts : usage[a].main \in [Models -> Nat] /\ usage[a].cost \in Nat
          /\ Total(f) \in Nat
      BY BillTyped
    <3>2. e = 1 => exec[e].whose # "taken"
      BY DEF SessionFits
    <3>3. \A m \in Models : Told(usage', exec', e, m) = Told(usage, exec, e, m) + Unwritten(turn.queue, m)
      <4> SUFFICES ASSUME NEW m \in Models
          PROVE Told(usage', exec', e, m) = Told(usage, exec, e, m) + Unwritten(turn.queue, m)
        OBVIOUS
      <4>1. usage'[e].main[m] = usage[e].main[m] + Unwritten(turn.queue, m)
        BY <1>4, <1>10, <2>1, <2>3, <2>4, <3>1
      <4>2. CASE exec[e].whose = "taken"
        <5>1. usage'[1] = usage[1] /\ usage[1].main[m] \in Nat /\ usage[e].main[m] \in Nat
              /\ Unwritten(turn.queue, m) \in Nat
          BY <1>4, <1>10, <2>1, <2>3, <2>4, <3>1, <3>2, <4>2, TwoAttempts
        <5> QED
          BY <2>1, <4>1, <4>2, <5>1 DEF Told
      <4>3. CASE exec[e].whose # "taken"
        <5>1. usage[e].main[m] \in Nat /\ Unwritten(turn.queue, m) \in Nat
          BY <1>4, <1>10, <2>3, <3>1
        <5> QED
          BY <2>1, <4>1, <4>3, <5>1 DEF Told
      <4> QED
        BY <4>2, <4>3
    <3>4. runtime = "claude" => PaidOf(usage', exec', e) = PaidOf(usage, exec, e) + w.c
      <4> SUFFICES ASSUME runtime = "claude"
          PROVE PaidOf(usage', exec', e) = PaidOf(usage, exec, e) + w.c
        OBVIOUS
      <4>1. usage'[e].cost = usage[e].cost + w.c
        BY <2>1, <2>4
      <4>2. exec[e].whose = "taken" => usage'[1] = usage[1]
        BY <2>1, <2>4, <3>2, TwoAttempts
      <4>3. usage[1].cost \in Nat /\ usage[e].cost \in Nat
        BY <3>1, TwoAttempts
      <4> QED
        BY <2>1, <2>3, <4>1, <4>2, <4>3 DEF PaidOf
    <3>5. ASSUME NEW m \in Models
          PROVE Fits(Told(usage', exec', e, m), Unwritten(turn'.queue, m), f[m], turn.left[m],
                     MoreComes' \/ ToRead(cli.pipe, m), Finished' /\ ~ToRead(cli.pipe, m))
      <4>1. Fits(Told(usage, exec, e, m), Unwritten(turn.queue, m), f[m], turn.left[m],
                 MoreComes \/ ToRead(cli.pipe, m), Finished /\ ~ToRead(cli.pipe, m))
        BY <2>4 DEF TokenBill
      <4>2. Unwritten(turn'.queue, m) = 0 /\ Unwritten(turn.queue, m) \in Nat
        BY <1>4, <1>10, <2>3
      <4>3. Told(usage, exec, e, m) \in Nat
        BY <3>1
      <4> QED
        BY <1>6, <2>2, <3>3, <4>1, <4>2, <4>3 DEF Fits
    <3>6. ASSUME runtime = "claude"
          PROVE Fits(PaidOf(usage', exec', e), UnwrittenCost(turn'.queue), Total(f), turn.pool,
                     MoreComes' \/ CostToRead(cli.pipe), Finished' /\ ~CostToRead(cli.pipe))
      <4>1. Fits(PaidOf(usage, exec, e), w.c, Total(f), turn.pool,
                 MoreComes \/ CostToRead(cli.pipe), Finished /\ ~CostToRead(cli.pipe))
        BY <1>4, <1>10, <2>4, <3>6 DEF CostBill
      <4>2. UnwrittenCost(turn'.queue) = 0
        BY <1>4, <1>10
      <4> QED
        BY <1>6, <2>2, <2>3, <3>1, <3>4, <3>6, <4>1, <4>2 DEF Fits
    <3> QED
      BY <1>2, <1>5, <3>5, <3>6 DEF TokenBill, CostBill, SameBill
  <2> QED
    BY <1>2, <1>3, <1>7, <2>1, <2>4, TurnBilled
<1> QED
  BY <1>8, <1>9, <1>10

\* A turn of e begins with what was reported of its session.
Carries(e, s, base, paid) ==
  Owner(exec', e) =>
    /\ \A m \in Models : base[m] = Told(usage, exec', e, m) /\ base[m] <= counted[s][m]
    /\ paid = PaidOf(usage, exec', e) /\ paid <= Total(counted[s])

\* A new turn has reported what its execution, or the one it takes over from, has.
LEMMA NewTurnBills ==
  ASSUME RunInv, SessionFits, BillFits, NEW e \in Attempts, NEW s, NEW fresh, NEW base, NEW paid,
         NewTurn(e, s, fresh, base, paid),
         NEW st, NEW session, NEW whose, RowChange(e, st, session, whose),
         e = 1 => exec[2].whose = "none", Carries(e, s, base, paid)
  PROVE BillFits'
<1>1. /\ ~InTurn /\ InTurn' /\ turn'.e = e /\ turn'.s = s
      /\ turn'.left = base /\ turn'.pool = paid
      /\ turn'.queue = <<>> /\ turn'.end = "none" /\ cli'.pipe = <<>>
      /\ UNCHANGED <<runtime, usage, counted>>
      /\ \A a \in Attempts \ {e} : exec'[a] = exec[a]
  BY NoProcessTyped DEF NewTurn, Begun, RowChange, InTurn
<1>2. ~Finished'
  BY <1>1 DEF Finished
<1>3. UnwrittenCost(turn'.queue) = 0 /\ \A m : Unwritten(turn'.queue, m) = 0
  BY <1>1, EmptyQueue, NoUsageWaits
<1>4. usage' = usage /\ counted' = counted
  BY <1>1
<1>5. ASSUME Owner(exec', e)
      PROVE /\ TokenBill(usage', exec', e, counted'[s], turn', MoreComes', Finished', cli'.pipe)
            /\ CostBill(usage', exec', e, counted'[s], turn', MoreComes', Finished', cli'.pipe)
  <2>1. s \in Sessions
    <3>1. /\ s \in 1 .. bounds'.turns /\ bounds'.turns <= MaxTurns
          /\ bounds'.turns \in 0 .. MaxTurns
      BY DEF NewTurn, Bounds
    <3> QED
      BY <3>1, Constants DEF Sessions
  <2>2. /\ \A a \in Attempts : usage[a].main \in [Models -> Nat] /\ usage[a].cost \in Nat
        /\ counted[s] \in [Models -> Nat] /\ Total(counted[s]) \in Nat
    BY <2>1, BillTyped
  <2>3. /\ PaidOf(usage, exec', e) \in Nat /\ \A m \in Models : Told(usage, exec', e, m) \in Nat
    BY <2>2, TwoAttempts DEF PaidOf, Told
  <2>4. \A m \in Models :
          Fits(Told(usage, exec', e, m), 0, counted[s][m], base[m], TRUE, FALSE)
    BY <1>5, <2>2, <2>3 DEF Fits, Carries
  <2>5. Fits(PaidOf(usage, exec', e), 0, Total(counted[s]), paid, TRUE, FALSE)
    BY <1>5, <2>2, <2>3 DEF Fits, Carries
  <2> QED
    BY <1>1, <1>2, <1>3, <1>4, <2>4, <2>5 DEF TokenBill, CostBill, Fits
<1>6. ASSUME NEW a \in Attempts, exec'[a].session # 0, Owner(exec', a), a # e
      PROVE RestBill(usage', exec', a, counted'[exec'[a].session])
  <2>1. a = 1 /\ e = 2 /\ exec'[1] = exec[1] /\ exec[1].whose = "own"
    BY <1>1, <1>6, TwoAttempts DEF Owner
  <2>2. RestBill(usage, exec, 1, counted[exec[1].session])
    BY <1>1, <1>6, <2>1, BillIs DEF Owner
  <2>3. /\ PaidOf(usage', exec', 1) = PaidOf(usage, exec, 1)
        /\ \A m : Told(usage', exec', 1, m) = Told(usage, exec, 1, m)
    BY <1>4, <2>1 DEF PaidOf, Told
  <2> QED
    BY <1>4, <2>1, <2>2, <2>3 DEF RestBill
<1> QED
  BY <1>1, <1>5, <1>6, BillIsNext

LEMMA TurnsBills ==
  ASSUME RunInv, SessionFits, BillFits, Turns
  PROVE BillFits'
<1>1. ASSUME NEW e \in Attempts, Starts(e) PROVE BillFits'
  <2> PICK s : s = bounds.turns + 1
    OBVIOUS
  <2>1. /\ exec[e].st = "ASSIGNED" /\ exec[e].whose = "none"
        /\ NewTurn(e, s, FALSE, Zero, 0)
        /\ RowChange(e, "ASSIGNED", exec[e].session, "own")
    BY <1>1, StartsSteps
  <2>2. usage[e].main = Zero /\ usage[e].cost = 0 /\ (e = 1 => exec[2].whose = "none")
    BY <2>1 DEF SessionFits
  <2>3. s \in Sessions
    BY <2>1 DEF NewTurn, Bounds, Sessions
  <2>4. counted[s] \in [Models -> Nat] /\ Total(counted[s]) \in Nat
    BY <2>3, BillTyped
  <2>5. exec'[e].whose = "own"
    BY <2>1 DEF RowChange
  <2>6. Carries(e, s, Zero, 0)
    BY <2>2, <2>4, <2>5 DEF Told, PaidOf, Zero, Carries
  <2> QED
    BY <2>1, <2>2, <2>6, NewTurnBills
<1>2. CASE TakesOver
  <2> PICK s : s = exec[1].session
    OBVIOUS
  <2>1. /\ exec[2].whose = "none" /\ s # 0
        /\ NewTurn(2, s, FALSE, usage[1].main, usage[1].cost)
        /\ RowChange(2, "RUNNING", s, "taken")
    BY <1>2, TakesOverSteps
  <2>2. usage[2].main = Zero /\ usage[2].cost = 0
    BY <2>1, TwoAttempts DEF SessionFits
  <2>3. exec'[1] = exec[1] /\ exec'[2].whose = "taken"
    BY <2>1, TwoAttempts DEF RowChange
  <2>4. ASSUME Owner(exec', 2)
        PROVE /\ \A m \in Models : usage[1].main[m] = Told(usage, exec', 2, m)
                                   /\ usage[1].main[m] <= counted[s][m]
              /\ usage[1].cost = PaidOf(usage, exec', 2) /\ usage[1].cost <= Total(counted[s])
    <3>1. exec[1].whose = "own"
      BY <2>3, <2>4 DEF Owner
    <3>2. RestBill(usage, exec, 1, counted[s])
      BY <2>1, <3>1, AllWithin, TwoAttempts DEF Owner
    <3>3. /\ \A m \in Models : Told(usage, exec, 1, m) = usage[1].main[m]
                               /\ Told(usage, exec', 2, m) = usage[1].main[m]
          /\ PaidOf(usage, exec, 1) = usage[1].cost /\ PaidOf(usage, exec', 2) = usage[1].cost
      <4>1. /\ \A e \in Attempts : usage[e].main \in [Models -> Nat] /\ usage[e].cost \in Nat
        BY BillTyped
      <4> QED
        BY <2>2, <2>3, <3>1, <4>1, TwoAttempts DEF Told, PaidOf, Zero
    <3> QED
      BY <3>2, <3>3 DEF RestBill
  <2>5. Carries(2, s, usage[1].main, usage[1].cost)
    BY <2>4 DEF Carries
  <2> QED
    BY <2>1, <2>5, NewTurnBills, TwoAttempts
<1> DEFINE e == Current
<1>3. e \in Attempts /\ (e = 1 => exec[2].whose = "none")
  BY CurrentIs DEF SessionFits
<1> HIDE DEF e
<1>4. CASE Resumes(e)
  <2> PICK s, whose : s = exec[e].session
                      /\ whose = IF exec[e].whose = "taken" THEN "shared" ELSE exec[e].whose
    OBVIOUS
  <2> PICK a \in Attempts : a = e
    BY <1>3
  <2>1. /\ s # 0 /\ NewTurn(a, s, FALSE, usage[a].main, usage[a].cost)
        /\ RowChange(a, "RUNNING", s, whose)
    BY <1>3, <1>4, ResumesSteps
  <2>2. exec'[a].whose = whose
    BY <2>1 DEF RowChange
  <2>4. a = 1 => exec[2].whose = "none"
    BY <1>3
  <2>3. ASSUME Owner(exec', a)
        PROVE /\ \A m \in Models : usage[a].main[m] = Told(usage, exec', a, m)
                                   /\ usage[a].main[m] <= counted[s][m]
              /\ usage[a].cost = PaidOf(usage, exec', a) /\ usage[a].cost <= Total(counted[s])
    <3>1. whose = "own" /\ exec[a].whose = "own"
      BY <2>2, <2>3 DEF Owner
    <3>2. RestBill(usage, exec, a, counted[s])
      BY <2>1, <3>1, AllWithin DEF Owner
    <3>3. /\ \A m \in Models : Told(usage, exec, a, m) = usage[a].main[m]
                               /\ Told(usage, exec', a, m) = usage[a].main[m]
          /\ PaidOf(usage, exec, a) = usage[a].cost /\ PaidOf(usage, exec', a) = usage[a].cost
      <4>1. usage[a].main \in [Models -> Nat] /\ usage[a].cost \in Nat
        BY BillTyped
      <4> QED
        BY <2>2, <3>1, <4>1 DEF Told, PaidOf
    <3> QED
      BY <3>2, <3>3 DEF RestBill
  <2> PICK base, paid : base = usage[a].main /\ paid = usage[a].cost
    OBVIOUS
  <2>5. /\ Carries(a, s, base, paid)
        /\ NewTurn(a, s, FALSE, base, paid) /\ RowChange(a, "RUNNING", s, whose)
    BY <2>1, <2>3 DEF Carries
  <2> QED
    BY <2>4, <2>5, NewTurnBills
<1>5. CASE StartsAfresh(e)
  <2> PICK a \in Attempts : a = e
    BY <1>3
  <2> PICK s : s = bounds.turns + 1
    OBVIOUS
  <2>1. /\ NewTurn(a, s, TRUE, Zero, 0) /\ RowChange(a, "RUNNING", exec[a].session, "replaced")
    BY <1>3, <1>5, StartsAfreshSteps
  <2>2. Carries(a, s, Zero, 0)
    BY <2>1 DEF Owner, RowChange, Carries
  <2> QED
    BY <1>3, <2>1, <2>2, NewTurnBills
<1> QED
  BY <1>1, <1>2, <1>4, <1>5 DEF Turns, e

LEMMA BillStep ==
  ASSUME RunInv, OneUsageWaits, UsageFits, SessionFits, BillFits, [Next]_vars
  PROVE BillFits'
<1>1. CASE Turns
  BY <1>1, TurnsBills
<1>2. CASE Process
  BY <1>2, ProcessSteps, OutputBills, WorkingBills
<1>3. CASE Others
  <2>1. UNCHANGED <<runtime, counted, cli>> /\ (RowCloses \/ IssueRaised \/ Reviewing \/ RetryMade)
    BY <1>3, OthersSteps
  <2>2. /\ \A e \in Attempts : /\ exec'[e].whose = exec[e].whose
                               /\ exec'[e].session = exec[e].session
                               /\ usage'[e].main = usage[e].main /\ usage'[e].cost = usage[e].cost
        /\ SamePhase(turn, turn') /\ SameText(turn, turn') /\ SameTurn(turn, turn')
        /\ SameBill(turn, turn') /\ turn'.lost = turn.lost
    <3>1. CASE RowCloses
      <4>1. PICK e \in Attempts, st \in Ended :
              RowChange(e, st, exec[e].session, exec[e].whose) /\ turn' = turn /\ usage' = usage
        BY <3>1 DEF RowCloses
      <4>2. \A a \in Attempts : exec'[a].whose = exec[a].whose /\ exec'[a].session = exec[a].session
        BY <4>1 DEF RowChange
      <4> QED
        BY <4>1, <4>2 DEF SamePhase, SameText, SameTurn, SameBill
    <3>2. CASE IssueRaised
      BY <3>2 DEF IssueRaised
    <3>3. CASE Reviewing
      BY <3>3 DEF Reviewing, SamePhase, SameText, SameTurn, SameBill
    <3>4. CASE RetryMade
      BY <3>4 DEF RetryMade, RowChange, SamePhase, SameText, SameTurn, SameBill
    <3> QED
      BY <2>1, <3>1, <3>2, <3>3, <3>4
  <2>3. (InTurn' <=> InTurn) /\ (MoreComes' <=> MoreComes) /\ (Finished' <=> Finished)
    BY <2>1, <2>2 DEF SamePhase, InTurn, MoreComes, Finished
  <2>4. turn'.queue = turn.queue
    BY <2>2 DEF SameText
  <2> QED
    BY <2>1, <2>2, <2>3, <2>4, BillKept
<1>4. CASE Hung \/ BlockingTimeout \/ Abort
  <2>1. /\ UNCHANGED <<runtime, exec, usage, counted>> /\ cli'.pipe = cli.pipe /\ ~cli'.on
        /\ turn'.pc = turn.pc /\ turn'.end = turn.end /\ turn'.queue = turn.queue
        /\ turn'.lost = turn.lost /\ SameTurn(turn, turn') /\ SameBill(turn, turn')
    BY <1>4, StopsSteps, KilledFields DEF SameText, SameFlags, RunInv, RunOK
  <2>2. (InTurn' <=> InTurn) /\ (MoreComes' => MoreComes) /\ (Finished' <=> Finished)
    BY <2>1 DEF InTurn, MoreComes, Finished
  <2> QED
    BY <2>1, <2>2, BillKept
<1>5. CASE Opens
  <2>1. CASE TurnOver
    <3>1. ~InTurn' /\ UNCHANGED <<usage, counted, exec>>
      BY <1>5, <2>1, OpensSteps, NoTurnTyped DEF TurnOver, InTurn
    <3> QED
      BY <3>1, OverBills
  <2> QED
    BY <1>5, <2>1, OpensBills
<1>6. CASE Pull
  BY <1>6, PullBills
<1>7. CASE Stopped \/ Closes \/ Flushes
  <2>1. /\ UNCHANGED <<runtime, exec, usage, counted, cli>> /\ InTurn /\ InTurn'
        /\ turn'.lost = turn.lost /\ SameTurn(turn, turn') /\ SameBill(turn, turn')
        /\ turn'.pc # "opening" /\ (turn'.end = "done" => turn.end = "done")
    <3>1. CASE Stopped
      BY <3>1, StoppedSteps DEF SameFlags, InTurn
    <3>2. CASE Closes
      BY <3>2, ClosesSteps DEF SameFlags, InTurn
    <3>3. CASE Flushes
      BY <3>3, FlushSteps DEF SameFlags, SamePhase, InTurn
    <3> QED
      BY <1>7, <3>1, <3>2, <3>3
  <2>2. /\ UnwrittenCost(turn'.queue) = UnwrittenCost(turn.queue)
        /\ \A m : Unwritten(turn'.queue, m) = Unwritten(turn.queue, m)
    <3>1. CASE Stopped
      BY <3>1, StoppedSteps DEF SameText
    <3>2. CASE Closes \/ Flushes
      <4>1. turn.pc # "await"
        BY <3>2, ClosesSteps, FlushSteps
      <4>2. turn'.queue \in Seq(Write) /\ NoUsage(turn'.queue)
        BY <3>2, ClosesWaits, FlushWaits
      <4> QED
        BY <4>1, <4>2, NoneWaits, NoUsageWaits
    <3> QED
      BY <1>7, <3>1, <3>2
  <2>3. (MoreComes' => MoreComes) /\ (Finished' => Finished)
    BY <2>1 DEF MoreComes, Finished
  <2> QED
    BY <2>1, <2>2, <2>3, BillKept
<1>8. CASE Writes \/ WriteFails
  BY <1>8, WritesSteps, FailsSteps, DequeuedBills
<1>9. CASE TurnEnds
  <2>1. ~InTurn' /\ UNCHANGED <<usage, counted>>
        /\ RowChange(turn.e, AfterTurn(exec[turn.e].st), exec[turn.e].session, exec[turn.e].whose)
    BY <1>9, TurnEndsSteps, NoTurnTyped DEF TurnOver, InTurn
  <2>2. \A e \in Attempts : exec'[e].whose = exec[e].whose /\ exec'[e].session = exec[e].session
    BY <2>1 DEF RowChange
  <2> QED
    BY <2>1, <2>2, OverBills
<1>10. CASE UNCHANGED vars
  BY <1>10, BillKept DEF vars, kinds, InTurn, MoreComes, Finished, SameTurn, SameBill
<1> QED
  BY <1>1, <1>2, <1>3, <1>4, <1>5, <1>6, <1>7, <1>8, <1>9, <1>10 DEF Next, Loop

LEMMA BillMeans ==
  ASSUME BillInv
  PROVE Billing
<1>1. RunInv /\ OneUsageWaits /\ UsageFits /\ SessionFits /\ BillFits /\ TypeOK
  BY DEF BillInv, RunInv
<1>2. \A e \in Attempts : Accountable(e) <=> exec[e].session # 0 /\ Owner(exec, e)
  BY DEF Accountable, Owner
<1>3. /\ \A e : \A m \in Models : Reported(e)[m] = Told(usage, exec, e, m)
      /\ \A e : Reported(e) = [m \in Models |-> Reported(e)[m]]
      /\ \A e : Paid(e) = PaidOf(usage, exec, e)
  BY DEF Reported, Told, Paid, PaidOf
<1>4. BilledOnce
  BY <1>1, <1>2, <1>3, AllWithin DEF BilledOnce, Within, RestBill
<1>5. ASSUME turn.pc = "after", turn.end = "done", ~turn.lost, Accountable(turn.e)
      PROVE Reported(turn.e) = counted[turn.s] /\ Paid(turn.e) = Total(counted[turn.s])
  <2>1. InTurn /\ turn.queue = <<>> /\ cli.pipe = <<>> /\ Finished
    BY <1>1, <1>5 DEF RunInv, PhaseFits, AllRead, InTurn, Finished
  <2> PICK e \in Attempts, s \in Sessions : e = turn.e /\ s = turn.s
    BY <1>1, <2>1, TurnSession
  <2>2. exec[e].session # 0 /\ Owner(exec, e)
    BY <1>2, <1>5
  <2>3. /\ TokenBill(usage, exec, e, counted[s], turn, MoreComes, Finished, cli.pipe)
        /\ runtime = "claude" =>
             CostBill(usage, exec, e, counted[s], turn, MoreComes, Finished, cli.pipe)
    BY <1>1, <2>1, <2>2, BillIs
  <2>4. /\ UnwrittenCost(turn.queue) = 0 /\ \A m : Unwritten(turn.queue, m) = 0
        /\ ~CostToRead(cli.pipe) /\ \A m : ~ToRead(cli.pipe, m)
    BY <2>1 DEF UnwrittenCost, Unwritten, UsageWaits, CostToRead, ToRead, UsageIn
  <2>5. /\ PaidOf(usage, exec, e) \in Nat /\ \A m \in Models : Told(usage, exec, e, m) \in Nat
        /\ counted[s] \in [Models -> Nat] /\ Total(counted[s]) \in Nat
    BY <1>1, BillTyped
  <2>6. \A m \in Models : Told(usage, exec, e, m) = counted[s][m]
    BY <2>1, <2>3, <2>4, <2>5 DEF TokenBill, Fits
  <2>7. Reported(e) = counted[s]
    BY <1>3, <2>5, <2>6
  <2>8. runtime \in {"claude", "codex"}
    BY <1>1, AgentSessionAssumption DEF TypeOK
  <2>9. CASE runtime = "claude"
    <3>1. PaidOf(usage, exec, e) = Total(counted[s])
      BY <2>1, <2>3, <2>4, <2>5, <2>9 DEF CostBill, Fits
    <3> QED
      BY <1>3, <2>7, <3>1
  <2>10. CASE runtime = "codex"
    <3>1. /\ PaidOf(usage, exec, e) = Told(usage, exec, e, 1)
          /\ Total(counted[s]) = counted[s][1]
      BY <1>1, <2>10, CodexPays
    <3> QED
      BY <1>3, <2>6, <2>7, <3>1, Constants
  <2> QED
    BY <2>8, <2>9, <2>10
<1>6. BilledInFull
  BY <1>5 DEF BilledInFull
<1> QED
  BY <1>1, <1>4, <1>6 DEF Billing

\* BilledOnceAndInFull (adapters/src/types.ts, usageBaseline; queries/runner.ts,
\* sumSessionUsageByModel): over the turns of a session, stopped, failed or resumed, and
\* the first turn of a retry that takes it over, with any tokens of any number of models,
\* no token and no cost is recorded twice, and a turn that ends by itself, its writes
\* done, leaves none of either unrecorded.
THEOREM BilledOnceAndInFull == Spec => []Billing
<1>1. Init => BillInv
  BY InitRun, SessionInit DEF BillInv
<1>2. BillInv /\ [Next]_vars => BillInv'
  BY RunStep, UsageStep, SessionStep, BillStep DEF BillInv
<1>3. BillInv => Billing
  BY BillMeans
<1> QED
  BY <1>1, <1>2, <1>3, PTL DEF Spec

-----------------------------------------------------------------------------
(* The containers                                                          *)

USE ContainerAssumption DEF row, disk, BoxInv, BoxesTypeOK, HasItsBox, PassFits, RemovalIsAlone,
  WatchedOrDue, IsSpec, Alive, HasEnded, UsingStates, EndedStates

(* The steps of the run                                                    *)

LEMMA PrepareKeeps == ASSUME NEW e \in Execs, BoxInv, Prepare(e) PROVE BoxInv'
BY DEF Prepare, MakeTree, Phase

LEMMA LoadKeeps == ASSUME NEW e \in Execs, BoxInv, Load(e) PROVE BoxInv'
BY DEF Load, Phase

LEMMA RestoreKeeps == ASSUME NEW e \in Execs, BoxInv, Restore(e) PROVE BoxInv'
BY DEF Restore, MakeTree, memory

LEMMA ResumeKeeps == ASSUME NEW e \in Execs, BoxInv, Resume(e) PROVE BoxInv'
<1>1. BoxesTypeOK'
  BY DEF Resume, Phase, Move
<1>2. HasItsBox'
  BY DEF Resume, Phase, Move
<1>3. PassFits'
  BY DEF Resume, Phase, Move
<1>4. RemovalIsAlone'
  BY DEF Resume, Phase, Move
<1>5. WatchedOrDue'
  BY DEF Resume, Phase, Move
<1> QED
  BY <1>1, <1>2, <1>3, <1>4, <1>5

LEMMA EnsureKeeps == ASSUME NEW e \in Execs, BoxInv, Ensure(e) PROVE BoxInv'
BY DEF Ensure, Ensured, NewBox, Phase

LEMMA EnsureFailsKeeps == ASSUME NEW e \in Execs, BoxInv, EnsureFails(e) PROVE BoxInv'
<1>1. BoxesTypeOK'
  <2>1. PICK b \in {box[e], NoBox, NewBox(e), [NewBox(e) EXCEPT !.up = FALSE]} : box' = [box EXCEPT ![e] = b]
    BY DEF EnsureFails
  <2>0. /\ box[e] \in [is : BOOLEAN, up : BOOLEAN, tree : 0 .. MaxTrees]
        /\ box[e].up => box[e].is
        /\ tree[e] \in 0 .. MaxTrees /\ 0 \in 0 .. MaxTrees
    OBVIOUS
  <2>2. b \in [is : BOOLEAN, up : BOOLEAN, tree : 0 .. MaxTrees] /\ (b.up => b.is)
    <3>1. CASE b = box[e]
      BY <2>0, <3>1
    <3>2. CASE b = NoBox
      BY <2>0, <3>2 DEF NoBox
    <3>3. CASE b = NewBox(e)
      BY <2>0, <3>3 DEF NewBox
    <3>4. CASE b = [NewBox(e) EXCEPT !.up = FALSE]
      BY <2>0, <3>4 DEF NewBox
    <3> QED
      BY <2>1, <3>1, <3>2, <3>3, <3>4
  <2>3. /\ box' \in [Execs -> [is : BOOLEAN, up : BOOLEAN, tree : 0 .. MaxTrees]]
        /\ \A x \in Execs : box'[x].up => box'[x].is
    BY <2>1, <2>2
  <2> QED
    BY <2>3 DEF EnsureFails, Ensured, Phase
<1>2. HasItsBox'
  BY DEF EnsureFails, Ensured, NewBox, NoBox, Phase
<1>3. PassFits'
  BY DEF EnsureFails, Ensured, NewBox, NoBox, Phase
<1>4. RemovalIsAlone'
  BY DEF EnsureFails, Ensured, NewBox, NoBox, Phase
<1>5. WatchedOrDue'
  BY DEF EnsureFails, Ensured, NewBox, NoBox, Phase
<1> QED
  BY <1>1, <1>2, <1>3, <1>4, <1>5

LEMMA UndoKeeps == ASSUME NEW e \in Execs, BoxInv, Undo(e) PROVE BoxInv'
BY DEF Undo, Removed, NoBox, Fail, Phase

LEMMA BreaksKeeps == ASSUME NEW e \in Execs, BoxInv, Breaks(e) PROVE BoxInv'
BY DEF Breaks, Fail, Phase

LEMMA AgentCompletesKeeps == ASSUME NEW e \in Execs, BoxInv, AgentCompletes(e) PROVE BoxInv'
BY DEF AgentCompletes, Move, memory

LEMMA TurnPausesKeeps == ASSUME NEW e \in Execs, BoxInv, TurnPauses(e) PROVE BoxInv'
BY DEF TurnPauses, Move, Phase

LEMMA TurnIsOverKeeps == ASSUME NEW e \in Execs, BoxInv, TurnIsOver(e) PROVE BoxInv'
BY DEF TurnIsOver, Phase

LEMMA FinalizeKeeps == ASSUME NEW e \in Execs, BoxInv, Finalize(e) PROVE BoxInv'
BY DEF Finalize, Phase

LEMMA RemoveEndedKeeps == ASSUME NEW e \in Execs, BoxInv, RemoveEnded(e) PROVE BoxInv'
BY DEF RemoveEnded, Removed, NoBox, Phase

LEMMA ReleaseCancelledKeeps == ASSUME NEW e \in Execs, BoxInv, ReleaseCancelled(e) PROVE BoxInv'
BY DEF ReleaseCancelled, Removed, NoBox, Rest

-----------------------------------------------------------------------------
(* What others do                                                          *)

LEMMA EndsKeeps == ASSUME NEW e \in Execs, BoxInv, Ends(e) PROVE BoxInv'
<1>1. BoxesTypeOK'
  <2>1. state' \in [Execs -> UsingStates \cup EndedStates \cup {"WAITING_FOR_USER"}]
    BY DEF Ends, Move
  <2> QED
    BY <2>1 DEF Ends, memory
<1>2. HasItsBox'
  BY DEF Ends, Move, memory
<1>3. PassFits'
  BY DEF Ends, Move, memory
<1>4. RemovalIsAlone'
  BY DEF Ends, Move, memory
<1>5. WatchedOrDue'
  BY DEF Ends, Move, memory
<1> QED
  BY <1>1, <1>2, <1>3, <1>4, <1>5

LEMMA LeaseExpiresKeeps == ASSUME NEW e \in Execs, BoxInv, LeaseExpires(e) PROVE BoxInv'
BY DEF LeaseExpires, Move, memory

LEMMA BoxStopsKeeps == ASSUME NEW e \in Execs, BoxInv, BoxStops(e) PROVE BoxInv'
<1>1. BoxesTypeOK'
  <2>1. state' \in [Execs -> UsingStates \cup EndedStates \cup {"WAITING_FOR_USER"}]
    BY DEF BoxStops, Fail
  <2> DEFINE b == [box[e] EXCEPT !.up = FALSE]
  <2>5. box[e] \in [is : BOOLEAN, up : BOOLEAN, tree : 0 .. MaxTrees]
    OBVIOUS
  <2>6. b \in [is : BOOLEAN, up : BOOLEAN, tree : 0 .. MaxTrees] /\ ~b.up
    BY <2>5
  <2>2. /\ box' = [box EXCEPT ![e] = b]
        /\ b \in [is : BOOLEAN, up : BOOLEAN, tree : 0 .. MaxTrees] /\ ~b.up
    BY <2>6 DEF BoxStops
  <2> HIDE DEF b
  <2>3. /\ box' \in [Execs -> [is : BOOLEAN, up : BOOLEAN, tree : 0 .. MaxTrees]]
        /\ \A x \in Execs : box'[x].up => box'[x].is
    BY <2>2
  <2>4. run' = run \/ run' = [run EXCEPT ![e] = "over"]
    BY DEF BoxStops, Phase
  <2> QED
    BY <2>1, <2>3, <2>4 DEF BoxStops
<1>2. HasItsBox'
  BY DEF BoxStops, Fail, Phase
<1>3. PassFits'
  BY DEF BoxStops, Fail, Phase
<1>4. RemovalIsAlone'
  BY DEF BoxStops, Fail, Phase
<1>5. WatchedOrDue'
  BY DEF BoxStops, Fail, Phase
<1> QED
  BY <1>1, <1>2, <1>3, <1>4, <1>5

LEMMA CrashKeeps == ASSUME BoxInv, Crash PROVE BoxInv'
<1>1. BoxesTypeOK'
  <2>1. mark' \in [Execs -> 0 .. MaxEnsures] /\ ensures' \in 0 .. MaxEnsures
    BY DEF Crash
  <2>2. \A e \in Execs : e \in held' <=> (pass'.pc = "docker" /\ pass'.of = e)
    BY DEF Crash, Rest
  <2>3. run' \in [Execs -> {"none", "claimed", "loaded", "ensure", "undo", "session", "over", "remove"}]
    BY DEF Crash
  <2>4. {held, watched, broken}' \subseteq SUBSET Execs /\ adopted' \in BOOLEAN
    BY DEF Crash
  <2>5. pass'.of \in Execs \cup {"none"}
    BY DEF Crash, Rest
  <2> QED
    BY <2>1, <2>2, <2>3, <2>4, <2>5 DEF Crash
<1>2. HasItsBox'
  BY DEF Crash, Rest
<1>3. PassFits'
  BY DEF Crash, Rest
<1>4. RemovalIsAlone'
  BY DEF Crash, Rest
<1>5. WatchedOrDue'
  BY DEF Crash, Rest
<1> QED
  BY <1>1, <1>2, <1>3, <1>4, <1>5

-----------------------------------------------------------------------------
(* The passes                                                              *)

LEMMA ListTreeKeeps == ASSUME NEW e \in Execs, BoxInv, ListTree(e) PROVE BoxInv'
<1>0. pass.pc = "rest" /\ mark[e] \in 0 .. MaxEnsures
  BY DEF ListTree, Rest
<1>1. BoxesTypeOK'
  BY <1>0 DEF ListTree, Take
<1>2. HasItsBox'
  BY <1>0 DEF ListTree, Take
<1>3. PassFits'
  BY <1>0 DEF ListTree, Take
<1>4. RemovalIsAlone'
  BY <1>0 DEF ListTree, Take
<1>5. WatchedOrDue'
  BY <1>0 DEF ListTree, Take
<1> QED
  BY <1>1, <1>2, <1>3, <1>4, <1>5

LEMMA SweepTreeKeeps == ASSUME BoxInv, SweepTree PROVE BoxInv'
<1>1. BoxesTypeOK'
  <2> DEFINE x == pass.of
  <2>1. pass.pc = "remove" /\ x \in Execs /\ held' = held
    BY DEF SweepTree
  <2>2. CASE pass' = Rest /\ UNCHANGED <<path, tree>>
    BY <2>1, <2>2 DEF SweepTree, Rest
  <2>3. CASE /\ tree' = [tree EXCEPT ![x] = 0] /\ pass' = [pass EXCEPT !.pc = "guard"]
             /\ \E to \in {"none", "evicted"} : path' = [path EXCEPT ![x] = to]
    <3>1. PICK to \in {"none", "evicted"} : path' = [path EXCEPT ![x] = to]
      BY <2>3
    <3>2. /\ path' \in [Execs -> {"none", "kept", "evicted"}]
          /\ tree' \in [Execs -> 0 .. MaxTrees]
          /\ \A e \in Execs : (path'[e] = "kept") <=> (tree'[e] # 0)
      BY <2>1, <2>3, <3>1
    <3>3. /\ pass'.of = x /\ pass'.pc = "guard" /\ pass.pc = "remove"
          /\ \A e \in Execs : e \in held' <=> (pass'.pc = "docker" /\ pass'.of = e)
      BY <2>1, <2>3
    <3> QED
      BY <2>1, <3>2, <3>3 DEF SweepTree
  <2> QED
    BY <2>2, <2>3 DEF SweepTree
<1>2. HasItsBox'
  BY DEF SweepTree
<1>3. PassFits'
  <2>1. pass' = [pass EXCEPT !.pc = "guard"] \/ pass' = Rest
    BY DEF SweepTree
  <2>2. PassFits /\ pass.pc = "remove"
    BY DEF SweepTree
  <2> QED
    BY <2>1, <2>2 DEF Rest
<1>4. RemovalIsAlone'
  BY DEF SweepTree
<1>5. WatchedOrDue'
  BY DEF SweepTree
<1> QED
  BY <1>1, <1>2, <1>3, <1>4, <1>5

LEMMA ListOrphanKeeps == ASSUME NEW e \in Execs, BoxInv, ListOrphan(e) PROVE BoxInv'
<1>0. pass.pc = "rest" /\ mark[e] \in 0 .. MaxEnsures
  BY DEF ListOrphan, Rest
<1>1. BoxesTypeOK'
  BY <1>0 DEF ListOrphan, Take
<1>2. HasItsBox'
  BY <1>0 DEF ListOrphan, Take
<1>3. PassFits'
  BY <1>0 DEF ListOrphan, Take
<1>4. RemovalIsAlone'
  BY <1>0 DEF ListOrphan, Take
<1>5. WatchedOrDue'
  BY <1>0 DEF ListOrphan, Take
<1> QED
  BY <1>1, <1>2, <1>3, <1>4, <1>5

LEMMA AdoptKeeps == ASSUME BoxInv, Adopt PROVE BoxInv'
BY DEF Adopt, Listed, Rest

LEMMA ListWatchedKeeps == ASSUME NEW e \in Execs, BoxInv, ListWatched(e) PROVE BoxInv'
<1>0. pass.pc = "rest" /\ mark[e] \in 0 .. MaxEnsures
  BY DEF ListWatched, Rest
<1>1. BoxesTypeOK'
  BY <1>0 DEF ListWatched, Take
<1>2. HasItsBox'
  BY <1>0 DEF ListWatched, Take
<1>3. PassFits'
  BY <1>0 DEF ListWatched, Take
<1>4. RemovalIsAlone'
  BY <1>0 DEF ListWatched, Take
<1>5. WatchedOrDue'
  BY <1>0 DEF ListWatched, Take
<1> QED
  BY <1>1, <1>2, <1>3, <1>4, <1>5

LEMMA GuardKeeps == ASSUME BoxInv, Guard PROVE BoxInv'
BY DEF Guard, Rest, Removable

LEMMA RemoveBoxKeeps == ASSUME BoxInv, RemoveBox PROVE BoxInv'
<1>0. pass.of \in Execs
  BY DEF RemoveBox
<1>1. BoxesTypeOK'
  BY <1>0 DEF RemoveBox, Removed, Release, Rest, NoBox
<1>2. HasItsBox'
  BY <1>0 DEF RemoveBox, Removed, Release, Rest, NoBox
<1>3. PassFits'
  BY <1>0 DEF RemoveBox, Removed, Release, Rest
<1>4. RemovalIsAlone'
  BY <1>0 DEF RemoveBox, Removed, Release, Rest
<1>5. WatchedOrDue'
  BY <1>0 DEF RemoveBox, Removed, Release, Rest, NoBox
<1> QED
  BY <1>1, <1>2, <1>3, <1>4, <1>5

LEMMA RemoveBoxFailsKeeps == ASSUME BoxInv, RemoveBoxFails PROVE BoxInv'
BY DEF RemoveBoxFails, Release, Rest

LEMMA InvInit == BoxesInit => BoxInv
<1> SUFFICES ASSUME BoxesInit PROVE BoxInv
  OBVIOUS
<1>1. 0 \in 0 .. MaxTrees /\ 0 \in 0 .. MaxEnsures
  OBVIOUS
<1>2. BoxesTypeOK
  BY <1>1 DEF BoxesInit, NoBox, Rest
<1> QED
  BY <1>1, <1>2 DEF BoxesInit, NoBox, Rest

LEMMA InvStutters == ASSUME BoxInv, UNCHANGED boxesVars PROVE BoxInv'
BY DEF boxesVars, memory

LEMMA InvNext == ASSUME BoxInv, [BoxesNext]_boxesVars PROVE BoxInv'
<1>1. ASSUME NEW e \in Execs, Prepare(e) \/ Load(e) \/ Restore(e) \/ Resume(e) \/ Ensure(e) \/ EnsureFails(e)
      PROVE  BoxInv'
  BY <1>1, PrepareKeeps, LoadKeeps, RestoreKeeps, ResumeKeeps, EnsureKeeps, EnsureFailsKeeps, Zenon
<1>2. ASSUME NEW e \in Execs, \/ Undo(e) \/ Breaks(e) \/ AgentCompletes(e) \/ TurnPauses(e) \/ TurnIsOver(e)
                              \/ Finalize(e) \/ RemoveEnded(e) \/ ReleaseCancelled(e)
      PROVE  BoxInv'
  BY <1>2, UndoKeeps, BreaksKeeps, AgentCompletesKeeps, TurnPausesKeeps, TurnIsOverKeeps, FinalizeKeeps,
     RemoveEndedKeeps, ReleaseCancelledKeeps, Zenon
<1>3. CASE Runner
  BY <1>1, <1>2, <1>3, Zenon DEF Runner
<1>4. CASE Outside
  BY <1>4, CrashKeeps, EndsKeeps, LeaseExpiresKeeps, BoxStopsKeeps, Zenon DEF Outside
<1>5. CASE Passes
  BY <1>5, SweepTreeKeeps, AdoptKeeps, GuardKeeps, RemoveBoxKeeps, RemoveBoxFailsKeeps, ListTreeKeeps,
     ListOrphanKeeps, ListWatchedKeeps, Zenon DEF Passes
<1> QED
  BY <1>3, <1>4, <1>5, InvStutters, Zenon DEF BoxesNext

-----------------------------------------------------------------------------
(* A container that is neither watched nor due is not left by an ended run. *)
LEMMA InvFits == BoxInv => BoxesFit
<1>1. ASSUME BoxInv PROVE WatchKnows
  BY <1>1 DEF WatchKnows
<1> QED
  BY <1>1 DEF BoxesFit

\* A turn has its container up, and the watch knows every container that an
\* ended spec execution left (guard.ts, GOT.99): under the lock a removal is
\* alone, and what is not watched is due.
THEOREM ContainersFit == BoxesSpec => []BoxesFit
<1>1. BoxesSpec => []BoxInv
  <2> HIDE DEF BoxInv
  <2> QED
    BY InvInit, InvNext, PTL DEF BoxesSpec
<1>2. BoxInv => BoxesFit
  BY InvFits
<1> QED
  BY <1>1, <1>2, PTL

==============================================================================

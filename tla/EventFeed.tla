------------------------------ MODULE EventFeed ------------------------------
(***************************************************************************)
(* What the event stream of one task promises a subscriber: the task's     *)
(* events are a log that only grows at its end, a subscriber joins the log *)
(* anywhere, and from then on receives every event, once and in order.     *)
(* TaskStream is the program that is shown to keep the promise.            *)
(***************************************************************************)
EXTENDS Naturals

CONSTANTS Clients,   \* subscribers
          Ids,       \* ids an event may have, numbers
          None       \* "no event received yet"

VARIABLES log,       \* ids of the committed events
          last       \* id of the last event each subscriber received

feedVars == <<log, last>>

FeedTypeOK == log \subseteq Ids /\ last \in [Clients -> Ids \cup {None}]

FeedInit == log = {} /\ last = [c \in Clients |-> None]

\* id is the event that comes right after event a.
Follows(a, id) == a < id /\ \A other \in log : other <= a \/ id <= other

Extend(id) == /\ \A other \in log : other < id
              /\ log' = log \cup {id}
              /\ UNCHANGED last

Deliver(c, id) == /\ id \in log
                  /\ last[c] = None \/ Follows(last[c], id)
                  /\ last' = [last EXCEPT ![c] = id]
                  /\ UNCHANGED log

FeedNext == \/ \E id \in Ids : Extend(id)
            \/ \E c \in Clients, id \in Ids : Deliver(c, id)

FeedSpec == FeedInit /\ [][FeedNext]_feedVars
=============================================================================

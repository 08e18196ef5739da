-------------------------- MODULE OrderedDelivery --------------------------
(***************************************************************************)
(* What an event-time reordering stage promises its consumer, whatever its *)
(* buffering strategy is. Records [ts, rec] are offered one at a time, rec *)
(* being the number of the arrival. The stage hands records over in        *)
(* (ts, rec) order for ever, hands over each accepted record at most once, *)
(* forgets none, and may refuse a record only when it is behind the        *)
(* frontier: the time of the last delivery, or a later time that was       *)
(* announced to the consumer while no earlier record was held.             *)
(***************************************************************************)
EXTENDS Integers, Sequences

CONSTANTS
  Records,   \* the records that may be offered, [ts, rec]
  None       \* the frontier at first

VARIABLES
  held,       \* accepted and not yet delivered
  delivered,  \* the sequence of delivered records
  refused,    \* records turned away
  frontier    \* no record before this time is delivered any more

deliveryVars == <<held, delivered, refused, frontier>>

DeliveredSet(d) == {d[i] : i \in DOMAIN d}

Init ==
  /\ held = {}
  /\ delivered = <<>>
  /\ refused = {}
  /\ frontier = None

Precedes(r, q) == r.ts < q.ts \/ (r.ts = q.ts /\ r.rec < q.rec)

InDeliveryOrder(d) ==
  \A i, j \in DOMAIN d : i < j => Precedes(d[i], d[j])

Extends(d, e) ==
  /\ Len(d) <= Len(e)
  /\ \A i \in DOMAIN d : e[i] = d[i]

Behind(t) == frontier # None /\ t < frontier

\* The accepted records arriving, if any, join the held ones; some are delivered,
\* none of them behind the frontier.
Deliver(arriving) ==
  /\ Extends(delivered, delivered')
  /\ InDeliveryOrder(delivered')
  /\ \A i \in Len(delivered) + 1 .. Len(delivered') : ~Behind(delivered'[i].ts)
  /\ held' \cup DeliveredSet(delivered') = held \cup arriving \cup DeliveredSet(delivered)
  /\ held' \cap DeliveredSet(delivered') = {}
  /\ UNCHANGED refused

FrontierFollows ==
  frontier' = IF delivered' = delivered THEN frontier ELSE delivered'[Len(delivered')].ts

Accept(r) ==
  /\ r \notin held \cup DeliveredSet(delivered) \cup refused
  /\ Deliver({r})
  /\ FrontierFollows

Refuse(r) ==
  /\ r \notin held \cup DeliveredSet(delivered) \cup refused
  /\ Behind(r.ts)
  /\ refused' = refused \cup {r}
  /\ UNCHANGED <<held, delivered, frontier>>

\* The frontier moves up, past no record that is held.
Announce ==
  /\ frontier' # frontier
  /\ ~Behind(frontier')
  /\ \A r \in held : frontier' <= r.ts
  /\ UNCHANGED <<held, delivered, refused>>

\* The end of the stream.
Close ==
  /\ Deliver({})
  /\ held' = {}
  /\ frontier # None => frontier <= frontier'

Next ==
  \/ \E r \in Records : Accept(r) \/ Refuse(r)
  \/ Deliver({}) /\ FrontierFollows
  \/ Announce
  \/ Close

Spec == Init /\ [][Next]_deliveryVars
=============================================================================

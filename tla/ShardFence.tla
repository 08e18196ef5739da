----------------------------- MODULE ShardFence -----------------------------
(* tflo-connect-kafka: a consumer that polls, stamps each event with the     *)
(* assignment epoch, checks ownership and the epoch again before it handles  *)
(* the event, and commits its offset; and the task that applies rebalances   *)
(* to the KafkaShardRouter, concurrently.  The broker assigns and revokes    *)
(* partitions and is told of offsets by messages that may be lost.           *)
EXTENDS Integers, Sequences, FiniteSets

CONSTANTS Partitions,
          LogEnd,           \* how many events each partition has
          MaxRebalances,    \* bound on rebalance events
          None

VARIABLES assigned,         \* the partitions this consumer has, to the broker
          position,         \* per partition, the next offset it is sent
          committed,        \* per partition, the offset the broker remembers
          rebalance_rx,     \* rebalance events the backend has forwarded
          owned, epoch,     \* the router's
          applying,         \* the event under way in apply_rebalance, lock held
          at, event,        \* the consumer: its step, and the event in hand
          acks,             \* commits under way
          dropped_stale_epoch,  \* the router's counter
          tenure,           \* per partition, how often the router was given it
          handled, dropped, \* per partition, the offsets that met with each end
          rebalances
broker   == <<assigned, position, committed, rebalance_rx, rebalances>>
router   == <<owned, epoch, applying, tenure>>
consumer == <<at, event, acks, dropped_stale_epoch, handled, dropped>>
vars == <<broker, router, consumer>>

Init ==
  /\ assigned = {} /\ owned = {} /\ epoch = 0 /\ applying = None
  /\ position = [p \in Partitions |-> 0] /\ committed = position /\ tenure = position
  /\ rebalance_rx = <<>>
  /\ at = "poll" /\ event = None /\ acks = {}
  /\ dropped_stale_epoch = 0
  /\ handled = [p \in Partitions |-> {}] /\ dropped = handled
  /\ rebalances = 0

-----------------------------------------------------------------------------
(* The broker: a partition comes back at the offset committed last.          *)
Rebalance(p) ==
  /\ rebalances < MaxRebalances
  /\ rebalances' = rebalances + 1
  /\ IF p \in assigned
     THEN assigned' = assigned \ {p} /\ rebalance_rx' = Append(rebalance_rx, [kind |-> "Revoked", part |-> p])
                                     /\ UNCHANGED position
     ELSE assigned' = assigned \cup {p} /\ rebalance_rx' = Append(rebalance_rx, [kind |-> "Assigned", part |-> p])
                                     /\ position' = [position EXCEPT ![p] = committed[p]]
  /\ UNCHANGED <<committed, router, consumer>>

\* An asynchronous commit arrives, or is lost.
Ack(a) ==
  /\ acks' = acks \ {a}
  /\ committed' \in {committed, [committed EXCEPT ![a.part] = a.offset]}
  /\ UNCHANGED <<assigned, position, rebalance_rx, rebalances, router,
                 at, event, dropped_stale_epoch, handled, dropped>>

-----------------------------------------------------------------------------
(* apply_rebalance: the set changes and the epoch is bumped under the lock,  *)
(* but the epoch can be read in between.                                     *)
OwnedAfter(e) == IF e.kind = "Assigned" THEN owned \cup {e.part} ELSE owned \ {e.part}
PollRebalance ==
  /\ applying = None /\ rebalance_rx # <<>>
  /\ applying' = Head(rebalance_rx)
  /\ rebalance_rx' = Tail(rebalance_rx)
  /\ owned' = OwnedAfter(Head(rebalance_rx))
  /\ UNCHANGED <<assigned, position, committed, rebalances, epoch, tenure, consumer>>
WrongBump(e) == IF e.kind = "Assigned" /\ tenure[e.part] = 0 THEN epoch + 1 ELSE epoch
Bump(e) == epoch + 1
ApplyReturns ==
  /\ applying # None
  /\ epoch' = Bump(applying)
  /\ tenure' = IF applying.kind = "Assigned" THEN [tenure EXCEPT ![applying.part] = @ + 1] ELSE tenure
  /\ applying' = None
  /\ UNCHANGED <<broker, owned, consumer>>

-----------------------------------------------------------------------------
(* The consumer's loop.                                                      *)
Poll ==
  /\ at = "poll"
  /\ \E p \in assigned :
       /\ position[p] < LogEnd
       /\ event' = [part |-> p, offset |-> position[p], stamp |-> None, tenure |-> None]
       /\ position' = [position EXCEPT ![p] = @ + 1]
  /\ at' = "stamp"
  /\ UNCHANGED <<assigned, committed, rebalance_rx, rebalances, router, acks, dropped_stale_epoch, handled, dropped>>

Stamp ==
  /\ at = "stamp" /\ at' = "owns"
  /\ event' = [event EXCEPT !.stamp = epoch, !.tenure = tenure[event.part]]
  /\ UNCHANGED <<broker, router, acks, dropped_stale_epoch, handled, dropped>>

\* The event is not handled: DropReason::NotOwned, or StaleEpoch, which counts.
Discard(stale) ==
  /\ at' = "poll" /\ event' = None
  /\ dropped' = [dropped EXCEPT ![event.part] = @ \cup {event.offset}]
  /\ dropped_stale_epoch' = IF stale THEN dropped_stale_epoch + 1 ELSE dropped_stale_epoch
  /\ UNCHANGED <<acks, handled>>

\* owns waits for the lock.
Owns ==
  /\ at = "owns" /\ applying = None
  /\ IF event.part \in owned
     THEN at' = "fence" /\ UNCHANGED <<event, acks, dropped_stale_epoch, handled, dropped>>
     ELSE Discard(FALSE)
  /\ UNCHANGED <<broker, router>>

Fence ==
  /\ at = "fence"
  /\ IF event.stamp < epoch THEN Discard(TRUE)
     ELSE at' = "handle" /\ UNCHANGED <<event, acks, dropped_stale_epoch, handled, dropped>>
  /\ UNCHANGED <<broker, router>>

\* commit_offset: the offset after the event's.
CommitOffset(o) == o + 1
Handle ==
  /\ at = "handle" /\ at' = "poll" /\ event' = None
  /\ handled' = [handled EXCEPT ![event.part] = @ \cup {event.offset}]
  /\ acks' = acks \cup {[part |-> event.part, offset |-> CommitOffset(event.offset)]}
  /\ UNCHANGED <<broker, router, dropped_stale_epoch, dropped>>

Next ==
  \/ \E p \in Partitions : Rebalance(p)
  \/ \E a \in acks : Ack(a)
  \/ PollRebalance \/ ApplyReturns
  \/ Poll \/ Stamp \/ Owns \/ Fence \/ Handle

Spec == Init /\ [][Next]_vars

-----------------------------------------------------------------------------
(* An event passes the fence only under the ownership it was stamped under:  *)
(* if its partition was taken away and given back since, its state belongs   *)
(* to a worker in between, and the event is dropped.  The offset the broker  *)
(* remembers never passes an event that was neither handled nor dropped,     *)
(* however commits are lost, overtake each other or cross a rebalance.       *)
RebalancesAreFenced ==
  [][/\ at = "fence" /\ at' = "handle" => event.tenure = tenure[event.part]
     /\ \A p \in Partitions : 0..committed'[p] - 1 \subseteq handled'[p] \cup dropped'[p]]_vars
=============================================================================

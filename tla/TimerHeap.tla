------------------------------ MODULE TimerHeap ------------------------------
(* TimerService (tflo-core/src/timer.rs): the heap of one key's event-time   *)
(* timers with its tombstones, which KeyedGraph takes for the set of the     *)
(* timers that are live.  Operators register and delete through a TimerCtx,  *)
(* the engine pops what is due, and flush drains the rest.                   *)
EXTENDS HeapOrder

CONSTANTS Nodes, Stamps,    \* the nodes, and the times of timers and watermarks
          MaxTimers,        \* bound on registrations
          None

VARIABLES heap, next_seq,   \* heap: a set of entries, whose ts is fire_ts
          snapshot,         \* the one taken, or None
          fired,            \* history: entries popped, with next_seq at that time
          owed,             \* history: per time and node, registrations less deletes that met one
          quiet             \* the watermark of the call just made, if a pop_due with nothing to give
vars == <<heap, next_seq, snapshot, fired, owed, quiet>>

Live == {e \in heap : ~e.deleted}
Matching(ts, node) == {e \in Live : e.ts = ts /\ e.node_id = node}

Init ==
  /\ heap = {} /\ next_seq = 0 /\ snapshot = None
  /\ fired = <<>>
  /\ owed = [x \in Stamps \X Nodes |-> 0]
  /\ quiet = None

Register(ts, node) ==
  /\ next_seq < MaxTimers
  /\ heap' = heap \cup {[ts |-> ts, node_id |-> node, seq |-> next_seq, deleted |-> FALSE]}
  /\ next_seq' = next_seq + 1
  /\ owed' = [owed EXCEPT ![<<ts, node>>] = @ + 1]
  /\ quiet' = None
  /\ UNCHANGED <<snapshot, fired>>

WrongTombstone(ts, node) ==
  {(heap \ Matching(ts, node)) \cup {[e EXCEPT !.deleted = TRUE] : e \in Matching(ts, node)}}
\* The heaps delete may leave: it takes the first match in the heap's array,
\* which may be any of them.
Tombstone(ts, node) ==
  {(heap \ {e}) \cup {[e EXCEPT !.deleted = TRUE]} : e \in Matching(ts, node)}
Delete(ts, node) ==
  /\ IF Matching(ts, node) = {} THEN UNCHANGED <<heap, owed>>
     ELSE /\ heap' \in Tombstone(ts, node)
          /\ owed' = [owed EXCEPT ![<<ts, node>>] = @ - 1]
  /\ quiet' = None
  /\ UNCHANGED <<next_seq, snapshot, fired>>

\* Tombstones in front of the first live timer, or due when no live one is, go.
PopDue(watermark) ==
  LET due   == {e \in Live : e.ts <= watermark}
      first == Earliest(due)
  IN /\ IF due = {}
        THEN /\ heap' = {e \in heap : e.ts > watermark}
             /\ quiet' = watermark
             /\ UNCHANGED fired
        ELSE /\ heap' = {e \in heap : Before(first, e)}
             /\ fired' = Append(fired, [entry |-> first, at |-> next_seq])
             /\ quiet' = None
     /\ UNCHANGED <<next_seq, snapshot, owed>>

\* flush: what remains, in order.
DrainAll ==
  /\ heap' = {}
  /\ LET out == PopOrder(Live)
     IN fired' = fired \o [i \in DOMAIN out |-> [entry |-> out[i], at |-> next_seq]]
  /\ quiet' = None
  /\ UNCHANGED <<next_seq, snapshot, owed>>

\* Bound of the model: one snapshot.
Snapshot ==
  /\ snapshot = None
  /\ snapshot' = [entries |-> Live, next_seq |-> next_seq,
                  fired |-> fired, owed |-> owed]
  /\ quiet' = None
  /\ UNCHANGED <<heap, next_seq, fired, owed>>
\* The histories go back with the heap: they tell what the restored one did.
Restore ==
  /\ snapshot # None
  /\ heap' = snapshot.entries
  /\ next_seq' = snapshot.next_seq
  /\ fired' = snapshot.fired /\ owed' = snapshot.owed /\ quiet' = None
  /\ UNCHANGED snapshot

Next ==
  \/ \E ts \in Stamps, node \in Nodes : Register(ts, node) \/ Delete(ts, node)
  \/ \E ts \in Stamps : PopDue(ts)
  \/ DrainAll
  \/ Snapshot
  \/ Restore

Spec == Init /\ [][Next]_vars

-----------------------------------------------------------------------------
(* The tombstones never show: every time and node gets as many firings as it *)
(* has timers registered less deletes that met one, and no timer fires twice.*)
(* A timer that fires after a later one was not registered yet when that one *)
(* fired, also across a restore, and none that is due is left when pop_due   *)
(* gives up.                                                                 *)
EveryTimerFiresOnce ==
  /\ \A ts \in Stamps, node \in Nodes :
       Cardinality({i \in DOMAIN fired : fired[i].entry.ts = ts /\ fired[i].entry.node_id = node})
         + Cardinality(Matching(ts, node)) = owed[<<ts, node>>]
  /\ \A i, j \in DOMAIN fired :
       i < j => /\ fired[j].entry.seq # fired[i].entry.seq
                /\ Before(fired[j].entry, fired[i].entry) => fired[j].entry.seq >= fired[i].at
  /\ quiet # None => \A e \in Live : e.ts > quiet
=============================================================================

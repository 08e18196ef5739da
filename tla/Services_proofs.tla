--------------------------- MODULE Services_proofs ---------------------------
(***************************************************************************)
(* The services beside the graph, each for every value of its constants:   *)
(* the deduplicator, the epoch fence, the QoS-2 window, the timers and the *)
(* batcher of the Influx sink.  Each has an inductive invariant, one lemma *)
(* per action, and a theorem of the specification that runs them all.      *)
(***************************************************************************)
EXTENDS Services, HeapOrder_proofs, SequenceTheorems

-----------------------------------------------------------------------------
(* The Deduplicator: the inductive invariant, by parts. *)

DedupTypeOK ==
  /\ at \in [Workers -> {"idle", "check", "load", "emit", "mark"}]
  /\ key \in [Workers -> Keys] /\ fresh \in [Workers -> BOOLEAN]
  /\ stored \subseteq Keys

\* A marker is written only behind the record it stands for.
MarksFollowTheSink ==
  /\ \A w \in Workers : at[w] = "mark" => key[w] \in sunk
  /\ stored \subseteq sunk

\* A marker found when a check begins is still there when the check ends.
MarkersStay == \A w \in Workers : ~fresh[w] => key[w] \in stored

DedupInv == DedupTypeOK /\ MarksFollowTheSink /\ MarkersStay /\ Dedup!OnlyMarkedKeysAreSuppressed

LEMMA InitDedup == Dedup!Init => DedupInv
  BY DEF Dedup!Init, DedupInv, DedupTypeOK, MarksFollowTheSink, MarkersStay, Dedup!OnlyMarkedKeysAreSuppressed

-----------------------------------------------------------------------------
(* One lemma per action that touches what the invariant relates. *)

USE DEF DedupInv, DedupTypeOK, Dedup!Goes

LEMMA DeliverKeeps ==
  ASSUME DedupInv, NEW w \in Workers, Dedup!Deliver(w)
  PROVE  DedupInv'
  <1>1. PICK k \in Keys : /\ key' = [key EXCEPT ![w] = k]
                          /\ fresh' = [fresh EXCEPT ![w] = k \notin stored]
    BY DEF Dedup!Deliver
  <1>2. DedupTypeOK'
    BY <1>1 DEF Dedup!Deliver
  <1>3. MarksFollowTheSink'
    BY <1>1 DEF Dedup!Deliver, MarksFollowTheSink
  <1>4. MarkersStay'
    BY <1>1 DEF Dedup!Deliver, MarkersStay
  <1>5. Dedup!OnlyMarkedKeysAreSuppressed'
    BY DEF Dedup!Deliver, Dedup!OnlyMarkedKeysAreSuppressed
  <1> QED BY <1>2, <1>3, <1>4, <1>5

\* What a verdict says.
LEMMA JudgeSays ==
  ASSUME NEW w, NEW emit, Dedup!Judge(w, emit)
  PROVE  /\ verdict'.emit = emit /\ verdict'.key = key[w]
         /\ verdict'.fresh = fresh[w] /\ verdict'.marked = (key[w] \in stored)
  BY DEF Dedup!Judge

LEMMA ShouldEmitKeeps ==
  ASSUME DedupInv, NEW w \in Workers, Dedup!ShouldEmit(w)
  PROVE  DedupInv'
  <1>1. DedupTypeOK' /\ MarksFollowTheSink' /\ MarkersStay'
    BY DEF Dedup!ShouldEmit, MarksFollowTheSink, MarkersStay
  <1>2. Dedup!OnlyMarkedKeysAreSuppressed'
    <2>1. CASE key[w] \in cache
      <3>1. Dedup!Judge(w, FALSE) /\ UNCHANGED <<cache, stored, sunk>>
        BY <2>1 DEF Dedup!ShouldEmit
      <3>2. ~verdict'.emit /\ verdict'.key = key[w] /\ verdict'.marked = (key[w] \in stored)
        BY <3>1, JudgeSays, Zenon
      <3>3. key[w] \in stored /\ key[w] \in sunk
        BY <2>1 DEF Dedup!OnlyMarkedKeysAreSuppressed, MarksFollowTheSink
      <3> QED BY <3>1, <3>2, <3>3, Zenon DEF Dedup!OnlyMarkedKeysAreSuppressed
    <2>2. CASE key[w] \notin cache
      BY <2>2 DEF Dedup!ShouldEmit, Dedup!OnlyMarkedKeysAreSuppressed
    <2> QED BY <2>1, <2>2
  <1> QED BY <1>1, <1>2

LEMMA LoadedKeeps ==
  ASSUME DedupInv, NEW w \in Workers, Dedup!Loaded(w)
  PROVE  DedupInv'
  <1>1. DedupTypeOK' /\ MarksFollowTheSink' /\ MarkersStay'
    BY DEF Dedup!Loaded, MarksFollowTheSink, MarkersStay
  <1>2. Dedup!Judge(w, key[w] \notin stored) /\ UNCHANGED <<cache, stored, sunk>>
    BY DEF Dedup!Loaded
  <1>3. /\ verdict'.emit = (key[w] \notin stored) /\ verdict'.key = key[w]
        /\ verdict'.fresh = fresh[w] /\ verdict'.marked = (key[w] \in stored)
    BY <1>2, JudgeSays, Zenon
  <1>4. IF key[w] \notin stored THEN fresh[w] ELSE key[w] \in sunk
    BY DEF MarkersStay, MarksFollowTheSink
  <1>5. Dedup!OnlyMarkedKeysAreSuppressed'
    <2>1. verdict'.emit => verdict'.fresh
      BY <1>3, <1>4, Zenon
    <2>2. ~verdict'.emit => verdict'.marked /\ verdict'.key \in sunk'
      BY <1>2, <1>3, <1>4, Zenon
    <2>3. cache' \subseteq stored'
      BY <1>2 DEF Dedup!OnlyMarkedKeysAreSuppressed
    <2> QED BY <2>1, <2>2, <2>3, Zenon DEF Dedup!OnlyMarkedKeysAreSuppressed
  <1> QED BY <1>1, <1>5

LEMMA SaveKeeps ==
  ASSUME DedupInv, NEW w \in Workers, Dedup!Saved(w) \/ Dedup!SaveFails(w)
  PROVE  DedupInv'
  <1>1. /\ stored \subseteq stored' /\ stored' \subseteq stored \cup {key[w]}
        /\ cache' \subseteq stored' /\ key[w] \in sunk
        /\ UNCHANGED <<key, sunk, verdict>>
    BY DEF Dedup!Saved, Dedup!SaveFails, MarksFollowTheSink, Dedup!OnlyMarkedKeysAreSuppressed
  <1>2. PICK to \in {"idle", "check"} : at' = [at EXCEPT ![w] = to]
    BY DEF Dedup!Saved, Dedup!SaveFails
  <1>3. fresh' = fresh \/ fresh' = [fresh EXCEPT ![w] = key[w] \notin stored']
    BY DEF Dedup!Saved, Dedup!SaveFails
  <1>4. DedupTypeOK'
    <2>1. at' \in [Workers -> {"idle", "check", "load", "emit", "mark"}]
      BY <1>2
    <2>2. fresh' \in [Workers -> BOOLEAN]
      BY <1>3
    <2> QED BY <1>1, <2>1, <2>2
  <1>5. MarksFollowTheSink'
    BY <1>1, <1>2 DEF MarksFollowTheSink
  <1>6. \A u \in Workers : ~fresh'[u] => ~fresh[u] \/ (u = w /\ key[w] \in stored')
    <2>1. CASE fresh' = fresh
      BY <2>1, Zenon
    <2>2. CASE fresh' = [fresh EXCEPT ![w] = key[w] \notin stored']
      BY <2>2
    <2> QED BY <1>3, <2>1, <2>2, Zenon
  <1>7. MarkersStay'
    BY <1>1, <1>6, Zenon DEF MarkersStay
  <1>8. Dedup!OnlyMarkedKeysAreSuppressed'
    BY <1>1 DEF Dedup!OnlyMarkedKeysAreSuppressed
  <1> QED BY <1>4, <1>5, <1>7, <1>8

LEMMA CrashKeeps ==
  ASSUME DedupInv, Dedup!Crash
  PROVE  DedupInv'
  <1>1. PICK landed \in SUBSET {key[w] : w \in {u \in Workers : at[u] = "mark"}} :
          stored' = stored \cup landed
    BY DEF Dedup!Crash
  <1>2. landed \subseteq sunk /\ landed \subseteq Keys
    BY DEF MarksFollowTheSink
  <1>3. DedupTypeOK' /\ MarksFollowTheSink'
    BY <1>1, <1>2 DEF Dedup!Crash, MarksFollowTheSink
  <1>4. MarkersStay' /\ Dedup!OnlyMarkedKeysAreSuppressed'
    BY <1>1 DEF Dedup!Crash, MarkersStay, Dedup!OnlyMarkedKeysAreSuppressed
  <1> QED BY <1>3, <1>4

LEMMA NextDedup == DedupInv /\ [Dedup!Next]_(Dedup!vars) => DedupInv'
  <1> SUFFICES ASSUME DedupInv, [Dedup!Next]_(Dedup!vars)
               PROVE  DedupInv'
    OBVIOUS
  <1>1. ASSUME NEW w \in Workers, Dedup!LoadFails(w)
        PROVE  DedupInv'
    BY <1>1 DEF Dedup!LoadFails, MarksFollowTheSink, MarkersStay, Dedup!OnlyMarkedKeysAreSuppressed
  <1>2. ASSUME NEW w \in Workers, Dedup!Emit(w)
        PROVE  DedupInv'
    BY <1>2 DEF Dedup!Emit, MarksFollowTheSink, MarkersStay, Dedup!OnlyMarkedKeysAreSuppressed
  <1>3. CASE UNCHANGED Dedup!vars
    BY <1>3 DEF Dedup!vars, MarksFollowTheSink, MarkersStay, Dedup!OnlyMarkedKeysAreSuppressed
  <1> QED
    BY <1>1, <1>2, <1>3, DeliverKeeps, ShouldEmitKeeps, LoadedKeeps, SaveKeeps, CrashKeeps DEF Dedup!Next

LEMMA DedupRuns == ServicesSpec => Dedup!Spec
  <1>1. ServicesInit => Dedup!Init
    BY DEF ServicesInit
  <1>2. [ServicesNext]_serviceVars => [Dedup!Next]_(Dedup!vars)
    BY DEF ServicesNext, DedupStep, ShardStep, MqttStep, TimersStep, SinkStep, serviceVars,
            Dedup!vars, dedupVars
  <1> QED BY <1>1, <1>2, PTL DEF ServicesSpec, Dedup!Spec

(* Deduplication loses nothing and stops every repeat it can know of: only a *)
(* key that the store marks, and that has reached the sink, is suppressed,   *)
(* and only a key not marked when its check began is emitted again; so it is *)
(* with any number of tasks and any errors of the store.                     *)
THEOREM DeduplicationIsSound == ServicesSpec => []OnlyMarkedKeysAreSuppressed
  <1>1. DedupInv => OnlyMarkedKeysAreSuppressed
    BY DEF OnlyMarkedKeysAreSuppressed
  <1> QED BY <1>1, DedupRuns, InitDedup, NextDedup, PTL DEF Dedup!Spec

HIDE DEF DedupInv, DedupTypeOK, Dedup!Goes

-----------------------------------------------------------------------------
(* The epoch fence: the inductive invariant, by parts. *)

\* The offsets of a partition that met with an end.
Settled(p) == handled[p] \cup fence_dropped[p]

InHand == fence_at # "poll"

FenceTypeOK ==
  /\ fence_at \in {"poll", "stamp", "owns", "fence", "handle"}
  /\ epoch \in Nat
  /\ position \in [Partitions -> Nat] /\ committed \in [Partitions -> Nat]
  /\ handled \in [Partitions -> SUBSET Nat] /\ fence_dropped \in [Partitions -> SUBSET Nat]
  /\ acks \subseteq [part : Partitions, offset : Nat]
  /\ assigned \subseteq Partitions
  /\ InHand => event.part \in Partitions /\ event.offset \in Nat

\* A stamp tells the tenure: while the epoch is that of the stamp, the partition
\* has not been given to the router again.
StampTellsTenure ==
  fence_at \in {"owns", "fence", "handle"} =>
    /\ event.stamp \in Nat /\ event.stamp <= epoch
    /\ event.stamp = epoch => event.tenure = tenure[event.part]

\* All before the event in hand is settled, and all before the position is or is
\* in hand.
PositionIsSettled ==
  /\ InHand => \A o \in Nat : o < event.offset => o \in Settled(event.part)
  /\ \A p \in Partitions : \A o \in Nat : o < position[p] =>
       o \in Settled(p) \/ (InHand /\ event.part = p /\ event.offset = o)

\* So is all before an offset that is committed, or on its way to be.
CommitsAreSettled ==
  /\ \A p \in Partitions : \A o \in Nat : o < committed[p] => o \in Settled(p)
  /\ \A a \in acks : \A o \in Nat : o < a.offset => o \in Settled(a.part)

FenceInv == FenceTypeOK /\ StampTellsTenure /\ PositionIsSettled /\ CommitsAreSettled

USE DEF FenceInv, FenceTypeOK, InHand, Settled

LEMMA InitFence == Shard!Init => FenceInv
  BY DEF Shard!Init, StampTellsTenure, PositionIsSettled, CommitsAreSettled

-----------------------------------------------------------------------------
(* The broker and the router *)

LEMMA RebalanceKeeps ==
  ASSUME FenceInv, NEW p \in Partitions, Shard!Rebalance(p)
  PROVE  FenceInv'
  <1>1. /\ UNCHANGED <<committed, Shard!router, Shard!consumer>> /\ assigned' \subseteq Partitions
        /\ position' = position \/ position' = [position EXCEPT ![p] = committed[p]]
    BY DEF Shard!Rebalance
  <1>2. FenceTypeOK'
    BY <1>1 DEF Shard!consumer, Shard!router
  <1>3. StampTellsTenure' /\ CommitsAreSettled'
    BY <1>1 DEF Shard!consumer, Shard!router, StampTellsTenure, CommitsAreSettled
  <1>4. PositionIsSettled'
    BY <1>1 DEF Shard!consumer, Shard!router, PositionIsSettled, CommitsAreSettled
  <1> QED BY <1>2, <1>3, <1>4

LEMMA AckKeeps ==
  ASSUME FenceInv, NEW a \in acks, Shard!Ack(a)
  PROVE  FenceInv'
  <1>1. /\ acks' \subseteq acks
        /\ committed' = committed \/ committed' = [committed EXCEPT ![a.part] = a.offset]
        /\ UNCHANGED <<assigned, position, Shard!router, fence_at, event, handled, fence_dropped>>
    BY DEF Shard!Ack
  <1>2. a.part \in Partitions /\ a.offset \in Nat
    OBVIOUS
  <1>3. FenceTypeOK'
    BY <1>1, <1>2 DEF Shard!router
  <1>4. StampTellsTenure' /\ PositionIsSettled'
    BY <1>1 DEF Shard!router, StampTellsTenure, PositionIsSettled
  <1>5. CommitsAreSettled'
    BY <1>1, <1>2 DEF CommitsAreSettled
  <1> QED BY <1>3, <1>4, <1>5

LEMMA ApplyReturnsKeeps ==
  ASSUME FenceInv, Shard!ApplyReturns
  PROVE  FenceInv'
  <1>1. epoch' = epoch + 1 /\ UNCHANGED <<Shard!broker, Shard!consumer>>
    BY DEF Shard!ApplyReturns, Shard!Bump
  <1>2. FenceTypeOK'
    BY <1>1 DEF Shard!broker, Shard!consumer
  <1>3. StampTellsTenure'
    BY <1>1 DEF Shard!consumer, StampTellsTenure
  <1>4. PositionIsSettled' /\ CommitsAreSettled'
    BY <1>1 DEF Shard!broker, Shard!consumer, PositionIsSettled, CommitsAreSettled
  <1> QED BY <1>2, <1>3, <1>4

-----------------------------------------------------------------------------
(* The consumer *)

LEMMA PollKeeps ==
  ASSUME FenceInv, Shard!Poll
  PROVE  FenceInv'
  <1>1. PICK p \in assigned :
          /\ event' = [part |-> p, offset |-> position[p], stamp |-> None, tenure |-> None]
          /\ position' = [position EXCEPT ![p] = @ + 1]
    BY DEF Shard!Poll
  <1>2. event'.part = p /\ event'.offset = position[p] /\ p \in Partitions /\ position[p] \in Nat
    BY <1>1
  <1>3. /\ fence_at = "poll" /\ fence_at' = "stamp"
        /\ UNCHANGED <<assigned, committed, Shard!router, acks, handled, fence_dropped>>
    BY DEF Shard!Poll
  <1>4. FenceTypeOK'
    BY <1>1, <1>2, <1>3 DEF Shard!router
  <1>5. StampTellsTenure' /\ CommitsAreSettled'
    BY <1>3 DEF StampTellsTenure, CommitsAreSettled
  <1>6. \A o \in Nat : o < position[p] => o \in Settled(p)
    BY <1>2, <1>3 DEF PositionIsSettled
  <1>7. PositionIsSettled'
    BY <1>1, <1>2, <1>3, <1>6 DEF PositionIsSettled
  <1> QED BY <1>4, <1>5, <1>7

LEMMA StampKeeps ==
  ASSUME FenceInv, Shard!Stamp
  PROVE  FenceInv'
  <1>1. /\ fence_at = "stamp" /\ fence_at' = "owns"
        /\ event' = [event EXCEPT !.stamp = epoch, !.tenure = tenure[event.part]]
        /\ UNCHANGED <<Shard!broker, Shard!router, acks, handled, fence_dropped>>
    BY DEF Shard!Stamp
  <1>2. event'.part = event.part /\ event'.offset = event.offset
    BY <1>1
  <1>3. FenceTypeOK'
    BY <1>1, <1>2 DEF Shard!broker, Shard!router
  <1>4. StampTellsTenure'
    BY <1>1, <1>2 DEF Shard!router, StampTellsTenure
  <1>5. PositionIsSettled' /\ CommitsAreSettled'
    BY <1>1, <1>2 DEF Shard!broker, PositionIsSettled, CommitsAreSettled
  <1> QED BY <1>3, <1>4, <1>5

LEMMA DiscardKeeps ==
  ASSUME FenceInv, InHand, NEW stale, Shard!Discard(stale), UNCHANGED <<Shard!broker, Shard!router>>
  PROVE  FenceInv'
  <1>1. /\ fence_at' = "poll" /\ UNCHANGED <<Shard!broker, Shard!router, acks, handled>>
        /\ fence_dropped' = [fence_dropped EXCEPT ![event.part] = @ \cup {event.offset}]
    BY DEF Shard!Discard
  <1>2. FenceTypeOK' /\ StampTellsTenure'
    BY <1>1 DEF Shard!broker, Shard!router, StampTellsTenure
  <1>3. \A p \in Partitions : Settled(p) \subseteq Settled(p)'
    BY <1>1
  <1>4. event.offset \in fence_dropped'[event.part]
    BY <1>1
  <1>5. PositionIsSettled'
    BY <1>1, <1>3, <1>4 DEF Shard!broker, PositionIsSettled
  <1>6. CommitsAreSettled'
    BY <1>1, <1>3 DEF Shard!broker, CommitsAreSettled
  <1> QED BY <1>2, <1>5, <1>6

\* The event goes on to the next check.
LEMMA OnwardKeeps ==
  ASSUME FenceInv, fence_at \in {"owns", "fence"}, fence_at' \in {"fence", "handle"},
         UNCHANGED <<event, acks, handled, fence_dropped, Shard!broker, Shard!router>>
  PROVE  FenceInv'
  BY DEF Shard!broker, Shard!router, StampTellsTenure, PositionIsSettled, CommitsAreSettled

LEMMA HandleKeeps ==
  ASSUME FenceInv, Shard!Handle
  PROVE  FenceInv'
  <1>1. /\ fence_at = "handle" /\ fence_at' = "poll"
        /\ handled' = [handled EXCEPT ![event.part] = @ \cup {event.offset}]
        /\ acks' = acks \cup {[part |-> event.part, offset |-> event.offset + 1]}
        /\ UNCHANGED <<Shard!broker, Shard!router, fence_dropped>>
    BY DEF Shard!Handle, Shard!CommitOffset
  <1>2. FenceTypeOK' /\ StampTellsTenure'
    BY <1>1 DEF Shard!broker, Shard!router, StampTellsTenure
  <1>3. \A p \in Partitions : Settled(p) \subseteq Settled(p)'
    BY <1>1
  <1>4. event.offset \in handled'[event.part]
    BY <1>1
  <1>5. PositionIsSettled'
    BY <1>1, <1>3, <1>4 DEF Shard!broker, PositionIsSettled
  <1>6. \A o \in Nat : o < event.offset + 1 => o \in handled'[event.part] \cup fence_dropped'[event.part]
    BY <1>1, <1>3, <1>4 DEF PositionIsSettled
  <1>7. CommitsAreSettled'
    BY <1>1, <1>3, <1>6 DEF Shard!broker, CommitsAreSettled
  <1> QED BY <1>2, <1>5, <1>7

LEMMA NextFence == FenceInv /\ [Shard!Next]_(Shard!vars) => FenceInv'
  <1> SUFFICES ASSUME FenceInv, [Shard!Next]_(Shard!vars)
               PROVE  FenceInv'
    OBVIOUS
  <1>1. CASE Shard!PollRebalance
    BY <1>1 DEF Shard!PollRebalance, Shard!consumer, StampTellsTenure, PositionIsSettled, CommitsAreSettled
  <1>2. CASE Shard!Owns
    BY <1>2, DiscardKeeps, OnwardKeeps DEF Shard!Owns
  <1>3. CASE Shard!Fence
    BY <1>3, DiscardKeeps, OnwardKeeps DEF Shard!Fence
  <1>4. CASE UNCHANGED Shard!vars
    BY <1>4 DEF Shard!vars, Shard!broker, Shard!router, Shard!consumer,
                StampTellsTenure, PositionIsSettled, CommitsAreSettled
  <1> QED
    BY <1>1, <1>2, <1>3, <1>4, RebalanceKeeps, AckKeeps, ApplyReturnsKeeps,
       PollKeeps, StampKeeps, HandleKeeps DEF Shard!Next

-----------------------------------------------------------------------------

\* An event is let through only in the tenure it was stamped in.
LEMMA FenceHolds ==
  ASSUME FenceInv, [Shard!Next]_(Shard!vars), fence_at = "fence", fence_at' = "handle"
  PROVE  event.tenure = tenure[event.part]
  <1>3. ~UNCHANGED fence_at
    OBVIOUS
  <1>4. ~Shard!PollRebalance /\ ~Shard!ApplyReturns /\ (\A p \in Partitions : ~Shard!Rebalance(p))
    BY <1>3 DEF Shard!PollRebalance, Shard!ApplyReturns, Shard!Rebalance, Shard!consumer
  <1>5. (\A a \in acks : ~Shard!Ack(a)) /\ ~UNCHANGED Shard!vars
    BY <1>3 DEF Shard!Ack, Shard!vars, Shard!consumer
  <1>6. ~Shard!Poll /\ ~Shard!Stamp /\ ~Shard!Owns /\ ~Shard!Handle
    BY DEF Shard!Poll, Shard!Stamp, Shard!Owns, Shard!Handle
  <1>1. Shard!Fence
    BY <1>4, <1>5, <1>6 DEF Shard!Next
  <1>2. ~(event.stamp < epoch)
    BY <1>1 DEF Shard!Fence, Shard!Discard
  <1> QED BY <1>2 DEF StampTellsTenure

LEMMA ShardRuns == ServicesSpec => Shard!Spec
  <1>1. ServicesInit => Shard!Init
    BY DEF ServicesInit
  <1>2. [ServicesNext]_serviceVars => [Shard!Next]_(Shard!vars)
    BY DEF ServicesNext, DedupStep, ShardStep, MqttStep, TimersStep, SinkStep, serviceVars,
            Shard!vars, shardVars, Shard!broker, Shard!router, Shard!consumer
  <1> QED BY <1>1, <1>2, PTL DEF ServicesSpec, Shard!Spec

(* Rebalances are fenced: an event whose partition was taken away and given  *)
(* back since it was stamped does not pass, and the broker never remembers   *)
(* an offset past an event that was neither handled nor dropped, for every   *)
(* interleaving of the consumer with apply_rebalance and with lost commits.  *)
THEOREM FencingIsSound == ServicesSpec => RebalancesAreFenced
  <1>1. FenceInv' =>
          \A p \in Partitions : 0 .. committed'[p] - 1 \subseteq handled'[p] \cup fence_dropped'[p]
    BY DEF CommitsAreSettled
  <1>2. FenceInv /\ FenceInv' /\ [Shard!Next]_(Shard!vars) =>
          [/\ fence_at = "fence" /\ fence_at' = "handle" => event.tenure = tenure[event.part]
           /\ \A p \in Partitions : 0 .. committed'[p] - 1 \subseteq handled'[p] \cup fence_dropped'[p]]_(Shard!vars)
    BY <1>1, FenceHolds
  <1> QED BY <1>2, ShardRuns, InitFence, NextFence, PTL DEF Shard!Spec, RebalancesAreFenced, Shard!RebalancesAreFenced

HIDE DEF FenceInv, FenceTypeOK, InHand, Settled

-----------------------------------------------------------------------------
(* The QoS-2 window: the inductive invariant, by parts. *)

\* The window s of a cursor with past p: the end of p, as a sequence.
IsWindowOf(s, p) ==
  /\ s \in Seq(PacketIds) /\ p \in Seq(PacketIds)
  /\ Len(s) <= capacity /\ Len(s) <= Len(p)
  /\ Len(s) < capacity => Len(s) = Len(p)
  /\ \A i \in 1 .. Len(s) : s[i] = p[Len(p) - Len(s) + i]

\* A whole window lies between two equal identifiers.
Spaced(p) == \A i, j \in 1 .. Len(p) : i < j /\ p[i] = p[j] => j - i > capacity

\* The cursor that was saved is as good as the live one, for its own past.
CursorInv ==
  /\ capacity \in Nat
  /\ unacked \subseteq PacketIds
  /\ IsWindowOf(items, processed) /\ Spaced(processed)
  /\ IsWindowOf(saved.items, saved.processed) /\ Spaced(saved.processed)

-----------------------------------------------------------------------------
(* BoundedSet *)

\* An identifier that repeats one of the last `capacity` is in the window.
LEMMA RecentIsInWindow ==
  ASSUME capacity \in Nat, NEW s, NEW p, IsWindowOf(s, p),
         NEW i \in 1 .. Len(p), i > Len(p) - capacity
  PROVE  \E k \in 1 .. Len(s) : s[k] = p[i]
  <1>1. Len(s) \in Nat /\ Len(p) \in Nat
    BY DEF IsWindowOf
  <1> DEFINE k == i - (Len(p) - Len(s))
  <1>2. k \in 1 .. Len(s)
    BY <1>1 DEF IsWindowOf
  <1>3. Len(p) - Len(s) + k = i
    BY <1>1
  <1>4. s[k] = p[i]
    BY <1>2, <1>3 DEF IsWindowOf
  <1> QED BY <1>2, <1>4

\* What insert pushes is the window of the longer past.
LEMMA PushedIsWindow ==
  ASSUME capacity \in Nat, NEW s, NEW p, IsWindowOf(s, p), NEW id \in PacketIds
  PROVE  IsWindowOf(Mqtt!Pushed(s, id), Append(p, id))
  <1> DEFINE q == Append(p, id)
  <1>1. s \in Seq(PacketIds) /\ p \in Seq(PacketIds) /\ Len(s) \in Nat /\ Len(p) \in Nat
    BY DEF IsWindowOf
  <1>2. /\ q \in Seq(PacketIds) /\ Len(q) = Len(p) + 1
        /\ \A i \in 1 .. Len(p) : q[i] = p[i]
        /\ q[Len(p) + 1] = id
    BY <1>1
  <1>3. CASE capacity = 0
    BY <1>1, <1>2, <1>3 DEF IsWindowOf, Mqtt!Pushed
  <1>4. CASE capacity # 0 /\ Len(s) < capacity
    <2>1. Mqtt!Pushed(s, id) = Append(s, id)
      BY <1>1, <1>4 DEF Mqtt!Pushed
    <2>2. Len(s) = Len(p)
      BY <1>4 DEF IsWindowOf
    <2>3. \A i \in 1 .. Len(s) : s[i] = p[i]
      BY <1>1, <2>2 DEF IsWindowOf
    <2> QED BY <1>1, <1>2, <1>4, <2>1, <2>2, <2>3 DEF IsWindowOf
  <1>5. CASE capacity # 0 /\ Len(s) >= capacity
    <2> DEFINE t == Tail(s)
    <2>1. Len(s) = capacity /\ Len(s) > 0 /\ s # <<>>
      BY <1>1, <1>5 DEF IsWindowOf
    <2>2. Mqtt!Pushed(s, id) = Append(t, id)
      BY <1>5 DEF Mqtt!Pushed
    <2>3. /\ t \in Seq(PacketIds) /\ Len(t) = Len(s) - 1
          /\ \A i \in 1 .. Len(t) : t[i] = s[i + 1]
      BY <1>1, <2>1
    <2>4. /\ Append(t, id) \in Seq(PacketIds) /\ Len(Append(t, id)) = capacity
          /\ \A i \in 1 .. Len(t) : Append(t, id)[i] = t[i]
          /\ Append(t, id)[capacity] = id
      BY <2>1, <2>3
    <2> HIDE DEF t, q
    <2>5. ASSUME NEW i \in 1 .. capacity
          PROVE  Append(t, id)[i] = q[Len(q) - capacity + i]
      <3>1. CASE i = capacity
        <4>1. Len(q) - capacity + i = Len(p) + 1
          BY <1>1, <1>2, <3>1
        <4> QED BY <1>2, <2>4, <3>1, <4>1
      <3>2. CASE i < capacity
        <4>1. i \in 1 .. Len(t) /\ i + 1 \in 1 .. Len(s)
          BY <2>1, <2>3, <2>5, <3>2
        <4>2. Append(t, id)[i] = p[Len(p) - Len(s) + (i + 1)]
          BY <2>3, <2>4, <4>1 DEF IsWindowOf
        <4>3. /\ Len(p) - Len(s) + (i + 1) = Len(q) - capacity + i
              /\ Len(q) - capacity + i \in 1 .. Len(p)
          BY <1>1, <1>2, <2>1, <2>5, <3>2 DEF IsWindowOf
        <4> QED BY <1>2, <4>2, <4>3
      <3>3. i = capacity \/ i < capacity
        BY <2>5
      <3> QED BY <3>1, <3>2, <3>3
    <2>6. capacity <= Len(q) /\ capacity <= capacity
      BY <1>1, <1>2, <2>1 DEF IsWindowOf
    <2>7. IsWindowOf(Append(t, id), q)
      BY <1>2, <2>4, <2>5, <2>6 DEF IsWindowOf
    <2> QED BY <2>2, <2>7 DEF q
  <1> QED BY <1>1, <1>3, <1>4, <1>5

\* An identifier that is not in the window keeps its distance.
LEMMA NewIsSpaced ==
  ASSUME capacity \in Nat, NEW s, NEW p, IsWindowOf(s, p), Spaced(p),
         NEW id \in PacketIds, ~Mqtt!Contains(s, id)
  PROVE  Spaced(Append(p, id))
  <1> DEFINE q == Append(p, id)
  <1>1. s \in Seq(PacketIds) /\ p \in Seq(PacketIds) /\ Len(p) \in Nat
    BY DEF IsWindowOf
  <1>2. /\ Len(q) = Len(p) + 1
        /\ \A i \in 1 .. Len(p) : q[i] = p[i]
        /\ q[Len(p) + 1] = id
    BY <1>1
  <1>3. \A k \in 1 .. Len(s) : s[k] # id
    BY DEF Mqtt!Contains
  <1> HIDE DEF q
  <1>4. ASSUME NEW i \in 1 .. Len(q), NEW j \in 1 .. Len(q), i < j, q[i] = q[j]
        PROVE  j - i > capacity
    <2>1. i \in 1 .. Len(p)
      BY <1>1, <1>2, <1>4
    <2>2. CASE j \in 1 .. Len(p)
      BY <1>2, <1>4, <2>1, <2>2 DEF Spaced
    <2>3. CASE j = Len(p) + 1
      <3>1. p[i] = id
        BY <1>2, <1>4, <2>1, <2>3
      <3>2. ~(i > Len(p) - capacity)
        BY <1>3, <2>1, <3>1, RecentIsInWindow
      <3> QED BY <1>1, <2>1, <2>3, <3>2
    <2> QED BY <1>1, <1>2, <2>2, <2>3
  <1> QED BY <1>4 DEF Spaced, q

\* BoundedSet::insert, with the past it answers for.
LEMMA InsertKeeps ==
  ASSUME capacity \in Nat, NEW s, NEW p, IsWindowOf(s, p), Spaced(p), NEW id \in PacketIds
  PROVE  LET seen == Mqtt!Insert(s, id)
             past == IF seen.new THEN Append(p, id) ELSE p
         IN  IsWindowOf(seen.items, past) /\ Spaced(past)
  <1>1. CASE Mqtt!Contains(s, id)
    BY <1>1 DEF Mqtt!Insert
  <1>2. CASE ~Mqtt!Contains(s, id)
    BY <1>2, PushedIsWindow, NewIsSpaced DEF Mqtt!Insert
  <1> QED BY <1>1, <1>2

-----------------------------------------------------------------------------

LEMMA InitCursor == Capacities \subseteq Nat /\ Mqtt!Init => CursorInv
  <1> SUFFICES ASSUME Capacities \subseteq Nat, Mqtt!Init
               PROVE  CursorInv
    OBVIOUS
  <1>1. capacity \in Nat /\ unacked = {} /\ items = <<>> /\ processed = <<>>
    BY DEF Mqtt!Init
  <1>2. saved.items = <<>> /\ saved.processed = <<>>
    BY <1>1 DEF Mqtt!Init, Mqtt!Cursor
  <1>3. <<>> \in Seq(PacketIds) /\ Len(<<>>) = 0
    OBVIOUS
  <1>4. IsWindowOf(<<>>, <<>>) /\ Spaced(<<>>)
    BY <1>1, <1>3 DEF IsWindowOf, Spaced
  <1> QED BY <1>1, <1>2, <1>4 DEF CursorInv

LEMMA NextCursor == CursorInv /\ [Mqtt!Next]_(Mqtt!vars) => CursorInv'
  <1> SUFFICES ASSUME CursorInv, [Mqtt!Next]_(Mqtt!vars)
               PROVE  CursorInv'
    OBVIOUS
  <1> USE DEF CursorInv, IsWindowOf, Spaced
  <1>1. ASSUME NEW id \in PacketIds, Mqtt!Publish(id)
        PROVE  CursorInv'
    BY <1>1 DEF Mqtt!Publish
  <1>2. ASSUME NEW id \in unacked, Mqtt!Acknowledge(id)
        PROVE  CursorInv'
    BY <1>2 DEF Mqtt!Acknowledge
  <1>3. ASSUME NEW id \in unacked, Mqtt!ObserveQos2(id)
        PROVE  CursorInv'
    <2>1. /\ items' = Mqtt!Insert(items, id).items
          /\ processed' = IF Mqtt!Insert(items, id).new THEN Append(processed, id) ELSE processed
          /\ UNCHANGED <<capacity, saved, unacked>>
      BY <1>3 DEF Mqtt!ObserveQos2
    <2>2. /\ capacity \in Nat /\ id \in PacketIds
          /\ IsWindowOf(items, processed) /\ Spaced(processed)
      BY <1>3
    <2> HIDE DEF CursorInv, IsWindowOf, Spaced
    <2>3. IsWindowOf(items', processed') /\ Spaced(processed')
      BY <2>1, <2>2, InsertKeeps
    <2>4. capacity' = capacity
      BY <2>1
    <2> QED BY <2>1, <2>3, <2>4 DEF CursorInv, IsWindowOf, Spaced
  <1>4. CASE Mqtt!ToBytes
    <2>1. /\ saved'.items = items /\ saved'.processed = processed
          /\ UNCHANGED <<capacity, items, processed, unacked>>
      BY <1>4 DEF Mqtt!ToBytes, Mqtt!Cursor
    <2> QED BY <2>1
  <1>5. CASE Mqtt!FromBytes
    BY <1>5 DEF Mqtt!FromBytes
  <1>6. CASE UNCHANGED Mqtt!vars
    BY <1>6 DEF Mqtt!vars
  <1> QED BY <1>1, <1>2, <1>3, <1>4, <1>5, <1>6 DEF Mqtt!Next

LEMMA CursorInvGives == CursorInv => Mqtt!WindowRecognisesRedeliveries
  <1> SUFFICES ASSUME CursorInv
               PROVE  Mqtt!WindowRecognisesRedeliveries
    OBVIOUS
  <1>1. /\ capacity \in Nat /\ IsWindowOf(items, processed) /\ Spaced(processed)
        /\ Len(items) \in Nat /\ Len(processed) \in Nat
        /\ DOMAIN processed = 1 .. Len(processed) /\ DOMAIN items = 1 .. Len(items)
    BY DEF CursorInv, IsWindowOf
  <1>2. ASSUME NEW x \in Mqtt!ToSet(items)
        PROVE  x \in Mqtt!LastOf(processed, capacity)
    <2>1. PICK k \in 1 .. Len(items) : x = items[k]
      BY <1>1, <1>2 DEF Mqtt!ToSet
    <2> DEFINE i == Len(processed) - Len(items) + k
    <2>2. x = processed[i]
      BY <1>1, <2>1 DEF IsWindowOf
    <2>3. Len(items) <= capacity /\ Len(items) <= Len(processed)
      BY <1>1 DEF IsWindowOf
    <2>4. i \in 1 .. Len(processed) /\ i > Len(processed) - capacity
      BY <1>1, <2>1, <2>3
    <2> QED BY <1>1, <2>2, <2>4 DEF Mqtt!LastOf
  <1>3. ASSUME NEW x \in Mqtt!LastOf(processed, capacity)
        PROVE  x \in Mqtt!ToSet(items)
    <2>1. PICK i \in DOMAIN processed : x = processed[i] /\ i > Len(processed) - capacity
      BY <1>3 DEF Mqtt!LastOf
    <2>2. PICK k \in 1 .. Len(items) : items[k] = x
      BY <1>1, <2>1, RecentIsInWindow
    <2> QED BY <1>1, <2>2 DEF Mqtt!ToSet
  <1>4. Mqtt!ToSet(items) = Mqtt!LastOf(processed, capacity)
    BY <1>2, <1>3
  <1>5. Len(items) <= capacity
    BY <1>1 DEF IsWindowOf
  <1>6. \A i, j \in DOMAIN processed : i < j /\ processed[i] = processed[j] => j - i > capacity
    BY <1>1 DEF Spaced
  <1> QED BY <1>4, <1>5, <1>6 DEF Mqtt!WindowRecognisesRedeliveries

LEMMA MqttRuns == ServicesSpec => Mqtt!Spec
  <1>1. ServicesInit => Mqtt!Init
    BY DEF ServicesInit
  <1>2. [ServicesNext]_serviceVars => [Mqtt!Next]_(Mqtt!vars)
    BY DEF ServicesNext, DedupStep, ShardStep, MqttStep, TimersStep, SinkStep, serviceVars,
            Mqtt!vars, mqttVars
  <1> QED BY <1>1, <1>2, PTL DEF ServicesSpec, Mqtt!Spec

(* The window holds exactly the last `capacity` identifiers told to be new,  *)
(* and a repetition within them is never told to be new, for every capacity  *)
(* that BoundedSet can have and after any number of restarts from bytes.     *)
THEOREM WindowIsExact ==
  ASSUME Capacities \subseteq Nat
  PROVE  ServicesSpec => []WindowRecognisesRedeliveries
  <1>1. Mqtt!Init => CursorInv
    BY InitCursor
  <1>2. CursorInv => WindowRecognisesRedeliveries
    BY CursorInvGives DEF WindowRecognisesRedeliveries
  <1> QED BY <1>1, <1>2, MqttRuns, NextCursor, PTL DEF Mqtt!Spec
-----------------------------------------------------------------------------
(* The timers: the inductive invariant, by parts. *)

TimerEntries == [ts : Stamps, node_id : Nodes, seq : Nat, deleted : BOOLEAN]
Firings == [entry : TimerEntries, at : Nat]

\* The timers S, or the firings f, of one time and node.
TimersOf(S, ts, node) == {e \in S : e.ts = ts /\ e.node_id = node}
FiringsOf(f, ts, node) == {i \in DOMAIN f : f[i].entry.ts = ts /\ f[i].entry.node_id = node}

\* The timer e, live or fired later, may follow the firing r.
MayFollow(r, e) == e.seq # r.entry.seq /\ (Before(e, r.entry) => e.seq >= r.at)

\* Live timers S, the next sequence number n, and the firings f so far,
Typed(S, n, f) ==
  /\ S \subseteq TimerEntries /\ Heap(S) /\ n \in Nat
  /\ f \in Seq(Firings)
  /\ \A e \in S : ~e.deleted /\ e.seq < n
  /\ \A i \in DOMAIN f : f[i].entry.seq < n /\ f[i].at <= n

\* with what may still fire,
Orderly(S, f) ==
  /\ \A i \in DOMAIN f : \A e \in S : MayFollow(f[i], e)
  /\ \A i, j \in DOMAIN f : i < j => MayFollow(f[i], f[j].entry)

\* and the firings that are owed, o.
Balanced(S, f, o) ==
  /\ o \in [Stamps \X Nodes -> Int]
  /\ \A ts \in Stamps, node \in Nodes :
       Cardinality(FiringsOf(f, ts, node)) + Cardinality(TimersOf(S, ts, node)) = o[<<ts, node>>]

Ledger(S, n, f, o) == Typed(S, n, f) /\ Orderly(S, f) /\ Balanced(S, f, o)

TimersInv ==
  /\ heap \subseteq TimerEntries
  /\ Ledger(Timers!Live, next_seq, fired, owed)
  /\ snapshot # None =>
       Ledger(snapshot.entries, snapshot.next_seq, snapshot.fired, snapshot.owed)
  /\ quiet # None => \A e \in Timers!Live : e.ts > quiet

-----------------------------------------------------------------------------
(* One entry of the ledger. *)

LEMMA TimersOfFinite ==
  ASSUME NEW S, IsFiniteSet(S), NEW ts, NEW node
  PROVE  IsFiniteSet(TimersOf(S, ts, node)) /\ Cardinality(TimersOf(S, ts, node)) \in Nat
  <1>1. TimersOf(S, ts, node) \in SUBSET S
    BY DEF TimersOf
  <1> QED BY <1>1, FS_Subset, FS_CardinalityType

LEMMA FiringsOfFinite ==
  ASSUME NEW f \in Seq(Firings), NEW ts, NEW node
  PROVE  IsFiniteSet(FiringsOf(f, ts, node)) /\ Cardinality(FiringsOf(f, ts, node)) \in Nat
  <1>1. FiringsOf(f, ts, node) \in SUBSET (1 .. Len(f)) /\ Len(f) \in Nat
    BY DEF FiringsOf
  <1>2. IsFiniteSet(1 .. Len(f))
    BY <1>1, FS_Interval
  <1> QED BY <1>1, <1>2, FS_Subset, FS_CardinalityType

\* A timer that is registered owes a firing.
LEMMA RegisterInLedger ==
  ASSUME Stamps \subseteq Int, NEW S, NEW n, NEW f, NEW o, Ledger(S, n, f, o),
         NEW ts \in Stamps, NEW node \in Nodes
  PROVE  LET x == [ts |-> ts, node_id |-> node, seq |-> n, deleted |-> FALSE]
         IN  Ledger(S \cup {x}, n + 1, f, [o EXCEPT ![<<ts, node>>] = @ + 1])
  <1> DEFINE x == [ts |-> ts, node_id |-> node, seq |-> n, deleted |-> FALSE]
             T == S \cup {x}
             p == [o EXCEPT ![<<ts, node>>] = @ + 1]
  <1>1. /\ n \in Nat /\ x \in TimerEntries /\ f \in Seq(Firings) /\ IsFiniteSet(S)
        /\ x.seq = n /\ x.ts = ts /\ x.node_id = node /\ ~x.deleted /\ x \notin S
    BY DEF Ledger, Typed, TimerEntries, Heap
  <1> HIDE DEF x
  <1>2. Typed(T, n + 1, f)
    <2>1. IsFiniteSet(T)
      BY <1>1, FS_AddElement
    <2>5. T \subseteq TimerEntries /\ n + 1 \in Nat
      BY <1>1 DEF Ledger, Typed
    <2>6. \A e \in T : e.ts \in Int /\ e.seq \in Int
      <3>1. \A e \in S : e.ts \in Int /\ e.seq \in Int
        BY DEF Ledger, Typed, Heap
      <3>2. x.ts \in Int /\ x.seq \in Int
        BY <1>1
      <3> QED BY <3>1, <3>2
    <2>7. \A e \in S : e.seq # n
      BY <1>1 DEF Ledger, Typed, TimerEntries
    <2>2. Heap(T)
      <3>1. \A e, g \in S : e.seq = g.seq => e = g
        BY DEF Ledger, Typed, Heap
      <3>2. \A e, g \in T : e.seq = g.seq => e = g
        BY <1>1, <2>7, <3>1
      <3> QED BY <2>1, <2>6, <3>2 DEF Heap
    <2>3. \A i \in DOMAIN f : f[i].entry.seq < n + 1 /\ f[i].at <= n + 1
      <3>1. ASSUME NEW i \in DOMAIN f
            PROVE  f[i].entry.seq < n + 1 /\ f[i].at <= n + 1
        <4>1. f[i] \in Firings /\ f[i].entry.seq < n /\ f[i].at <= n
          BY <1>1 DEF Ledger, Typed
        <4> QED BY <1>1, <4>1 DEF Firings, TimerEntries
      <3> QED BY <3>1
    <2>4. \A e \in T : ~e.deleted /\ e.seq < n + 1
      BY <1>1 DEF Ledger, Typed, TimerEntries
    <2> HIDE DEF T
    <2> QED BY <1>1, <2>2, <2>3, <2>4, <2>5 DEF Typed
  <1>3. Orderly(T, f)
    <2>1. ASSUME NEW i \in DOMAIN f
          PROVE  MayFollow(f[i], x)
      <3>1. f[i] \in Firings /\ f[i].entry.seq < n /\ f[i].at <= n
        BY <1>1 DEF Ledger, Typed
      <3> QED BY <1>1, <3>1 DEF Firings, TimerEntries, MayFollow
    <2> QED BY <2>1 DEF Ledger, Orderly
  <1>4. Balanced(T, f, p)
    <2>1. o \in [Stamps \X Nodes -> Int] /\ p \in [Stamps \X Nodes -> Int]
      BY DEF Ledger, Balanced
    <2>2. ASSUME NEW s \in Stamps, NEW m \in Nodes
          PROVE  Cardinality(FiringsOf(f, s, m)) + Cardinality(TimersOf(T, s, m)) = p[<<s, m>>]
      <3>1. /\ Cardinality(FiringsOf(f, s, m)) + Cardinality(TimersOf(S, s, m)) = o[<<s, m>>]
            /\ Cardinality(FiringsOf(f, s, m)) \in Nat
            /\ IsFiniteSet(TimersOf(S, s, m)) /\ Cardinality(TimersOf(S, s, m)) \in Nat
        BY <1>1, FiringsOfFinite, TimersOfFinite DEF Ledger, Balanced
      <3>2. CASE s = ts /\ m = node
        <4>1. TimersOf(T, s, m) = TimersOf(S, s, m) \cup {x} /\ x \notin TimersOf(S, s, m)
          BY <1>1, <3>2 DEF TimersOf
        <4>2. Cardinality(TimersOf(T, s, m)) = Cardinality(TimersOf(S, s, m)) + 1
          BY <3>1, <4>1, FS_AddElement
        <4>3. p[<<s, m>>] = o[<<s, m>>] + 1
          BY <2>1, <3>2
        <4> QED BY <3>1, <4>2, <4>3
      <3>3. CASE ~(s = ts /\ m = node)
        <4>1. TimersOf(T, s, m) = TimersOf(S, s, m)
          BY <1>1, <3>3 DEF TimersOf
        <4>2. p[<<s, m>>] = o[<<s, m>>]
          BY <2>1, <3>3
        <4> QED BY <3>1, <4>1, <4>2
      <3> QED BY <3>2, <3>3
    <2> QED BY <2>1, <2>2 DEF Balanced
  <1> QED BY <1>2, <1>3, <1>4 DEF Ledger, x

\* One that is deleted owes none any more.
LEMMA DeleteInLedger ==
  ASSUME NEW S, NEW n, NEW f, NEW o, Ledger(S, n, f, o),
         NEW ts \in Stamps, NEW node \in Nodes, NEW e \in TimersOf(S, ts, node)
  PROVE  Ledger(S \ {e}, n, f, [o EXCEPT ![<<ts, node>>] = @ - 1])
  <1> DEFINE T == S \ {e}
             p == [o EXCEPT ![<<ts, node>>] = @ - 1]
  <1>1. f \in Seq(Firings) /\ IsFiniteSet(S) /\ e \in S /\ e.ts = ts /\ e.node_id = node
    BY DEF Ledger, Typed, Heap, TimersOf
  <1>2. Typed(T, n, f)
    <2>1. IsFiniteSet(T)
      BY <1>1, FS_RemoveElement
    <2>2. Heap(T)
      BY <2>1 DEF Ledger, Typed, Heap
    <2> QED BY <2>2 DEF Ledger, Typed
  <1>3. Orderly(T, f)
    BY DEF Ledger, Orderly
  <1>4. Balanced(T, f, p)
    <2>1. o \in [Stamps \X Nodes -> Int] /\ p \in [Stamps \X Nodes -> Int]
      BY DEF Ledger, Balanced
    <2>2. ASSUME NEW s \in Stamps, NEW m \in Nodes
          PROVE  Cardinality(FiringsOf(f, s, m)) + Cardinality(TimersOf(T, s, m)) = p[<<s, m>>]
      <3>1. /\ Cardinality(FiringsOf(f, s, m)) + Cardinality(TimersOf(S, s, m)) = o[<<s, m>>]
            /\ Cardinality(FiringsOf(f, s, m)) \in Nat
            /\ IsFiniteSet(TimersOf(S, s, m)) /\ Cardinality(TimersOf(S, s, m)) \in Nat
        BY <1>1, FiringsOfFinite, TimersOfFinite DEF Ledger, Balanced
      <3>2. CASE s = ts /\ m = node
        <4>1. TimersOf(T, s, m) = TimersOf(S, s, m) \ {e} /\ e \in TimersOf(S, s, m)
          BY <1>1, <3>2 DEF TimersOf
        <4>2. Cardinality(TimersOf(T, s, m)) = Cardinality(TimersOf(S, s, m)) - 1
          BY <3>1, <4>1, FS_RemoveElement
        <4>3. p[<<s, m>>] = o[<<s, m>>] - 1
          BY <2>1, <3>2
        <4> QED BY <3>1, <4>2, <4>3
      <3>3. CASE ~(s = ts /\ m = node)
        <4>1. TimersOf(T, s, m) = TimersOf(S, s, m)
          BY <1>1, <3>3 DEF TimersOf
        <4>2. p[<<s, m>>] = o[<<s, m>>]
          BY <2>1, <3>3
        <4> QED BY <3>1, <4>1, <4>2
      <3> QED BY <3>2, <3>3
    <2> QED BY <2>1, <2>2 DEF Balanced
  <1> QED BY <1>2, <1>3, <1>4 DEF Ledger
\* out lists the timers D in their order.
InOrder(out, D) ==
  /\ out \in Seq(D)
  /\ \A i, j \in DOMAIN out : i < j => Before(out[i], out[j])
  /\ \A e \in D : \E i \in DOMAIN out : out[i] = e

\* When the timers D fire, there are as many more firings as timers in D.
LEMMA FiringsMatch ==
  ASSUME NEW D, Heap(D), NEW out, InOrder(out, D),
         NEW f \in Seq(Firings), NEW g \in Seq(Firings),
         Len(g) = Len(out), \A i \in DOMAIN out : g[i].entry = out[i],
         NEW ts, NEW node
  PROVE  Cardinality(FiringsOf(f \o g, ts, node))
           = Cardinality(FiringsOf(f, ts, node)) + Cardinality(TimersOf(D, ts, node))
  <1> DEFINE l == Len(f)
             F == FiringsOf(f, ts, node)
             G == {k \in l + 1 .. l + Len(g) : out[k - l].ts = ts /\ out[k - l].node_id = node}
             h == [k \in G |-> out[k - l]]
             C == TimersOf(D, ts, node)
  <1>1. /\ l \in Nat /\ Len(g) \in Nat /\ DOMAIN f = 1 .. l
        /\ DOMAIN g = 1 .. Len(g) /\ DOMAIN out = 1 .. Len(g)
        /\ \A i \in DOMAIN out : out[i] \in D
    BY DEF InOrder
  <1>2. FiringsOf(f \o g, ts, node) = F \cup G
    <2>1. /\ DOMAIN (f \o g) = 1 .. l + Len(g)
          /\ \A i \in 1 .. l : (f \o g)[i] = f[i]
          /\ \A i \in l + 1 .. l + Len(g) : (f \o g)[i] = g[i - l]
      <3>1. /\ f \o g \in Seq(Firings) /\ Len(f \o g) = l + Len(g)
            /\ \A i \in 1 .. l + Len(g) : (f \o g)[i] = IF i <= l THEN f[i] ELSE g[i - l]
        BY ConcatProperties
      <3>2. DOMAIN (f \o g) = 1 .. l + Len(g)
        BY <3>1
      <3> HIDE DEF l
      <3>3. \A i \in 1 .. l : (f \o g)[i] = f[i]
        BY <1>1, <3>1
      <3>4. \A i \in l + 1 .. l + Len(g) : (f \o g)[i] = g[i - l]
        BY <1>1, <3>1
      <3> QED BY <3>2, <3>3, <3>4
    <2>2. \A i \in l + 1 .. l + Len(g) : (f \o g)[i].entry = out[i - l]
      BY <1>1, <2>1
    <2> DEFINE fg == f \o g
    <2>3. /\ DOMAIN fg = (1 .. l) \cup (l + 1 .. l + Len(g))
          /\ \A i \in 1 .. l : fg[i] = f[i]
          /\ \A i \in l + 1 .. l + Len(g) : fg[i].entry = out[i - l]
      BY <1>1, <2>1, <2>2
    <2> HIDE DEF fg, l
    <2>4. FiringsOf(fg, ts, node) = F \cup G
      BY <1>1, <2>3 DEF FiringsOf
    <2> QED BY <2>4 DEF fg
  <1>3. F \cap G = {}
    BY <1>1 DEF FiringsOf
  <1>4. IsFiniteSet(F) /\ Cardinality(F) \in Nat
    BY FiringsOfFinite
  <1>5. IsFiniteSet(G) /\ Cardinality(G) \in Nat
    <2>1. G \in SUBSET (l + 1 .. l + Len(g)) /\ l + 1 \in Int /\ l + Len(g) \in Int
      BY <1>1
    <2>2. IsFiniteSet(l + 1 .. l + Len(g))
      BY <2>1, FS_Interval
    <2> HIDE DEF l, G
    <2> QED BY <2>1, <2>2, FS_Subset, FS_CardinalityType
  <1>6. Cardinality(C) = Cardinality(G)
    <2>1. \A k \in G : k \in Int /\ k - l \in DOMAIN out /\ out[k - l] \in C
      BY <1>1 DEF TimersOf
    <2>2. h \in [G -> C] /\ \A k \in G : h[k] = out[k - l]
      BY <2>1
    <2>3. \A j, k \in G : h[j] = h[k] => j = k
      <3> HIDE DEF h, G, C, l
      <3>1. ASSUME NEW j \in G, NEW k \in G, h[j] = h[k], j < k
            PROVE  FALSE
        <4>1. j - l \in DOMAIN out /\ k - l \in DOMAIN out /\ j - l < k - l
          BY <1>1, <2>1, <3>1
        <4>2. Before(out[j - l], out[k - l])
          BY <4>1 DEF InOrder
        <4>3. out[j - l] = out[k - l] /\ out[j - l] \in D
          BY <1>1, <2>2, <3>1, <4>1
        <4> QED BY <4>2, <4>3, BeforeOrder
      <3>2. \A j, k \in G : j \in Int /\ k \in Int
        BY <2>1
      <3> QED BY <3>1, <3>2
    <2>4. \A e \in C : \E k \in G : h[k] = e
      <3>1. ASSUME NEW e \in C
            PROVE  \E k \in G : h[k] = e
        <4>1. PICK i \in DOMAIN out : out[i] = e
          BY DEF TimersOf, InOrder
        <4>2. l + i \in l + 1 .. l + Len(g) /\ (l + i) - l = i
          BY <1>1
        <4>3. l + i \in G
          BY <4>1, <4>2 DEF TimersOf
        <4>4. h[l + i] = e
          BY <4>1, <4>2, <4>3
        <4> QED BY <4>3, <4>4
      <3> QED BY <3>1
    <2> HIDE DEF h, G, C
    <2>5. h \in Bijection(G, C)
      BY <2>2, <2>3, <2>4 DEF Bijection, Injection, Surjection, IsInjective
    <2> QED BY <1>5, <2>5, FS_Bijection DEF ExistsBijection
  <1> HIDE DEF F, G, C, l, h
  <1>7. Cardinality(F \cup G) = Cardinality(F) + Cardinality(G)
    <2>1. Cardinality(F \cup G) = Cardinality(F) + Cardinality(G) - Cardinality(F \cap G)
      BY <1>4, <1>5, FS_Union
    <2>2. Cardinality(F \cap G) = 0
      BY <1>3, FS_EmptySet
    <2> QED BY <1>4, <1>5, <2>1, <2>2
  <1> QED BY <1>2, <1>6, <1>7 DEF F, C
\* The timers D fire in order, ahead of those that stay.
LEMMA FireInLedger ==
  ASSUME NEW S, NEW n, NEW f, NEW o, Ledger(S, n, f, o),
         NEW D \in SUBSET S, \A e \in D, g \in S \ D : Before(e, g),
         NEW out, InOrder(out, D)
  PROVE  Ledger(S \ D, n, f \o [i \in DOMAIN out |-> [entry |-> out[i], at |-> n]], o)
  <1> DEFINE g == [i \in DOMAIN out |-> [entry |-> out[i], at |-> n]]
             l == Len(f)
             T == S \ D
             fg == f \o g
  <1>1. /\ S \subseteq TimerEntries /\ Heap(S) /\ n \in Nat /\ f \in Seq(Firings) /\ l \in Nat
        /\ IsFiniteSet(S)
        /\ \A e \in S : ~e.deleted /\ e.seq < n
        /\ \A i \in DOMAIN f : f[i].entry.seq < n /\ f[i].at <= n
    BY DEF Ledger, Typed, Heap
  <1>2. /\ DOMAIN out = 1 .. Len(out) /\ Len(out) \in Nat
        /\ \A i \in DOMAIN out : out[i] \in D /\ out[i] \in S /\ out[i] \in TimerEntries
    BY <1>1 DEF InOrder
  <1>3. /\ g \in Seq(Firings) /\ Len(g) = Len(out)
        /\ \A i \in DOMAIN out : g[i].entry = out[i] /\ g[i].at = n
    <2>1. \A i \in DOMAIN out : [entry |-> out[i], at |-> n] \in Firings
      BY <1>1, <1>2 DEF Firings
    <2> QED BY <1>2, <2>1
  <1> HIDE DEF g
  <1>4. /\ fg \in Seq(Firings) /\ DOMAIN fg = (1 .. l) \cup (l + 1 .. l + Len(out))
        /\ \A i \in 1 .. l : fg[i] = f[i] /\ i \in DOMAIN f
        /\ \A i \in l + 1 .. l + Len(out) : /\ i - l \in DOMAIN out
                                            /\ fg[i] = g[i - l]
    BY <1>1, <1>2, <1>3, ConcatProperties
  <1> HIDE DEF l, fg
  <1>5. /\ \A i \in DOMAIN fg : i \in 1 .. l \/ i \in l + 1 .. l + Len(out)
        /\ \A i \in l + 1 .. l + Len(out) : /\ fg[i].entry = out[i - l] /\ fg[i].at = n
                                            /\ out[i - l] \in S /\ out[i - l] \in D
    BY <1>2, <1>3, <1>4
  <1>6. /\ IsFiniteSet(T) /\ IsFiniteSet(D)
        /\ Heap(T) /\ Heap(D) /\ D \subseteq TimerEntries
    <2>1. IsFiniteSet(T) /\ IsFiniteSet(D)
      BY <1>1, FS_Subset
    <2> QED BY <1>1, <2>1 DEF Heap
  <1>7. Typed(T, n, fg)
    <2>1. \A i \in DOMAIN fg : fg[i].entry.seq < n /\ fg[i].at <= n
      BY <1>1, <1>4, <1>5
    <2> QED BY <1>1, <1>4, <1>6, <2>1 DEF Typed
  <1>8. Orderly(T, fg)
    <2>1. \A i \in 1 .. l : \A e \in S : MayFollow(fg[i], e)
      BY <1>4 DEF Ledger, Orderly
    <2>2. ASSUME NEW e \in S, NEW d \in D, d # e, ~Before(e, d), NEW r, r.entry = d
          PROVE  MayFollow(r, e)
      BY <1>1, <2>2 DEF Heap, MayFollow
    <2>3. ASSUME NEW i \in DOMAIN fg, NEW e \in T
          PROVE  MayFollow(fg[i], e)
      <3>1. CASE i \in l + 1 .. l + Len(out)
        <4>1. Before(out[i - l], e) /\ out[i - l] \in D /\ out[i - l] # e
          BY <1>5, <3>1
        <4>2. ~Before(e, out[i - l])
          BY <1>1, <1>5, <3>1, <4>1, BeforeOrder
        <4> QED BY <1>5, <2>2, <3>1, <4>1, <4>2
      <3> QED BY <1>5, <2>1, <3>1
    <2>4. ASSUME NEW i \in DOMAIN fg, NEW j \in DOMAIN fg, i < j
          PROVE  MayFollow(fg[i], fg[j].entry)
      <3>1. CASE i \in 1 .. l /\ j \in 1 .. l
        BY <1>4, <2>4, <3>1 DEF Ledger, Orderly
      <3>2. CASE i \in 1 .. l /\ j \in l + 1 .. l + Len(out)
        BY <1>5, <2>1, <3>2
      <3>3. CASE i \in l + 1 .. l + Len(out) /\ j \in l + 1 .. l + Len(out)
        <4>1. i - l \in DOMAIN out /\ j - l \in DOMAIN out /\ i - l < j - l
          BY <1>1, <1>4, <2>4, <3>3
        <4>2. Before(out[i - l], out[j - l])
          BY <4>1 DEF InOrder
        <4>3. /\ out[i - l] # out[j - l] /\ ~Before(out[j - l], out[i - l])
              /\ out[i - l] \in D /\ out[j - l] \in S
          BY <1>1, <1>2, <4>1, <4>2, BeforeOrder
        <4> QED BY <1>5, <2>2, <3>3, <4>3
      <3>4. CASE i \in l + 1 .. l + Len(out) /\ j \in 1 .. l
        BY <1>1, <2>4, <3>4
      <3> QED BY <1>5, <3>1, <3>2, <3>3, <3>4
    <2> QED BY <2>3, <2>4 DEF Orderly
  <1>9. Balanced(T, fg, o)
    <2>1. o \in [Stamps \X Nodes -> Int]
      BY DEF Ledger, Balanced
    <2>2. ASSUME NEW s \in Stamps, NEW m \in Nodes
          PROVE  Cardinality(FiringsOf(fg, s, m)) + Cardinality(TimersOf(T, s, m)) = o[<<s, m>>]
      <3>1. /\ Cardinality(FiringsOf(f, s, m)) + Cardinality(TimersOf(S, s, m)) = o[<<s, m>>]
            /\ Cardinality(FiringsOf(f, s, m)) \in Nat
            /\ IsFiniteSet(TimersOf(T, s, m)) /\ Cardinality(TimersOf(T, s, m)) \in Nat
            /\ IsFiniteSet(TimersOf(D, s, m)) /\ Cardinality(TimersOf(D, s, m)) \in Nat
        BY <1>1, <1>6, FiringsOfFinite, TimersOfFinite DEF Ledger, Balanced
      <3>2. Cardinality(FiringsOf(fg, s, m))
              = Cardinality(FiringsOf(f, s, m)) + Cardinality(TimersOf(D, s, m))
        <4>1. \A i \in DOMAIN out : g[i].entry = out[i]
          BY <1>3
        <4>2. Heap(D) /\ f \in Seq(Firings) /\ g \in Seq(Firings)
              /\ Len(g) = Len(out)
          BY <1>1, <1>3, <1>6
        <4>3. Cardinality(FiringsOf(f \o g, s, m))
                = Cardinality(FiringsOf(f, s, m)) + Cardinality(TimersOf(D, s, m))
          BY <4>1, <4>2, FiringsMatch, SMTT(30)
        <4> QED BY <4>3 DEF fg
      <3>3. /\ TimersOf(S, s, m) = TimersOf(T, s, m) \cup TimersOf(D, s, m)
            /\ TimersOf(T, s, m) \cap TimersOf(D, s, m) = {}
        BY DEF TimersOf
      <3>4. Cardinality(TimersOf(S, s, m)) = Cardinality(TimersOf(T, s, m)) + Cardinality(TimersOf(D, s, m))
        <4> DEFINE A == TimersOf(T, s, m)
                   B == TimersOf(D, s, m)
        <4>1. IsFiniteSet(A) /\ IsFiniteSet(B) /\ Cardinality(A) \in Nat /\ Cardinality(B) \in Nat
              /\ A \cap B = {}
          BY <3>1, <3>3
        <4> HIDE DEF A, B
        <4>2. Cardinality(A \cup B) = Cardinality(A) + Cardinality(B) - Cardinality(A \cap B)
          BY <4>1, FS_Union
        <4>3. Cardinality(A \cap B) = 0
          BY <4>1, FS_EmptySet
        <4>4. Cardinality(A \cup B) = Cardinality(A) + Cardinality(B)
          BY <4>1, <4>2, <4>3
        <4> QED BY <3>3, <4>4 DEF A, B
      <3> QED BY <3>1, <3>2, <3>4
    <2> QED BY <2>1, <2>2 DEF Balanced
  <1> QED BY <1>7, <1>8, <1>9 DEF Ledger, T, fg, g
-----------------------------------------------------------------------------
(* One lemma per action on the timers. *)

LEMMA TimersCardinality ==
  ASSUME NEW S
  PROVE  Timers!Cardinality(S) = Cardinality(S)
  BY Zenon DEF Timers!Cardinality, Cardinality

\* The order of the heap is the one HeapOrder_proofs is about.
LEMMA TimersOrder ==
  ASSUME NEW S
  PROVE  /\ Timers!PopOrder(S) = PopOrder(S)
         /\ Timers!Earliest(S) = Earliest(S)
         /\ \A e, f : Timers!Before(e, f) <=> Before(e, f)
  <1>1. \A e, f : Timers!Before(e, f) <=> Before(e, f)
    BY DEF Timers!Before, Before
  <1>2. Timers!Earliest(S) = Earliest(S)
    BY DEF Timers!Before, Before, Timers!Earliest, Earliest
  <1>3. Timers!PopOrder(S) = PopOrder(S)
    <2>1. ASSUME NEW e
          PROVE  Timers!Rank(S, e) = Rank(S, e)
      BY TimersCardinality DEF Timers!Before, Before, Timers!Rank, Rank
    <2>2. ASSUME NEW i
          PROVE  (CHOOSE e \in S : Timers!Rank(S, e) = i) = (CHOOSE e \in S : Rank(S, e) = i)
      BY <2>1
    <2>3. Timers!PopOrder(S) = [i \in 1 .. Cardinality(S) |-> CHOOSE e \in S : Timers!Rank(S, e) = i]
      BY TimersCardinality, Zenon DEF Timers!PopOrder
    <2> DEFINE P(i) == CHOOSE e \in S : Timers!Rank(S, e) = i
               Q(i) == CHOOSE e \in S : Rank(S, e) = i
    <2>4. \A i : P(i) = Q(i)
      BY <2>2, Zenon
    <2>5. PopOrder(S) = [i \in 1 .. Cardinality(S) |-> Q(i)] /\ Timers!PopOrder(S) = [i \in 1 .. Cardinality(S) |-> P(i)]
      BY <2>3, Zenon DEF PopOrder
    <2> HIDE DEF P, Q
    <2> QED BY <2>4, <2>5
  <1> QED BY <1>1, <1>2, <1>3

\* An action keeps the invariant when it leaves the snapshot alone and the
\* books in order.
LEMMA TimersStay ==
  ASSUME TimersInv, heap' \subseteq TimerEntries, snapshot' = snapshot,
         Ledger(Timers!Live', next_seq', fired', owed'),
         quiet' # None => \A e \in Timers!Live' : e.ts > quiet'
  PROVE  TimersInv'
  BY DEF TimersInv

LEMMA InitTimers ==
  ASSUME Timers!Init
  PROVE  TimersInv
  <1>1. Timers!Live = {} /\ fired = <<>> /\ next_seq = 0
    BY DEF Timers!Init, Timers!Live
  <1>2. Typed({}, 0, <<>>)
    <2>1. IsFiniteSet({})
      BY FS_EmptySet
    <2> QED BY <2>1 DEF Typed, Heap
  <1>3. Orderly({}, <<>>)
    BY DEF Orderly
  <1>4. Balanced({}, <<>>, owed)
    <2>1. \A ts \in Stamps, node \in Nodes : FiringsOf(<<>>, ts, node) = {} /\ TimersOf({}, ts, node) = {}
      BY DEF FiringsOf, TimersOf
    <2>2. Cardinality({}) = 0
      BY FS_EmptySet
    <2>3. owed = [x \in Stamps \X Nodes |-> 0]
      BY DEF Timers!Init
    <2>4. owed \in [Stamps \X Nodes -> Int]
      BY <2>3
    <2>5. \A ts \in Stamps, node \in Nodes : owed[<<ts, node>>] = 0
      BY <2>3
    <2>6. ASSUME NEW ts \in Stamps, NEW node \in Nodes
          PROVE  Cardinality(FiringsOf(<<>>, ts, node)) + Cardinality(TimersOf({}, ts, node)) = owed[<<ts, node>>]
      <3>1. FiringsOf(<<>>, ts, node) = {} /\ TimersOf({}, ts, node) = {}
        BY <2>1
      <3>2. owed[<<ts, node>>] = 0
        BY <2>5
      <3>3. Cardinality(FiringsOf(<<>>, ts, node)) = 0 /\ Cardinality(TimersOf({}, ts, node)) = 0
        BY <2>2, <3>1, Zenon
      <3> QED BY <3>2, <3>3
    <2> QED BY <2>4, <2>6, Zenon DEF Balanced
  <1>5. Ledger(Timers!Live, next_seq, fired, owed)
    BY <1>1, <1>2, <1>3, <1>4 DEF Ledger
  <1> QED BY <1>1, <1>5 DEF Timers!Init, TimersInv

LEMMA RegisterKeeps ==
  ASSUME Stamps \subseteq Int, TimersInv,
         NEW ts \in Stamps, NEW node \in Nodes, Timers!Register(ts, node)
  PROVE  TimersInv'
  <1> DEFINE x == [ts |-> ts, node_id |-> node, seq |-> next_seq, deleted |-> FALSE]
             S == Timers!Live
             o == [owed EXCEPT ![<<ts, node>>] = @ + 1]
  <1>1. Timers!Live' = S \cup {x} /\ next_seq' = next_seq + 1 /\ fired' = fired /\ owed' = o
    BY DEF Timers!Live, Timers!Register
  <1>2. Ledger(S, next_seq, fired, owed)
    BY DEF TimersInv
  <1>3. heap' \subseteq TimerEntries
    <2>1. x \in TimerEntries
      BY <1>2 DEF TimerEntries, Ledger, Typed
    <2> QED BY <2>1 DEF TimersInv, Timers!Register
  <1>4. snapshot' = snapshot /\ quiet' = None
    BY DEF Timers!Register
  <1> HIDE DEF S
  <1>5. Ledger(S \cup {x}, next_seq + 1, fired, o)
    BY <1>2, RegisterInLedger
  <1> HIDE DEF x, o
  <1>6. Ledger(Timers!Live', next_seq', fired', owed')
    BY <1>1, <1>5
  <1> QED BY <1>3, <1>4, <1>6, TimersStay

LEMMA DeleteKeeps ==
  ASSUME TimersInv, NEW ts \in Stamps, NEW node \in Nodes, Timers!Delete(ts, node)
  PROVE  TimersInv'
  <1> DEFINE S == Timers!Live
             o == [owed EXCEPT ![<<ts, node>>] = @ - 1]
  <1>1. Ledger(S, next_seq, fired, owed) /\ heap \subseteq TimerEntries
    BY DEF TimersInv
  <1>2. next_seq' = next_seq /\ fired' = fired /\ snapshot' = snapshot /\ quiet' = None
    BY DEF Timers!Delete
  <1>3. CASE Timers!Matching(ts, node) = {}
    <2>1. Timers!Live' = Timers!Live /\ owed' = owed /\ heap' = heap
      BY <1>3 DEF Timers!Delete, Timers!Live
    <2> QED BY <1>1, <1>2, <2>1, TimersStay
  <1>4. CASE Timers!Matching(ts, node) # {}
    <2>1. PICK e \in Timers!Matching(ts, node) :
            heap' = (heap \ {e}) \cup {[e EXCEPT !.deleted = TRUE]}
      BY <1>4 DEF Timers!Delete, Timers!Tombstone
    <2>2. e \in TimersOf(S, ts, node) /\ e \in heap /\ e \in TimerEntries
      BY <1>1 DEF Timers!Matching, Timers!Live, TimersOf
    <2>3. [e EXCEPT !.deleted = TRUE] \in TimerEntries /\ [e EXCEPT !.deleted = TRUE].deleted
      BY <2>2 DEF TimerEntries
    <2>4. heap' \subseteq TimerEntries
      BY <1>1, <2>1, <2>3
    <2>5. Timers!Live' = S \ {e} /\ owed' = o
      BY <1>4, <2>1, <2>3 DEF Timers!Live, Timers!Delete
    <2> HIDE DEF S
    <2>6. Ledger(S \ {e}, next_seq, fired, o)
      BY <1>1, <2>2, DeleteInLedger
    <2> HIDE DEF o
    <2>7. Ledger(Timers!Live', next_seq', fired', owed')
      BY <1>2, <2>5, <2>6
    <2> QED BY <1>2, <2>4, <2>7, TimersStay
  <1> QED BY <1>3, <1>4
\* The timer that pop_due finds first comes before all that stay.
LEMMA FirstOfTheDue ==
  ASSUME NEW S, Heap(S), S # {}
  PROVE  Earliest(S) \in S /\ \A e \in S \ {Earliest(S)} : Before(Earliest(S), e)
  <1>1. IsFiniteSet(S) /\ Cardinality(S) \in Nat /\ Cardinality(S) # 0
    BY FS_CardinalityType, FS_EmptySet DEF Heap
  <1>2. PICK d \in S : Rank(S, d) = 1
    BY <1>1, RankOnto
  <1>3. \A e \in S \ {d} : Before(d, e)
    <2>1. \A e \in S : Rank(S, e) \in 1 .. Cardinality(S)
      BY RankStrict
    <2>2. \A e \in S : ~Before(e, d)
      BY <1>1, <1>2, <2>1, RankStrict
    <2> QED BY <1>2, <2>2, BeforeOrder
  <1> QED BY <1>2, <1>3 DEF Earliest

LEMMA PopDueKeeps ==
  ASSUME Stamps \subseteq Int, TimersInv, NEW w \in Stamps, Timers!PopDue(w)
  PROVE  TimersInv'
  <1> DEFINE S == Timers!Live
             due == {e \in S : e.ts <= w}
             first == Earliest(due)
             out == <<first>>
             g == [i \in DOMAIN out |-> [entry |-> out[i], at |-> next_seq]]
  <1>1. Ledger(S, next_seq, fired, owed) /\ heap \subseteq TimerEntries
    BY DEF TimersInv
  <1>2. /\ Heap(S) /\ fired \in Seq(Firings) /\ w \in Int
        /\ \A e \in heap : e \in S <=> ~e.deleted
        /\ S \subseteq heap
    BY <1>1 DEF Ledger, Typed, Timers!Live
  <1>3. next_seq' = next_seq /\ owed' = owed /\ snapshot' = snapshot /\ heap' \subseteq heap
    BY DEF Timers!PopDue
  <1>4. CASE due = {}
    <2>1. \A e \in S : e.ts > w
      BY <1>2, <1>4 DEF Heap
    <2>2. heap' = {e \in heap : e.ts > w} /\ quiet' = w /\ fired' = fired
      BY <1>4 DEF Timers!PopDue
    <2>3. Timers!Live' = S
      BY <1>2, <2>1, <2>2 DEF Timers!Live
    <2> HIDE DEF S
    <2>4. Ledger(Timers!Live', next_seq', fired', owed')
      BY <1>1, <1>3, <2>2, <2>3
    <2> QED BY <1>1, <1>3, <2>1, <2>2, <2>3, <2>4, TimersStay
  <1>5. CASE due # {}
    <2>1. due \subseteq S /\ Heap(due)
      <3>1. due \in SUBSET S /\ IsFiniteSet(due)
        BY <1>2, FS_Subset DEF Heap
      <3> QED BY <1>2, <3>1 DEF Heap
    <2>2. first \in due /\ \A e \in due \ {first} : Before(first, e)
      BY <1>5, <2>1, FirstOfTheDue
    <2>3. /\ heap' = {e \in heap : Before(first, e)} /\ quiet' = None
          /\ fired' = Append(fired, [entry |-> first, at |-> next_seq])
      BY <1>5, TimersOrder DEF Timers!PopDue
    <2>4. first \in S /\ \A e \in S \ {first} : Before(first, e)
      <3>1. ASSUME NEW e \in S, e \notin due
            PROVE  Before(first, e)
        BY <1>2, <2>1, <2>2, <3>1 DEF Heap, Before
      <3> QED BY <2>1, <2>2, <3>1
    <2> HIDE DEF first
    <2>5. ~Before(first, first)
      BY <1>2, <2>4, BeforeOrder
    <2>6. Timers!Live' = S \ {first}
      BY <1>2, <2>3, <2>4, <2>5 DEF Timers!Live
    <2>7. InOrder(out, {first})
      BY DEF InOrder
    <2>8. Append(fired, [entry |-> first, at |-> next_seq]) = fired \o g
      <3>1. g = <<[entry |-> first, at |-> next_seq]>>
        OBVIOUS
      <3>2. fired \o <<[entry |-> first, at |-> next_seq]>> = Append(fired, [entry |-> first, at |-> next_seq])
        BY <1>2
      <3> QED BY <3>1, <3>2
    <2> HIDE DEF S, due
    <2>9. Ledger(S \ {first}, next_seq, fired \o g, owed)
      <3>1. {first} \in SUBSET S /\ \A e \in {first}, d \in S \ {first} : Before(e, d)
        BY <2>4
      <3> HIDE DEF out
      <3> QED BY <1>1, <2>7, <3>1, FireInLedger
    <2> HIDE DEF g
    <2>10. Ledger(Timers!Live', next_seq', fired', owed')
      BY <1>3, <2>3, <2>6, <2>8, <2>9
    <2> QED BY <1>1, <1>3, <2>3, <2>10, TimersStay
  <1> QED BY <1>4, <1>5

LEMMA DrainAllKeeps ==
  ASSUME TimersInv, Timers!DrainAll
  PROVE  TimersInv'
  <1> DEFINE S == Timers!Live
             out == PopOrder(S)
             g == [i \in DOMAIN out |-> [entry |-> out[i], at |-> next_seq]]
  <1>1. Ledger(S, next_seq, fired, owed)
    BY DEF TimersInv
  <1>2. Heap(S)
    BY <1>1 DEF Ledger, Typed
  <1>3. /\ heap' = {} /\ Timers!Live' = {} /\ quiet' = None
        /\ next_seq' = next_seq /\ owed' = owed /\ snapshot' = snapshot
    BY DEF Timers!DrainAll, Timers!Live
  <1>4. fired' = fired \o g
    <2> HIDE DEF S
    <2>1. Timers!PopOrder(S) = out
      BY TimersOrder
    <2>2. fired' = LET o == Timers!PopOrder(S)
                   IN  fired \o [i \in DOMAIN o |-> [entry |-> o[i], at |-> next_seq]]
      BY Zenon DEF Timers!DrainAll, S
    <2> QED BY <2>1, <2>2, Zenon
  <1> HIDE DEF S
  <1>5. InOrder(out, S)
    BY <1>2, PopOrderCorrect DEF InOrder
  <1>6. Ledger(S \ S, next_seq, fired \o g, owed)
    <2> HIDE DEF out
    <2>1. S \in SUBSET S /\ \A e \in S, d \in S \ S : Before(e, d)
      OBVIOUS
    <2> QED BY <1>1, <1>5, <2>1, FireInLedger
  <1> HIDE DEF g
  <1>7. S \ S = {}
    OBVIOUS
  <1>8. Ledger(Timers!Live', next_seq', fired', owed')
    BY <1>3, <1>4, <1>6, <1>7
  <1> QED BY <1>3, <1>8, TimersStay

LEMMA SnapshotKeeps ==
  ASSUME TimersInv, Timers!Snapshot \/ Timers!Restore
  PROVE  TimersInv'
  <1>1. CASE Timers!Snapshot
    <2>1. /\ Timers!Live' = Timers!Live /\ quiet' = None
          /\ UNCHANGED <<heap, next_seq, fired, owed>>
          /\ snapshot'.entries = Timers!Live /\ snapshot'.next_seq = next_seq
          /\ snapshot'.fired = fired /\ snapshot'.owed = owed
      BY <1>1 DEF Timers!Snapshot, Timers!Live
    <2> QED BY <2>1 DEF TimersInv
  <1>2. CASE Timers!Restore
    <2>1. /\ snapshot # None /\ snapshot' = snapshot /\ quiet' = None
          /\ heap' = snapshot.entries /\ next_seq' = snapshot.next_seq
          /\ fired' = snapshot.fired /\ owed' = snapshot.owed
      BY <1>2 DEF Timers!Restore
    <2>2. Ledger(snapshot.entries, snapshot.next_seq, snapshot.fired, snapshot.owed)
      BY <2>1 DEF TimersInv
    <2>3. heap' \subseteq TimerEntries /\ Timers!Live' = snapshot.entries
      BY <2>1, <2>2 DEF Ledger, Typed, Timers!Live
    <2>4. Ledger(Timers!Live', next_seq', fired', owed')
      BY <2>1, <2>2, <2>3
    <2> QED BY <2>1, <2>3, <2>4, TimersStay
  <1> QED BY <1>1, <1>2

LEMMA NextTimers ==
  ASSUME Stamps \subseteq Int, TimersInv, [Timers!Next]_(Timers!vars)
  PROVE  TimersInv'
  <1>1. CASE \E ts \in Stamps, node \in Nodes : Timers!Register(ts, node) \/ Timers!Delete(ts, node)
    BY <1>1, RegisterKeeps, DeleteKeeps
  <1>2. CASE \E ts \in Stamps : Timers!PopDue(ts)
    BY <1>2, PopDueKeeps
  <1>3. CASE Timers!DrainAll
    BY <1>3, DrainAllKeeps
  <1>4. CASE Timers!Snapshot \/ Timers!Restore
    BY <1>4, SnapshotKeeps
  <1>5. CASE UNCHANGED Timers!vars
    BY <1>5 DEF Timers!vars, TimersInv, Timers!Live
  <1> QED BY <1>1, <1>2, <1>3, <1>4, <1>5 DEF Timers!Next

LEMMA TimersInvGives ==
  ASSUME TimersInv
  PROVE  EveryTimerFiresOnce
  <1>1. Ledger(Timers!Live, next_seq, fired, owed)
    BY DEF TimersInv
  <1>2. ASSUME NEW ts \in Stamps, NEW node \in Nodes
        PROVE  Cardinality({i \in DOMAIN fired : fired[i].entry.ts = ts /\ fired[i].entry.node_id = node})
                 + Cardinality(Timers!Matching(ts, node)) = owed[<<ts, node>>]
    BY <1>1 DEF Ledger, Balanced, FiringsOf, TimersOf, Timers!Matching
  <1>3. ASSUME NEW i \in DOMAIN fired, NEW j \in DOMAIN fired, i < j
        PROVE  /\ fired[j].entry.seq # fired[i].entry.seq
               /\ Timers!Before(fired[j].entry, fired[i].entry) => fired[j].entry.seq >= fired[i].at
    BY <1>1, <1>3, TimersOrder DEF Ledger, Orderly, MayFollow
  <1>4. quiet # None => \A e \in Timers!Live : e.ts > quiet
    BY DEF TimersInv
  <1> QED BY <1>2, <1>3, <1>4, TimersCardinality, Zenon DEF EveryTimerFiresOnce, Timers!EveryTimerFiresOnce

LEMMA TimersRuns == ServicesSpec => Timers!Spec
  <1>1. ServicesInit => Timers!Init
    BY DEF ServicesInit
  <1>2. [ServicesNext]_serviceVars => [Timers!Next]_(Timers!vars)
    BY DEF ServicesNext, DedupStep, ShardStep, MqttStep, TimersStep, SinkStep, serviceVars,
            Timers!vars, timersVars
  <1> QED BY <1>1, <1>2, PTL DEF ServicesSpec, Timers!Spec

(* The timer service neither loses a timer nor fires one twice, whatever is  *)
(* registered, deleted, snapshot and restored in between; a pop_due that     *)
(* gives nothing has left nothing that is due, and the order of the firings  *)
(* is that of the times as far as the registrations allow.                   *)
THEOREM TimersFireOnce ==
  ASSUME Stamps \subseteq Int
  PROVE  ServicesSpec => []EveryTimerFiresOnce
  <1>1. Timers!Init => TimersInv
    BY InitTimers
  <1>2. TimersInv /\ [Timers!Next]_(Timers!vars) => TimersInv'
    BY NextTimers
  <1>3. TimersInv => EveryTimerFiresOnce
    BY TimersInvGives
  <1> QED BY <1>1, <1>2, <1>3, TimersRuns, PTL DEF Timers!Spec
-----------------------------------------------------------------------------
(* The Batcher counts bytes with a sum over a set of lines.  A sum over the   *)
(* subsets of 1 .. n exists, and the library's is that one: it grows by the   *)
(* weight of what is added, in whatever order.                                *)

IsSum(h, w, n) ==
  /\ h \in [SUBSET (1 .. n) -> Nat]
  /\ h[{}] = 0
  /\ \A s \in SUBSET (1 .. n) : \A x \in s : h[s] = h[s \ {x}] + w[x].size

Total(w, S) == MapThenSumSet(LAMBDA i : w[i].size, S)

\* The n lines w have weights, and the first m of w weigh what those of v do.
Weighs(w, n) == \A i \in 1 .. n : w[i].size \in Nat
WeighsLike(v, w, m) == \A i \in 1 .. m : w[i].size = v[i].size

LEMMA SumExists ==
  ASSUME NEW n \in Nat, NEW w, \A i \in 1 .. n : w[i].size \in Nat
  PROVE  \E h : IsSum(h, w, n)
  <1> DEFINE P == {k \in 0 .. n : \E h : IsSum(h, w, k)}
  <1>1. 0 \in P
    <2> DEFINE h == [s \in SUBSET (1 .. 0) |-> 0]
    <2>1. SUBSET (1 .. 0) = {{}}
      OBVIOUS
    <2>2. IsSum(h, w, 0)
      BY <2>1 DEF IsSum
    <2> QED BY <2>2
  <1>2. ASSUME NEW k \in 0 .. n - 1, k \in P
        PROVE  k + 1 \in P
    <2>1. PICK h : IsSum(h, w, k)
      BY <1>2
    <2> DEFINE g == [s \in SUBSET (1 .. k + 1) |->
                      IF k + 1 \in s THEN h[s \ {k + 1}] + w[k + 1].size ELSE h[s]]
    <2>2. \A s \in SUBSET (1 .. k + 1) :
            /\ s \ {k + 1} \in SUBSET (1 .. k)
            /\ k + 1 \notin s => s \in SUBSET (1 .. k)
      BY <1>2
    <2>3. w[k + 1].size \in Nat /\ \A x \in 1 .. k + 1 : w[x].size \in Nat
      BY <1>2
    <2>4. /\ h[{}] = 0 /\ \A s \in SUBSET (1 .. k) : h[s] \in Nat
          /\ \A s \in SUBSET (1 .. k) : \A x \in s : h[s] = h[s \ {x}] + w[x].size
      BY <2>1 DEF IsSum
    <2>5. \A s \in SUBSET (1 .. k + 1) : g[s] \in Nat
      BY <2>2, <2>3, <2>4
    <2>6. g[{}] = 0
      BY <2>4
    <2>7. ASSUME NEW s \in SUBSET (1 .. k + 1), NEW x \in s
          PROVE  g[s] = g[s \ {x}] + w[x].size
      <3>1. s \ {x} \in SUBSET (1 .. k + 1) /\ x \in 1 .. k + 1
        OBVIOUS
      <3>2. CASE x = k + 1
        <4>1. g[s] = h[s \ {k + 1}] + w[k + 1].size /\ g[s \ {x}] = h[s \ {x}]
          BY <3>1, <3>2
        <4> QED BY <3>2, <4>1
      <3>3. CASE x # k + 1 /\ k + 1 \in s
        <4>1. g[s] = h[s \ {k + 1}] + w[k + 1].size /\ g[s \ {x}] = h[(s \ {x}) \ {k + 1}] + w[k + 1].size
          BY <3>1, <3>3
        <4>2. x \in s \ {k + 1} /\ s \ {k + 1} \in SUBSET (1 .. k)
              /\ (s \ {k + 1}) \ {x} = (s \ {x}) \ {k + 1} /\ (s \ {x}) \ {k + 1} \in SUBSET (1 .. k)
          BY <2>2, <3>1, <3>3
        <4> DEFINE t == s \ {k + 1}
        <4>3. h[t] = h[t \ {x}] + w[x].size
          <5> HIDE DEF t, g
          <5> QED BY <2>4, <4>2, Zenon DEF t
        <4>4. h[t \ {x}] \in Nat /\ t \ {x} = (s \ {x}) \ {k + 1}
          <5> HIDE DEF g
          <5> QED BY <2>4, <4>2
        <4>5. w[x].size \in Nat
          BY <2>3, <3>1
        <4> HIDE DEF g
        <4>6. g[s] = h[t] + w[k + 1].size /\ g[s \ {x}] = h[t \ {x}] + w[k + 1].size
          BY <4>1, <4>4, Zenon
        <4> HIDE DEF t
        <4> QED BY <2>3, <4>3, <4>4, <4>5, <4>6
      <3>4. CASE k + 1 \notin s
        <4>1. g[s] = h[s] /\ g[s \ {x}] = h[s \ {x}] /\ s \in SUBSET (1 .. k)
          BY <2>2, <3>1, <3>4
        <4>2. h[s] = h[s \ {x}] + w[x].size
          BY <2>4, <4>1, Zenon
        <4> HIDE DEF g
        <4> QED BY <4>1, <4>2
      <3> QED BY <3>2, <3>3, <3>4
    <2>8. g \in [SUBSET (1 .. k + 1) -> Nat]
      BY <2>5
    <2> HIDE DEF g
    <2>9. IsSum(g, w, k + 1)
      BY <2>6, <2>7, <2>8 DEF IsSum
    <2> QED BY <1>2, <2>9
  <1> HIDE DEF P
  <1>3. n \in 0 .. n /\ \A i \in 0 .. n - 1 : i \in P => i + 1 \in P
    BY <1>2
  <1>4. n \in P
    BY <1>1, <1>3, CountUp
  <1> QED BY <1>4 DEF P

LEMMA TotalIsSum ==
  ASSUME NEW n \in Nat, NEW w, \A i \in 1 .. n : w[i].size \in Nat, NEW h, IsSum(h, w, n),
         NEW S \in SUBSET (1 .. n)
  PROVE  Total(w, S) = h[S]
  <1> DEFINE c(s) == CHOOSE x \in s : TRUE
             F == CHOOSE k : k = [s \in SUBSET S |->
                    IF s = {} THEN 0 ELSE w[c(s)].size + k[s \ {c(s)}]]
             hS == [s \in SUBSET S |-> h[s]]
             P == {k \in 0 .. n : \A s \in SUBSET S : Cardinality(s) = k => F[s] = h[s]}
  <1>1. Total(w, S) = F[S]
    BY Zenon DEF Total, MapThenSumSet, MapThenFoldSet
  <1>2. \A s : s # {} => c(s) \in s
    OBVIOUS
  <1> HIDE DEF c
  <1>3. /\ h[{}] = 0 /\ \A s \in SUBSET S : h[s] \in Nat
        /\ \A s \in SUBSET S : \A x \in s : h[s] = w[x].size + h[s \ {x}] /\ s \ {x} \in SUBSET S
    <2>1. ASSUME NEW s \in SUBSET S, NEW x \in s
          PROVE  h[s] = w[x].size + h[s \ {x}] /\ s \ {x} \in SUBSET S
      <3>1. h[s] = h[s \ {x}] + w[x].size /\ h[s \ {x}] \in Nat /\ w[x].size \in Nat
        BY DEF IsSum
      <3> QED BY <3>1
    <2> QED BY <2>1 DEF IsSum
  <1>4. hS = [s \in SUBSET S |-> IF s = {} THEN 0 ELSE w[c(s)].size + hS[s \ {c(s)}]]
    BY <1>2, <1>3
  <1> HIDE DEF hS
  <1>5. F = [s \in SUBSET S |-> IF s = {} THEN 0 ELSE w[c(s)].size + F[s \ {c(s)}]]
    BY <1>4
  <1> HIDE DEF F
  <1>6. IsFiniteSet(1 .. n)
    BY FS_Interval
  <1>7. \A s \in SUBSET S : IsFiniteSet(s) /\ Cardinality(s) \in 0 .. n
    <2>1. Cardinality(1 .. n) = n
      BY FS_Interval
    <2>2. ASSUME NEW s \in SUBSET S
          PROVE  IsFiniteSet(s) /\ Cardinality(s) \in 0 .. n
      <3>1. s \in SUBSET (1 .. n)
        OBVIOUS
      <3>2. IsFiniteSet(s) /\ Cardinality(s) <= Cardinality(1 .. n)
        <4> DEFINE T == 1 .. n
        <4> HIDE DEF T
        <4>1. IsFiniteSet(T) /\ s \in SUBSET T
          BY <1>6, <3>1 DEF T
        <4>2. IsFiniteSet(s) /\ Cardinality(s) <= Cardinality(T)
          BY <4>1, FS_Subset, Zenon
        <4> QED BY <4>2 DEF T
      <3> QED BY <2>1, <3>2, FS_CardinalityType
    <2> QED BY <2>2
  <1>8. 0 \in P
    <2>1. ASSUME NEW s \in SUBSET S, Cardinality(s) = 0
          PROVE  F[s] = h[s]
      <3>1. s = {}
        BY <1>7, <2>1, FS_EmptySet
      <3> QED BY <1>3, <1>5, <3>1
    <2>2. 0 \in 0 .. n
      OBVIOUS
    <2> QED BY <2>1, <2>2, Zenon
  <1>9. ASSUME NEW k \in 0 .. n - 1, k \in P
        PROVE  k + 1 \in P
    <2>1. ASSUME NEW s \in SUBSET S, Cardinality(s) = k + 1
          PROVE  F[s] = h[s]
      <3>1. s # {}
        BY <2>1, FS_EmptySet
      <3>2. c(s) \in s /\ s \ {c(s)} \in SUBSET S
        BY <1>2, <3>1
      <3>3. Cardinality(s \ {c(s)}) = k
        <4>1. Cardinality(s \ {c(s)}) = Cardinality(s) - 1
          BY <1>7, <3>2, FS_RemoveElement
        <4> QED BY <2>1, <4>1
      <3>4. F[s \ {c(s)}] = h[s \ {c(s)}]
        BY <1>9, <3>2, <3>3
      <3>5. F[s] = w[c(s)].size + F[s \ {c(s)}]
        BY <1>5, <3>1
      <3> QED BY <1>3, <3>2, <3>4, <3>5
    <2> QED BY <2>1
  <1> HIDE DEF P
  <1>10. 0 .. n \subseteq P
    <2>1. \A i \in 0 .. n - 1 : i \in P => i + 1 \in P
      BY <1>9
    <2> QED BY <1>8, <2>1, CountUp
  <1>11. F[S] = h[S]
    <2>1. S \in SUBSET S
      OBVIOUS
    <2> QED BY <1>7, <1>10, <2>1 DEF P
  <1> QED BY <1>1, <1>11

\* What is used of the sum.
LEMMA TotalOf ==
  ASSUME NEW n \in Nat, NEW w, Weighs(w, n)
  PROVE  /\ Total(w, {}) = 0
         /\ \A S \in SUBSET (1 .. n) : Total(w, S) \in Nat
         /\ \A S \in SUBSET (1 .. n) : \A x \in S : Total(w, S) = Total(w, S \ {x}) + w[x].size
  <1>1. PICK h : IsSum(h, w, n)
    BY SumExists DEF Weighs
  <1>2. \A S \in SUBSET (1 .. n) : Total(w, S) = h[S]
    BY <1>1, TotalIsSum DEF Weighs
  <1>3. Total(w, {}) = 0
    BY <1>1, <1>2 DEF IsSum
  <1>4. ASSUME NEW S \in SUBSET (1 .. n)
        PROVE  Total(w, S) \in Nat
    BY <1>1, <1>2 DEF IsSum
  <1>5. ASSUME NEW S \in SUBSET (1 .. n), NEW x \in S
        PROVE  Total(w, S) = Total(w, S \ {x}) + w[x].size
    <2>1. S \ {x} \in SUBSET (1 .. n)
      OBVIOUS
    <2>2. h[S] = h[S \ {x}] + w[x].size
      BY <1>1, Zenon DEF IsSum
    <2>3. Total(w, S) = h[S] /\ Total(w, S \ {x}) = h[S \ {x}]
      BY <1>2, <2>1
    <2> QED BY <2>2, <2>3
  <1> QED BY <1>3, <1>4, <1>5

\* A longer list weighs the same on the lines it shares.
LEMMA TotalSame ==
  ASSUME NEW m \in Nat, NEW n \in Nat, m <= n, NEW v, NEW w, Weighs(w, n),
         WeighsLike(v, w, m), NEW S \in SUBSET (1 .. m)
  PROVE  Total(w, S) = Total(v, S)
  <1>1. PICK h : IsSum(h, w, n)
    BY SumExists DEF Weighs
  <1> DEFINE g == [s \in SUBSET (1 .. m) |-> h[s]]
  <1>2. \A s \in SUBSET (1 .. m) : s \in SUBSET (1 .. n) /\ \A x \in s : s \ {x} \in SUBSET (1 .. m)
    OBVIOUS
  <1>3. IsSum(g, v, m)
    BY <1>1, <1>2 DEF IsSum, WeighsLike
  <1>4. /\ g[S] = h[S] /\ S \in SUBSET (1 .. n)
        /\ \A i \in 1 .. m : v[i].size \in Nat
    BY <1>2 DEF Weighs, WeighsLike
  <1> HIDE DEF g
  <1>5. Total(v, S) = g[S]
    BY <1>3, <1>4, TotalIsSum
  <1>6. Total(w, S) = h[S]
    BY <1>1, <1>4, TotalIsSum DEF Weighs
  <1> QED BY <1>4, <1>5, <1>6

\* Two sets with no line in common weigh together what they weigh apart.
LEMMA TotalUnion ==
  ASSUME NEW n \in Nat, NEW w, Weighs(w, n),
         NEW A \in SUBSET (1 .. n), NEW B \in SUBSET (1 .. n), A \cap B = {}
  PROVE  Total(w, A \cup B) = Total(w, A) + Total(w, B)
  <1> DEFINE P == {k \in 0 .. n :
                     \A C \in SUBSET B : C \subseteq 1 .. k => Total(w, A \cup C) = Total(w, A) + Total(w, C)}
  <1>1. /\ Total(w, {}) = 0
        /\ \A S \in SUBSET (1 .. n) : Total(w, S) \in Nat
        /\ \A S \in SUBSET (1 .. n) : \A x \in S : Total(w, S) = Total(w, S \ {x}) + w[x].size
    BY TotalOf
  <1>2. 0 \in P
    <2>1. \A C : C \subseteq 1 .. 0 => C = {}
      OBVIOUS
    <2>2. A \cup {} = A /\ Total(w, A) \in Nat
      BY <1>1
    <2>3. ASSUME NEW C \in SUBSET B, C \subseteq 1 .. 0
          PROVE  Total(w, A \cup C) = Total(w, A) + Total(w, C)
      <3>1. C = {}
        BY <2>1, <2>3
      <3> QED BY <1>1, <2>2, <3>1
    <2> QED BY <2>3
  <1>3. ASSUME NEW k \in 0 .. n - 1, k \in P
        PROVE  k + 1 \in P
    <2>1. ASSUME NEW C \in SUBSET B, C \subseteq 1 .. k + 1
          PROVE  Total(w, A \cup C) = Total(w, A) + Total(w, C)
      <3>1. CASE k + 1 \in C
        <4> DEFINE D == C \ {k + 1}
        <4>1. D \in SUBSET B /\ D \subseteq 1 .. k
          <5>1. k \in Nat /\ \A x \in 1 .. k + 1 : x # k + 1 => x \in 1 .. k
            BY <1>3
          <5> QED BY <2>1, <5>1
        <4>2. Total(w, A \cup D) = Total(w, A) + Total(w, D)
          BY <1>3, <4>1
        <4>3. /\ A \cup C \in SUBSET (1 .. n) /\ C \in SUBSET (1 .. n) /\ D \in SUBSET (1 .. n)
              /\ k + 1 \in A \cup C /\ (A \cup C) \ {k + 1} = A \cup D
          BY <3>1
        <4>4. Total(w, A \cup C) = Total(w, A \cup D) + w[k + 1].size /\ Total(w, C) = Total(w, D) + w[k + 1].size
          <5> DEFINE E == A \cup C
          <5>1. E \in SUBSET (1 .. n) /\ k + 1 \in E /\ E \ {k + 1} = A \cup D
            BY <4>3
          <5> HIDE DEF E
          <5>2. Total(w, E) = Total(w, E \ {k + 1}) + w[k + 1].size
            BY <1>1, <5>1, Zenon
          <5>3. Total(w, C) = Total(w, C \ {k + 1}) + w[k + 1].size
            BY <1>1, <3>1, <4>3, Zenon
          <5> QED BY <5>1, <5>2, <5>3 DEF E
        <4>5. Total(w, A) \in Nat /\ Total(w, D) \in Nat /\ w[k + 1].size \in Nat
          BY <1>1, <1>3, <4>3 DEF Weighs
        <4> QED BY <4>2, <4>4, <4>5
      <3>2. CASE k + 1 \notin C
        <4>1. C \subseteq 1 .. k
          BY <1>3, <2>1, <3>2
        <4> QED BY <1>3, <4>1
      <3> QED BY <3>1, <3>2
    <2> QED BY <1>3, <2>1
  <1> HIDE DEF P
  <1>4. n \in P
    <2>1. n \in 0 .. n /\ \A i \in 0 .. n - 1 : i \in P => i + 1 \in P
      BY <1>3
    <2> QED BY <1>2, <2>1, CountUp
  <1> QED BY <1>4 DEF P
-----------------------------------------------------------------------------
(* The Batcher: the inductive invariant, by parts. *)

Tasks == Sink!Tasks

\* The lines in the body s, and those that are being written.
Lines(s) == {s[i] : i \in DOMAIN s}
Flight(w) == UNION {Lines(w[t]) : t \in Tasks}

\* A body is a run of the n lines pushed, but for those refused.
Run(s, n, R) ==
  /\ s \in Seq(1 .. n)
  /\ \A i \in 1 .. Len(s) - 1 : s[i] < s[i + 1] /\ (s[i] + 1) .. (s[i + 1] - 1) \subseteq R

\* Each of n lines has one place: in the buffer B, in one of the bodies w, or
\* in one of the ends W, L and R.
TasksApart(w) == \A t, u \in Tasks : t # u => Lines(w[t]) \cap Lines(w[u]) = {}
Apart(B, F, W, L, R) ==
  /\ B \cap F = {} /\ B \cap W = {} /\ B \cap L = {} /\ B \cap R = {}
  /\ F \cap W = {} /\ F \cap L = {} /\ F \cap R = {}
  /\ W \cap L = {} /\ W \cap R = {} /\ L \cap R = {}
Split(B, w, W, L, R, n) ==
  /\ B \cup Flight(w) \cup W \cup L \cup R = 1 .. n
  /\ Apart(B, Flight(w), W, L, R)
  /\ TasksApart(w)

\* The books of the buffer b with its stamp g, the bodies w, the bytes d counted
\* as dropped, the lines pushed p with their ends, and whether the batcher is gone:
\* their types,
Pushed == [size : Sizes, age : Int]
BooksTyped(g, w, p) ==
  /\ p \in Seq(Pushed) /\ g \in Int
  /\ w \in [Tasks -> Seq(1 .. Len(p))]

\* the runs,
BooksRun(b, w, p, R) ==
  /\ Run(b, Len(p), R)
  /\ \A t \in Tasks : Run(w[t], Len(p), R)

\* the bytes, of the lines dropped and of those in the buffer,
BooksCounted(b, d, p, R, X) ==
  /\ d = Total(p, R \cup IF X THEN Lines(b) ELSE {})
  /\ Total(p, Lines(b)) <= MaxBuffer

\* and the buffer's two ends: nothing but refusals after its newest line, and the
\* stamp is as old as the oldest.
BooksFresh(b, g, p, R) ==
  b # <<>> => /\ (b[Len(b)] + 1) .. Len(p) \subseteq R
              /\ g = p[b[1]].age

Books(b, g, w, d, p, W, L, R, X) ==
  /\ BooksTyped(g, w, p)
  /\ Split(Lines(b), w, W, L, R, Len(p))
  /\ BooksRun(b, w, p, R)
  /\ BooksCounted(b, d, p, R, X)
  /\ BooksFresh(b, g, p, R)

SinkInv ==
  /\ dropped \in BOOLEAN
  /\ Books(buffered, age, writing, dropped_total, pushed, written, failed, refused, dropped)

-----------------------------------------------------------------------------
(* What a step does to the places. *)

\* A task with no write under way begins one.
LEMMA TakeFlies ==
  ASSUME NEW w, NEW X, w \in [Tasks -> X], NEW t \in Tasks, w[t] = <<>>, TasksApart(w),
         NEW body, Lines(body) \cap Flight(w) = {}
  PROVE  LET v == [w EXCEPT ![t] = body]
         IN  Flight(v) = Flight(w) \cup Lines(body) /\ TasksApart(v)
  <1> DEFINE v == [w EXCEPT ![t] = body]
  <1>1. Lines(w[t]) = {}
    BY DEF Lines
  <1>2. v[t] = body /\ \A u \in Tasks : u # t => v[u] = w[u]
    OBVIOUS
  <1>3. \A u \in Tasks : Lines(w[u]) \subseteq Flight(w)
    BY DEF Flight
  <1> HIDE DEF v
  <1>4. Flight(v) = Flight(w) \cup Lines(body)
    BY <1>1, <1>2 DEF Flight
  <1>5. TasksApart(v)
    BY <1>2, <1>3 DEF TasksApart
  <1> QED BY <1>4, <1>5 DEF v

\* A write ends.
LEMMA ReturnLands ==
  ASSUME NEW w, NEW X, w \in [Tasks -> X], NEW t \in Tasks, TasksApart(w)
  PROVE  LET v == [w EXCEPT ![t] = <<>>]
         IN  /\ Flight(v) = Flight(w) \ Lines(w[t]) /\ TasksApart(v)
             /\ Lines(w[t]) \subseteq Flight(w)
  <1> DEFINE v == [w EXCEPT ![t] = <<>>]
  <1>1. Lines(<<>>) = {}
    BY DEF Lines
  <1>2. v[t] = <<>> /\ \A u \in Tasks : u # t => v[u] = w[u]
    OBVIOUS
  <1> HIDE DEF v
  <1>3. Lines(v[t]) = {} /\ \A u \in Tasks : u # t => Lines(v[u]) = Lines(w[u])
    BY <1>1, <1>2
  <1>4. Flight(v) = Flight(w) \ Lines(w[t])
    BY <1>3 DEF Flight, TasksApart
  <1>5. TasksApart(v)
    BY <1>3 DEF TasksApart
  <1>6. Lines(w[t]) \subseteq Flight(w)
    BY DEF Flight
  <1> QED BY <1>4, <1>5, <1>6 DEF v

\* A line is appended to a run.
LEMMA RunAppends ==
  ASSUME NEW n \in Nat, NEW s, NEW R, Run(s, n, R),
         s # <<>> => (s[Len(s)] + 1) .. n \subseteq R
  PROVE  /\ Run(Append(s, n + 1), n + 1, R)
         /\ Lines(Append(s, n + 1)) = Lines(s) \cup {n + 1}
         /\ Append(s, n + 1)[Len(Append(s, n + 1))] = n + 1
         /\ s # <<>> => Append(s, n + 1)[1] = s[1]
         /\ s = <<>> => Append(s, n + 1)[1] = n + 1
  <1> DEFINE a == Append(s, n + 1)
             l == Len(s)
  <1>1. s \in Seq(1 .. n) /\ l \in Nat /\ DOMAIN s = 1 .. l
    BY DEF Run
  <1>2. /\ a \in Seq(1 .. n + 1) /\ Len(a) = l + 1 /\ DOMAIN a = 1 .. l + 1
        /\ a[l + 1] = n + 1 /\ \A i \in 1 .. l : a[i] = s[i]
    <2>1. s \in Seq(1 .. n + 1) /\ n + 1 \in 1 .. n + 1
      BY <1>1
    <2> QED BY <2>1
  <1>3. s # <<>> => l >= 1
    BY <1>1
  <1>4. l = 0 => s = <<>>
    BY <1>1
  <1>5. \A i \in 1 .. l : s[i] \in 1 .. n
    BY <1>1
  <1>6. \A i \in 1 .. l - 1 : s[i] < s[i + 1] /\ (s[i] + 1) .. (s[i + 1] - 1) \subseteq R
    BY DEF Run
  <1>7. s # <<>> => (s[l] + 1) .. n \subseteq R
    OBVIOUS
  <1> HIDE DEF a, l
  <1>8. ASSUME NEW i \in 1 .. Len(a) - 1
        PROVE  a[i] < a[i + 1] /\ (a[i] + 1) .. (a[i + 1] - 1) \subseteq R
    <2>1. i \in 1 .. l
      BY <1>1, <1>2
    <2>2. CASE i = l
      <3>1. a[i] = s[l] /\ a[i + 1] = n + 1 /\ s[l] \in 1 .. n /\ s # <<>>
        BY <1>1, <1>2, <1>5, <2>1, <2>2
      <3>2. (n + 1) - 1 = n /\ s[l] < n + 1
        BY <3>1
      <3> QED BY <1>7, <3>1, <3>2
    <2>3. CASE i # l
      <3>1. i \in 1 .. l - 1 /\ i + 1 \in 1 .. l
        BY <1>1, <2>1, <2>3
      <3> QED BY <1>2, <1>6, <2>1, <3>1
    <2> QED BY <2>2, <2>3
  <1>9. Run(a, n + 1, R)
    BY <1>2, <1>8 DEF Run
  <1>10. Lines(a) = Lines(s) \cup {n + 1}
    <2>1. /\ \A i \in DOMAIN a : i \in DOMAIN s \/ i = l + 1
          /\ \A i \in DOMAIN s : i \in DOMAIN a /\ a[i] = s[i]
          /\ l + 1 \in DOMAIN a
      BY <1>1, <1>2
    <2> QED BY <1>2, <2>1 DEF Lines
  <1> QED BY <1>1, <1>2, <1>3, <1>4, <1>9, <1>10 DEF a

\* A run stays one when more is pushed or refused.
LEMMA RunStays ==
  ASSUME NEW n \in Nat, NEW m \in Nat, n <= m, NEW s, NEW R, NEW Q, R \subseteq Q, Run(s, n, R)
  PROVE  Run(s, m, Q)
  <1>1. s \in Seq(1 .. m)
    <2>1. s \in Seq(1 .. n)
      BY DEF Run
    <2>2. 1 .. n \subseteq 1 .. m
      OBVIOUS
    <2> QED BY <2>1, <2>2
  <1> QED BY <1>1 DEF Run

LEMMA RunLines ==
  ASSUME NEW n, NEW s, NEW R, Run(s, n, R)
  PROVE  Lines(s) \subseteq 1 .. n
  <1> DEFINE T == 1 .. n
  <1>1. s \in Seq(T)
    BY DEF Run
  <1> HIDE DEF T
  <1>2. \A i \in DOMAIN s : s[i] \in T
    BY <1>1
  <1> USE DEF T
  <1> QED BY <1>2 DEF Lines
-----------------------------------------------------------------------------
(* One entry in the books. *)

\* What the books say of the lines and their weights.
LEMMA PushedSays ==
  ASSUME Sizes \subseteq Nat, NEW p \in Seq(Pushed)
  PROVE  Len(p) \in Nat /\ DOMAIN p = 1 .. Len(p) /\ Weighs(p, Len(p))
  <1>1. \A r \in Pushed : r.size \in Nat
    BY DEF Pushed
  <1> QED BY <1>1 DEF Weighs

LEMMA BooksSay ==
  ASSUME Sizes \subseteq Nat,
         NEW b, NEW g, NEW w, NEW d, NEW p, NEW W, NEW L, NEW R, NEW X,
         Books(b, g, w, d, p, W, L, R, X)
  PROVE  /\ Len(p) \in Nat /\ Weighs(p, Len(p))
         /\ Lines(b) \in SUBSET (1 .. Len(p)) /\ R \in SUBSET (1 .. Len(p))
         /\ Lines(b) \cap R = {}
         /\ b \in Seq(1 .. Len(p))
         /\ b # <<>> => b[1] \in 1 .. Len(p)
  <1>1. p \in Seq(Pushed)
    BY DEF Books, BooksTyped
  <1>2. Len(p) \in Nat /\ Weighs(p, Len(p))
    BY <1>1, PushedSays
  <1>3. b \in Seq(1 .. Len(p))
    BY DEF Books, BooksRun, Run
  <1>4. b # <<>> => b[1] \in 1 .. Len(p)
    BY <1>3
  <1>5. Lines(b) \in SUBSET (1 .. Len(p)) /\ R \in SUBSET (1 .. Len(p)) /\ Lines(b) \cap R = {}
    BY DEF Books, Split, Apart
  <1> QED BY <1>2, <1>3, <1>4, <1>5

\* A line is pushed: the ones before it weigh what they did.
AfterPush(p, size) == Append(p, [size |-> size, age |-> 0])
Grown(q, p, n, size) ==
  /\ Len(q) = n + 1 /\ \A i \in 1 .. n : q[i] = p[i]
  /\ q[n + 1].size = size /\ q[n + 1].age = 0
  /\ \A S \in SUBSET (1 .. n) : /\ Total(q, S) = Total(p, S)
                                /\ Total(q, S \cup {n + 1}) = Total(p, S) + size

LEMMA PushGrows ==
  ASSUME Sizes \subseteq Nat, NEW g, NEW w, NEW p, BooksTyped(g, w, p), NEW size \in Sizes
  PROVE  BooksTyped(g, w, AfterPush(p, size)) /\ Grown(AfterPush(p, size), p, Len(p), size)
  <1> DEFINE r == [size |-> size, age |-> 0]
             q == AfterPush(p, size)
             n == Len(p)
  <1>1. /\ p \in Seq(Pushed) /\ g \in Int /\ w \in [Tasks -> Seq(1 .. n)]
        /\ n \in Nat /\ Weighs(p, n)
    BY PushedSays DEF BooksTyped
  <1>2. r \in Pushed /\ r.size = size /\ r.age = 0
    BY DEF Pushed
  <1> HIDE DEF r
  <1>3. /\ q \in Seq(Pushed) /\ Len(q) = n + 1
        /\ \A i \in 1 .. n : q[i] = p[i]
        /\ q[n + 1] = r
    <2>1. q = Append(p, r)
      BY DEF AfterPush, r
    <2> HIDE DEF q
    <2> QED BY <1>1, <1>2, <2>1
  <1> HIDE DEF q, n
  <1>4. BooksTyped(g, w, q)
    <2>1. 1 .. n \subseteq 1 .. n + 1
      BY <1>1
    <2>2. ASSUME NEW s \in Seq(1 .. n)
          PROVE  s \in Seq(1 .. n + 1)
      <3> DEFINE S == 1 .. n
                 T == 1 .. n + 1
      <3>1. S \subseteq T /\ s \in Seq(S)
        BY <2>1
      <3> HIDE DEF S, T
      <3>2. s \in Seq(T)
        BY <3>1
      <3> QED BY <3>2 DEF T
    <2>3. w \in [Tasks -> Seq(1 .. n + 1)]
      BY <1>1, <2>2
    <2> QED BY <1>1, <1>3, <2>3 DEF BooksTyped
  <1>5. Weighs(q, n + 1)
    <2>1. \A i \in 1 .. n + 1 : i \in 1 .. n \/ i = n + 1
      BY <1>1
    <2> QED BY <1>1, <1>2, <1>3, <2>1 DEF Weighs
  <1>6. n + 1 \in Nat /\ n <= n + 1 /\ WeighsLike(p, q, n)
    BY <1>1, <1>3 DEF WeighsLike
  <1>7. ASSUME NEW S \in SUBSET (1 .. n)
        PROVE  Total(q, S) = Total(p, S) /\ Total(q, S \cup {n + 1}) = Total(p, S) + size
    <2>1. Total(q, S) = Total(p, S)
      BY <1>1, <1>5, <1>6, TotalSame
    <2> DEFINE T == S \cup {n + 1}
    <2>2. T \in SUBSET (1 .. n + 1) /\ n + 1 \in T /\ T \ {n + 1} = S
      BY <1>1
    <2> HIDE DEF T
    <2>3. Total(q, T) = Total(q, T \ {n + 1}) + q[n + 1].size
      BY <1>5, <1>6, <2>2, TotalOf
    <2> QED BY <1>2, <1>3, <2>1, <2>2, <2>3 DEF T
  <1>8. Grown(q, p, n, size)
    BY <1>2, <1>3, <1>7 DEF Grown
  <1> QED BY <1>4, <1>8 DEF q, n

LEMMA RefuseInBooks ==
  ASSUME Sizes \subseteq Nat,
         NEW b, NEW g, NEW w, NEW d, NEW p, NEW W, NEW L, NEW R,
         Books(b, g, w, d, p, W, L, R, FALSE), NEW size \in Sizes
  PROVE  Books(b, g, w, d + size, AfterPush(p, size), W, L, R \cup {Len(p) + 1}, FALSE)
  <1> DEFINE q == AfterPush(p, size)
             n == Len(p)
             Q == R \cup {n + 1}
  <1>1. /\ n \in Nat /\ Lines(b) \in SUBSET (1 .. n) /\ R \in SUBSET (1 .. n)
        /\ b # <<>> => b[1] \in 1 .. n
        /\ b \in Seq(1 .. n)
    BY BooksSay
  <1>2. /\ Len(q) = n + 1 /\ \A i \in 1 .. n : q[i] = p[i]
        /\ BooksTyped(g, w, q)
        /\ \A S \in SUBSET (1 .. n) : /\ Total(q, S) = Total(p, S)
                                      /\ Total(q, S \cup {n + 1}) = Total(p, S) + size
    <2> HIDE DEF q, n
    <2>1. BooksTyped(g, w, p)
      BY DEF Books
    <2>2. BooksTyped(g, w, q) /\ Grown(q, p, n, size)
      BY <2>1, PushGrows DEF q, n
    <2> QED BY <2>2 DEF Grown
  <1> HIDE DEF q, n
  <1>3. Split(Lines(b), w, W, L, Q, n + 1)
    <2>1. Split(Lines(b), w, W, L, R, n)
      BY DEF Books, n
    <2>2. 1 .. n + 1 = (1 .. n) \cup {n + 1} /\ n + 1 \notin 1 .. n
      BY <1>1
    <2> QED BY <2>1, <2>2 DEF Split, Apart
  <1>4. BooksRun(b, w, q, Q)
    <2>1. Run(b, n, R) /\ \A t \in Tasks : Run(w[t], n, R)
      BY DEF Books, BooksRun, n
    <2>2. n + 1 \in Nat /\ n <= n + 1 /\ R \subseteq Q
      BY <1>1
    <2> HIDE DEF Q
    <2> QED BY <1>1, <1>2, <2>1, <2>2, RunStays DEF BooksRun
  <1>5. BooksCounted(b, d + size, q, Q, FALSE)
    <2>1. d = Total(p, R) /\ Total(p, Lines(b)) <= MaxBuffer
      BY DEF Books, BooksCounted
    <2>2. Total(q, Q) = Total(p, R) + size /\ Total(q, Lines(b)) = Total(p, Lines(b))
      BY <1>1, <1>2
    <2> QED BY <2>1, <2>2 DEF BooksCounted
  <1>6. BooksFresh(b, g, q, Q)
    <2>1. ASSUME b # <<>>
          PROVE  (b[Len(b)] + 1) .. n + 1 \subseteq Q /\ g = q[b[1]].age
      <3>1. (b[Len(b)] + 1) .. n \subseteq R /\ g = p[b[1]].age
        BY <2>1 DEF Books, BooksFresh, n
      <3>2. b[Len(b)] \in Int
        BY <1>1, <2>1
      <3>3. \A i \in (b[Len(b)] + 1) .. n + 1 : i \in (b[Len(b)] + 1) .. n \/ i = n + 1
        BY <1>1, <3>2
      <3> QED BY <1>1, <1>2, <2>1, <3>1, <3>3
    <2> QED BY <1>2, <2>1 DEF BooksFresh
  <1> QED BY <1>2, <1>3, <1>4, <1>5, <1>6 DEF Books, q, n

LEMMA BufferInBooks ==
  ASSUME Sizes \subseteq Nat,
         NEW b, NEW g, NEW w, NEW d, NEW p, NEW W, NEW L, NEW R,
         Books(b, g, w, d, p, W, L, R, FALSE), NEW size \in Sizes,
         Total(p, Lines(b)) + size <= MaxBuffer
  PROVE  Books(Append(b, Len(p) + 1), IF b = <<>> THEN 0 ELSE g, w, d,
               AfterPush(p, size), W, L, R, FALSE)
  <1> DEFINE q == AfterPush(p, size)
             n == Len(p)
             a == Append(b, n + 1)
             h == IF b = <<>> THEN 0 ELSE g
  <1>1. /\ n \in Nat /\ Lines(b) \in SUBSET (1 .. n) /\ R \in SUBSET (1 .. n)
        /\ b # <<>> => b[1] \in 1 .. n
        /\ b \in Seq(1 .. n)
    BY BooksSay
  <1>2. /\ Len(q) = n + 1 /\ \A i \in 1 .. n : q[i] = p[i]
        /\ q[n + 1].age = 0
        /\ BooksTyped(g, w, q)
        /\ \A S \in SUBSET (1 .. n) : /\ Total(q, S) = Total(p, S)
                                      /\ Total(q, S \cup {n + 1}) = Total(p, S) + size
    <2> HIDE DEF q, n
    <2>1. BooksTyped(g, w, p)
      BY DEF Books
    <2>2. BooksTyped(g, w, q) /\ Grown(q, p, n, size)
      BY <2>1, PushGrows DEF q, n
    <2> QED BY <2>2 DEF Grown
  <1>3. /\ Run(a, n + 1, R) /\ Lines(a) = Lines(b) \cup {n + 1}
        /\ a[Len(a)] = n + 1
        /\ b # <<>> => a[1] = b[1]
        /\ b = <<>> => a[1] = n + 1
    <2>1. Run(b, n, R) /\ (b # <<>> => (b[Len(b)] + 1) .. n \subseteq R)
      BY DEF Books, BooksRun, BooksFresh
    <2> HIDE DEF n
    <2> QED BY <1>1, <2>1, RunAppends
  <1> HIDE DEF q, n, a
  <1>4. BooksTyped(h, w, q)
    BY <1>2 DEF BooksTyped
  <1>5. Split(Lines(a), w, W, L, R, n + 1)
    <2>1. Split(Lines(b), w, W, L, R, n)
      BY DEF Books, n
    <2>2. 1 .. n + 1 = (1 .. n) \cup {n + 1} /\ n + 1 \notin 1 .. n
      BY <1>1
    <2> QED BY <1>3, <2>1, <2>2 DEF Split, Apart
  <1>6. BooksRun(a, w, q, R)
    <2>1. \A t \in Tasks : Run(w[t], n, R)
      BY DEF Books, BooksRun, n
    <2>2. n + 1 \in Nat /\ n <= n + 1 /\ R \subseteq R
      BY <1>1
    <2> QED BY <1>1, <1>2, <1>3, <2>1, <2>2, RunStays DEF BooksRun
  <1>7. BooksCounted(a, d, q, R, FALSE)
    <2>1. d = Total(p, R)
      BY DEF Books, BooksCounted
    <2>2. Total(q, Lines(a)) = Total(p, Lines(b)) + size /\ Total(q, R) = Total(p, R)
      BY <1>1, <1>2, <1>3
    <2> QED BY <2>1, <2>2 DEF BooksCounted
  <1>8. BooksFresh(a, h, q, R)
    <2>1. (n + 1 + 1) .. n + 1 = {}
      BY <1>1
    <2>2. h = q[a[1]].age
      <3>1. b # <<>> => g = p[b[1]].age
        BY DEF Books, BooksFresh
      <3> QED BY <1>1, <1>2, <1>3, <3>1
    <2> QED BY <1>2, <1>3, <2>1, <2>2 DEF BooksFresh
  <1> QED BY <1>2, <1>4, <1>5, <1>6, <1>7, <1>8 DEF Books, q, n, a

LEMMA TakeInBooks ==
  ASSUME Sizes \subseteq Nat, MaxBuffer \in Nat,
         NEW b, NEW g, NEW w, NEW d, NEW p, NEW W, NEW L, NEW R,
         Books(b, g, w, d, p, W, L, R, FALSE), NEW t \in Tasks, w[t] = <<>>
  PROVE  Books(<<>>, g, [w EXCEPT ![t] = b], d, p, W, L, R, FALSE)
  <1> DEFINE v == [w EXCEPT ![t] = b]
             n == Len(p)
  <1>1. n \in Nat /\ Lines(<<>>) = {} /\ b \in Seq(1 .. n) /\ w \in [Tasks -> Seq(1 .. n)]
    <2>1. n \in Nat /\ b \in Seq(1 .. n)
      BY BooksSay
    <2>2. Lines(<<>>) = {}
      BY DEF Lines
    <2>3. w \in [Tasks -> Seq(1 .. n)]
      BY DEF Books, BooksTyped
    <2> QED BY <2>1, <2>2, <2>3
  <1>2. Weighs(p, n)
    BY BooksSay
  <1>3. BooksTyped(g, v, p)
    BY <1>1 DEF Books, BooksTyped
  <1>4. Split({}, v, W, L, R, n)
    <2>1. Split(Lines(b), w, W, L, R, n)
      BY DEF Books
    <2>2. TasksApart(w) /\ Lines(b) \cap Flight(w) = {}
      BY <2>1 DEF Split, Apart
    <2>3. Flight(v) = Flight(w) \cup Lines(b) /\ TasksApart(v)
      BY <1>1, <2>2, TakeFlies
    <2> HIDE DEF v, n
    <2> QED BY <2>1, <2>3 DEF Split, Apart
  <1>5. BooksRun(<<>>, v, p, R)
    <2>1. Run(<<>>, n, R)
      BY DEF Run
    <2>2. Run(b, n, R) /\ \A u \in Tasks : Run(w[u], n, R)
      BY DEF Books, BooksRun
    <2>3. \A u \in Tasks : v[u] = b \/ v[u] = w[u]
      BY <1>1
    <2> HIDE DEF v
    <2>4. \A u \in Tasks : Run(v[u], n, R)
      BY <2>2, <2>3
    <2> QED BY <2>1, <2>4 DEF BooksRun
  <1>6. BooksCounted(<<>>, d, p, R, FALSE)
    <2>1. Total(p, {}) = 0
      BY <1>1, <1>2, TotalOf
    <2>2. BooksCounted(b, d, p, R, FALSE)
      BY DEF Books
    <2>3. d = Total(p, R)
      BY <2>2 DEF BooksCounted
    <2>4. d = Total(p, R \cup IF FALSE THEN Lines(<<>>) ELSE {})
      <3>1. R \cup (IF FALSE THEN Lines(<<>>) ELSE {}) = R
        OBVIOUS
      <3> QED BY <2>3, <3>1
    <2>5. Total(p, Lines(<<>>)) <= MaxBuffer
      <3>1. Total(p, Lines(<<>>)) = 0
        BY <1>1, <2>1, Zenon
      <3> QED BY <3>1
    <2> QED BY <2>4, <2>5 DEF BooksCounted
  <1>7. BooksFresh(<<>>, g, p, R)
    BY DEF BooksFresh
  <1> QED BY <1>1, <1>3, <1>4, <1>5, <1>6, <1>7 DEF Books

LEMMA ReturnInBooks ==
  ASSUME NEW b, NEW g, NEW w, NEW d, NEW p, NEW W, NEW L, NEW R, NEW X,
         Books(b, g, w, d, p, W, L, R, X), NEW t \in Tasks, NEW V, NEW M,
         \/ V = W \cup Lines(w[t]) /\ M = L
         \/ V = W /\ M = L \cup Lines(w[t])
  PROVE  Books(b, g, [w EXCEPT ![t] = <<>>], d, p, V, M, R, X)
  <1> DEFINE v == [w EXCEPT ![t] = <<>>]
             n == Len(p)
  <1>1. w \in [Tasks -> Seq(1 .. n)]
    BY DEF Books, BooksTyped
  <1>2. BooksTyped(g, v, p)
    BY <1>1 DEF Books, BooksTyped
  <1>3. Split(Lines(b), v, V, M, R, n)
    <2>1. Split(Lines(b), w, W, L, R, n)
      BY DEF Books
    <2>2. TasksApart(w)
      BY <2>1 DEF Split
    <2>3. Flight(v) = Flight(w) \ Lines(w[t]) /\ TasksApart(v) /\ Lines(w[t]) \subseteq Flight(w)
      BY <1>1, <2>2, ReturnLands
    <2> HIDE DEF v, n
    <2> QED BY <2>1, <2>3 DEF Split, Apart
  <1>4. BooksRun(b, v, p, R)
    <2>1. Run(<<>>, n, R)
      BY DEF Run
    <2>2. Run(b, n, R) /\ \A u \in Tasks : Run(w[u], n, R)
      BY DEF Books, BooksRun
    <2>3. \A u \in Tasks : v[u] = <<>> \/ v[u] = w[u]
      BY <1>1
    <2> HIDE DEF v
    <2>4. \A u \in Tasks : Run(v[u], n, R)
      BY <2>1, <2>2, <2>3
    <2> QED BY <2>2, <2>4 DEF BooksRun
  <1> QED BY <1>2, <1>3, <1>4 DEF Books

LEMMA DropInBooks ==
  ASSUME Sizes \subseteq Nat,
         NEW b, NEW g, NEW w, NEW d, NEW p, NEW W, NEW L, NEW R,
         Books(b, g, w, d, p, W, L, R, FALSE)
  PROVE  Books(b, g, w, d + Total(p, Lines(b)), p, W, L, R, TRUE)
  <1>1. /\ Len(p) \in Nat /\ Weighs(p, Len(p))
        /\ Lines(b) \in SUBSET (1 .. Len(p)) /\ R \in SUBSET (1 .. Len(p)) /\ R \cap Lines(b) = {}
    BY BooksSay
  <1>2. Total(p, R \cup Lines(b)) = Total(p, R) + Total(p, Lines(b))
    BY <1>1, TotalUnion
  <1>3. BooksCounted(b, d + Total(p, Lines(b)), p, R, TRUE)
    BY <1>2 DEF Books, BooksCounted
  <1> QED BY <1>3 DEF Books

\* Time passes: every line, and the stamp, grow older alike.
LEMMA AgeInBooks ==
  ASSUME Sizes \subseteq Nat,
         NEW b, NEW g, NEW w, NEW d, NEW p, NEW W, NEW L, NEW R, NEW X,
         Books(b, g, w, d, p, W, L, R, X)
  PROVE  Books(b, IF g < MaxAge THEN g + 1 ELSE g, w, d,
               [i \in DOMAIN p |-> [p[i] EXCEPT !.age = IF @ < MaxAge THEN @ + 1 ELSE @]],
               W, L, R, X)
  <1> DEFINE q == [i \in DOMAIN p |-> [p[i] EXCEPT !.age = IF @ < MaxAge THEN @ + 1 ELSE @]]
             h == IF g < MaxAge THEN g + 1 ELSE g
             n == Len(p)
  <1>1. /\ n \in Nat /\ Weighs(p, n)
        /\ Lines(b) \in SUBSET (1 .. n) /\ R \in SUBSET (1 .. n)
        /\ b # <<>> => b[1] \in 1 .. n
    BY BooksSay
  <1>2. p \in Seq(Pushed) /\ g \in Int /\ w \in [Tasks -> Seq(1 .. n)]
    BY DEF Books, BooksTyped
  <1>3. \A i \in 1 .. n : p[i] \in Pushed /\ i \in DOMAIN p
    BY <1>2
  <1>4. \A i \in 1 .. n : /\ q[i].size = p[i].size
                          /\ q[i].age = (IF p[i].age < MaxAge THEN p[i].age + 1 ELSE p[i].age)
                          /\ q[i] \in Pushed
    BY <1>3 DEF Pushed
  <1>5. q \in Seq(Pushed) /\ Len(q) = n
    <2>1. DOMAIN q = 1 .. n
      BY <1>2
    <2> HIDE DEF q, n
    <2>2. q = [i \in 1 .. n |-> q[i]]
      BY <2>1 DEF q
    <2>3. q \in [1 .. n -> Pushed]
      BY <1>4, <2>2
    <2> QED BY <1>1, <2>3
  <1> HIDE DEF q, h, n
  <1>6. BooksTyped(h, w, q)
    BY <1>2, <1>5 DEF BooksTyped, h
  <1>7. \A S \in SUBSET (1 .. n) : Total(q, S) = Total(p, S)
    <2>1. Weighs(q, n) /\ WeighsLike(p, q, n) /\ n <= n
      BY <1>1, <1>4 DEF Weighs, WeighsLike
    <2> QED BY <1>1, <2>1, TotalSame
  <1>8. BooksCounted(b, d, q, R, X)
    <2>1. (R \cup IF X THEN Lines(b) ELSE {}) \in SUBSET (1 .. n)
      BY <1>1
    <2> QED BY <1>1, <1>7, <2>1 DEF Books, BooksCounted
  <1>9. BooksRun(b, w, q, R) /\ Split(Lines(b), w, W, L, R, Len(q))
    BY <1>5 DEF Books, BooksRun, n
  <1>10. BooksFresh(b, h, q, R)
    <2>1. b # <<>> => h = q[b[1]].age
      <3>1. b # <<>> => g = p[b[1]].age
        BY DEF Books, BooksFresh
      <3> QED BY <1>1, <1>4, <3>1 DEF h
    <2> QED BY <1>5, <2>1 DEF Books, BooksFresh, n
  <1> QED BY <1>6, <1>8, <1>9, <1>10 DEF Books, q, h
-----------------------------------------------------------------------------
(* One lemma per action on the batcher. *)

LEMMA BytesAreTotal ==
  /\ \A S : Sink!Bytes(S) = Total(pushed, S)
  /\ \A s : Sink!ToSet(s) = Lines(s)
  /\ Sink!BufLen = Total(pushed, Lines(buffered))
  <1>1. ASSUME NEW S
        PROVE  Sink!Bytes(S) = Total(pushed, S)
    BY Zenon DEF Sink!Bytes, Total, Sink!MapThenSumSet, Sink!MapThenFoldSet, MapThenSumSet, MapThenFoldSet
  <1>2. ASSUME NEW s
        PROVE  Sink!ToSet(s) = Lines(s)
    BY Zenon DEF Sink!ToSet, Lines
  <1>3. Sink!BufLen = Total(pushed, Lines(buffered))
    BY <1>1, <1>2, Zenon DEF Sink!BufLen
  <1> QED BY <1>1, <1>2, <1>3

LEMMA InitSink ==
  ASSUME MaxBuffer \in Nat, Sink!Init
  PROVE  SinkInv
  <1> DEFINE w == [t \in Tasks |-> <<>>]
  <1>1. /\ buffered = <<>> /\ age = 0 /\ writing = w /\ dropped_total = 0 /\ pushed = <<>>
        /\ written = {} /\ failed = {} /\ refused = {} /\ dropped = FALSE
    BY DEF Sink!Init, Tasks
  <1>2. Lines(<<>>) = {} /\ Flight(w) = {} /\ TasksApart(w) /\ 1 .. 0 = {}
    BY DEF Lines, Flight, TasksApart
  <1>3. Split({}, w, {}, {}, {}, 0)
    <2> HIDE DEF w
    <2> QED BY <1>2 DEF Split, Apart
  <1>4. BooksTyped(0, w, <<>>)
    BY DEF BooksTyped
  <1>5. BooksRun(<<>>, w, <<>>, {})
    BY DEF BooksRun, Run
  <1>6. Weighs(<<>>, 0)
    BY DEF Weighs
  <1>7. Total(<<>>, {}) = 0
    BY <1>6, TotalOf
  <1>8. BooksCounted(<<>>, 0, <<>>, {}, FALSE)
    <2>1. {} \cup (IF FALSE THEN Lines(<<>>) ELSE {}) = {}
      OBVIOUS
    <2>2. 0 = Total(<<>>, {} \cup (IF FALSE THEN Lines(<<>>) ELSE {}))
      BY <1>7, <2>1
    <2>3. Total(<<>>, Lines(<<>>)) <= MaxBuffer
      <3>1. Total(<<>>, Lines(<<>>)) = 0
        BY <1>2, <1>7, Zenon
      <3> QED BY <3>1
    <2> QED BY <2>2, <2>3 DEF BooksCounted
  <1>9. BooksFresh(<<>>, 0, <<>>, {})
    BY DEF BooksFresh
  <1>10. Len(<<>>) = 0
    OBVIOUS
  <1> HIDE DEF w
  <1>11. Books(<<>>, 0, w, 0, <<>>, {}, {}, {}, FALSE)
    BY <1>2, <1>3, <1>4, <1>5, <1>8, <1>9, <1>10 DEF Books
  <1> QED BY <1>1, <1>11 DEF SinkInv

LEMMA PushKeeps ==
  ASSUME Sizes \subseteq Nat, MaxBuffer \in Nat, SinkInv,
         NEW t \in Pushers, NEW size \in Sizes, Sink!Push(t, size)
  PROVE  SinkInv'
  <1> DEFINE q == AfterPush(pushed, size)
             line == Len(pushed) + 1
             b == Append(buffered, line)
             old == IF buffered = <<>> THEN 0 ELSE age
             v == [writing EXCEPT ![t] = b]
  <1>1. /\ Books(buffered, age, writing, dropped_total, pushed, written, failed, refused, FALSE)
        /\ dropped = FALSE /\ dropped' = FALSE /\ t \in Tasks /\ writing[t] = <<>>
        /\ written' = written /\ failed' = failed /\ pushed' = q
    BY DEF SinkInv, Sink!Push, Sink!Idle, Tasks, Sink!Tasks, AfterPush
  <1>2. CASE Sink!BufLen + size > MaxBuffer
    <2>1. /\ refused' = refused \cup {line} /\ dropped_total' = dropped_total + size
          /\ UNCHANGED <<buffered, age, writing>>
      BY <1>2 DEF Sink!Push
    <2>2. Books(buffered, age, writing, dropped_total + size, q, written, failed, refused \cup {line}, FALSE)
      BY <1>1, RefuseInBooks
    <2> HIDE DEF q, line
    <2> QED BY <1>1, <2>1, <2>2 DEF SinkInv
  <1>3. CASE ~(Sink!BufLen + size > MaxBuffer)
    <2>1. /\ age' = old /\ UNCHANGED <<refused, dropped_total>>
          /\ \/ writing' = v /\ buffered' = <<>>
             \/ buffered' = b /\ UNCHANGED writing
      BY <1>3 DEF Sink!Push, Sink!Take
    <2>2. Total(pushed, Lines(buffered)) + size <= MaxBuffer
      <3>1. Weighs(pushed, Len(pushed)) /\ Len(pushed) \in Nat /\ Lines(buffered) \in SUBSET (1 .. Len(pushed))
        BY <1>1, BooksSay
      <3>2. Total(pushed, Lines(buffered)) \in Nat
        BY <3>1, TotalOf
      <3>3. size \in Nat
        OBVIOUS
      <3> QED BY <1>3, <3>2, <3>3, BytesAreTotal
    <2>3. Books(b, old, writing, dropped_total, q, written, failed, refused, FALSE)
      BY <1>1, <2>2, BufferInBooks
    <2> HIDE DEF q, old, b
    <2>4. Books(<<>>, old, v, dropped_total, q, written, failed, refused, FALSE)
      BY <1>1, <2>3, TakeInBooks
    <2> HIDE DEF v
    <2>5. CASE writing' = v /\ buffered' = <<>>
      BY <1>1, <2>1, <2>4, <2>5 DEF SinkInv
    <2>6. CASE buffered' = b /\ UNCHANGED writing
      BY <1>1, <2>1, <2>3, <2>6 DEF SinkInv
    <2> QED BY <2>1, <2>5, <2>6
  <1> QED BY <1>2, <1>3

LEMMA TakeKeeps ==
  ASSUME Sizes \subseteq Nat, MaxBuffer \in Nat, SinkInv,
         (\E t \in Pushers : Sink!Flush(t)) \/ Sink!Tick
  PROVE  SinkInv'
  <1>1. PICK t \in Tasks : /\ Sink!Idle(t) /\ Sink!Take(t, buffered)
                           /\ UNCHANGED <<age, dropped_total, pushed, written, failed, refused, dropped>>
    BY DEF Sink!Flush, Sink!Tick, Sink!counters, Sink!ends, Tasks, Sink!Tasks
  <1> DEFINE v == [writing EXCEPT ![t] = buffered]
  <1>2. /\ Books(buffered, age, writing, dropped_total, pushed, written, failed, refused, FALSE)
        /\ dropped = FALSE /\ writing[t] = <<>>
    BY <1>1 DEF SinkInv, Sink!Idle
  <1>3. writing' = v /\ buffered' = <<>>
    BY <1>1 DEF Sink!Take
  <1>4. Books(<<>>, age, v, dropped_total, pushed, written, failed, refused, FALSE)
    BY <1>2, TakeInBooks
  <1> HIDE DEF v
  <1> QED BY <1>1, <1>2, <1>3, <1>4 DEF SinkInv

LEMMA WriteReturnsKeeps ==
  ASSUME SinkInv, NEW t \in Tasks, NEW ok \in BOOLEAN, Sink!WriteReturns(t, ok)
  PROVE  SinkInv'
  <1> DEFINE v == [writing EXCEPT ![t] = <<>>]
  <1>1. Books(buffered, age, writing, dropped_total, pushed, written, failed, refused, dropped)
        /\ dropped \in BOOLEAN
    BY DEF SinkInv
  <1>2. writing' = v /\ UNCHANGED <<buffered, age, dropped_total, pushed, refused, dropped>>
    BY DEF Sink!WriteReturns
  <1>3. \/ written' = written \cup Lines(writing[t]) /\ failed' = failed
        \/ written' = written /\ failed' = failed \cup Lines(writing[t])
    BY BytesAreTotal DEF Sink!WriteReturns
  <1>4. Books(buffered, age, v, dropped_total, pushed, written', failed', refused, dropped)
    BY <1>1, <1>3, ReturnInBooks
  <1> HIDE DEF v
  <1> QED BY <1>1, <1>2, <1>4 DEF SinkInv

LEMMA DropKeeps ==
  ASSUME Sizes \subseteq Nat, SinkInv, Sink!DropBatcher
  PROVE  SinkInv'
  <1>1. dropped = FALSE
    BY DEF SinkInv, Sink!DropBatcher, Sink!Idle, Sink!Tasks
  <1>2. /\ dropped' = TRUE /\ dropped_total' = dropped_total + Total(pushed, Lines(buffered))
        /\ UNCHANGED <<buffered, age, writing, pushed, written, failed, refused>>
    BY BytesAreTotal DEF Sink!DropBatcher, Sink!ends
  <1>3. Books(buffered, age, writing, dropped_total, pushed, written, failed, refused, FALSE)
    BY <1>1 DEF SinkInv
  <1>4. Books(buffered, age, writing, dropped_total + Total(pushed, Lines(buffered)), pushed,
              written, failed, refused, TRUE)
    BY <1>3, DropInBooks
  <1> QED BY <1>2, <1>4 DEF SinkInv

LEMMA ElapseKeeps ==
  ASSUME Sizes \subseteq Nat, SinkInv, Sink!Elapse
  PROVE  SinkInv'
  <1> DEFINE q == [i \in DOMAIN pushed |->
                     [pushed[i] EXCEPT !.age = IF @ < MaxAge THEN @ + 1 ELSE @]]
             h == IF age < MaxAge THEN age + 1 ELSE age
  <1>1. /\ pushed' = q /\ age' = h
        /\ UNCHANGED <<buffered, writing, dropped_total, written, failed, refused, dropped>>
    BY DEF Sink!Elapse, Sink!counters, Sink!ends
  <1>2. Books(buffered, age, writing, dropped_total, pushed, written, failed, refused, dropped)
        /\ dropped \in BOOLEAN
    BY DEF SinkInv
  <1>3. Books(buffered, h, writing, dropped_total, q, written, failed, refused, dropped)
    BY <1>2, AgeInBooks
  <1> HIDE DEF q, h
  <1> QED BY <1>1, <1>2, <1>3 DEF SinkInv

LEMMA NextSink ==
  ASSUME Sizes \subseteq Nat, MaxBuffer \in Nat, SinkInv, [Sink!Next]_(Sink!vars)
  PROVE  SinkInv'
  <1>1. CASE \E t \in Pushers : \E size \in Sizes : Sink!Push(t, size)
    BY <1>1, PushKeeps
  <1>2. CASE (\E t \in Pushers : Sink!Flush(t)) \/ Sink!Tick
    BY <1>2, TakeKeeps
  <1>3. CASE \E t \in Sink!Tasks, ok \in BOOLEAN : Sink!WriteReturns(t, ok)
    BY <1>3, WriteReturnsKeeps DEF Tasks
  <1>4. CASE Sink!DropBatcher
    BY <1>4, DropKeeps
  <1>5. CASE Sink!Elapse
    BY <1>5, ElapseKeeps
  <1>6. CASE UNCHANGED Sink!vars
    BY <1>6 DEF Sink!vars, SinkInv
  <1> QED BY <1>1, <1>2, <1>3, <1>4, <1>5, <1>6 DEF Sink!Next

LEMMA SinkInvGives ==
  ASSUME Sizes \subseteq Nat, SinkInv
  PROVE  EveryLineAccountedFor
  <1> DEFINE n == Len(pushed)
             P == <<Lines(buffered), Flight(writing), written, failed, refused>>
  <1>1. /\ dropped \in BOOLEAN
        /\ Books(buffered, age, writing, dropped_total, pushed, written, failed, refused, dropped)
    BY DEF SinkInv
  <1>2. Split(Lines(buffered), writing, written, failed, refused, n)
    BY <1>1 DEF Books
  <1>3. n \in Nat /\ DOMAIN pushed = 1 .. n
    BY <1>1, PushedSays DEF Books, BooksTyped
  <1>4. Sink!Places = P
    <2>1. Sink!InFlight = Flight(writing)
      BY BytesAreTotal, Zenon DEF Sink!InFlight, Flight, Tasks
    <2>2. Sink!ToSet(buffered) = Lines(buffered)
      BY BytesAreTotal
    <2> QED BY <2>1, <2>2, Zenon DEF Sink!Places
  <1>5. DOMAIN P = 1 .. 5 /\ P[1] = Lines(buffered) /\ P[2] = Flight(writing) /\ P[3] = written
        /\ P[4] = failed /\ P[5] = refused
    OBVIOUS
  <1> HIDE DEF P, n
  <1>6. UNION {P[i] : i \in DOMAIN P} = DOMAIN pushed
    <2>1. UNION {P[i] : i \in 1 .. 5} = P[1] \cup P[2] \cup P[3] \cup P[4] \cup P[5]
      OBVIOUS
    <2> QED BY <1>2, <1>3, <1>5, <2>1 DEF Split
  <1>7. \A i, k \in DOMAIN P : i # k => P[i] \cap P[k] = {}
    <2>1. \A i \in 1 .. 5 : i = 1 \/ i = 2 \/ i = 3 \/ i = 4 \/ i = 5
      OBVIOUS
    <2>2. Apart(P[1], P[2], P[3], P[4], P[5])
      BY <1>2, <1>5 DEF Split
    <2> QED BY <1>5, <2>1, <2>2 DEF Apart
  <1>8. \A t, u \in Sink!Tasks : t # u => Sink!ToSet(writing[t]) \cap Sink!ToSet(writing[u]) = {}
    <2>1. ASSUME NEW t \in Sink!Tasks, NEW u \in Sink!Tasks, t # u
          PROVE  Sink!ToSet(writing[t]) \cap Sink!ToSet(writing[u]) = {}
      <3>1. Lines(writing[t]) \cap Lines(writing[u]) = {}
        BY <1>2, <2>1 DEF Split, TasksApart, Tasks
      <3>2. Sink!ToSet(writing[t]) = Lines(writing[t]) /\ Sink!ToSet(writing[u]) = Lines(writing[u])
        BY BytesAreTotal
      <3> QED BY <3>1, <3>2
    <2> QED BY <2>1
  <1>9. ASSUME NEW s \in {buffered} \cup {writing[t] : t \in Sink!Tasks}
        PROVE  \A i \in 1 .. Len(s) - 1 : s[i] < s[i + 1] /\ (s[i] + 1) .. (s[i + 1] - 1) \subseteq refused
    <2>1. Run(s, n, refused)
      BY <1>1 DEF Books, BooksRun, Tasks, n
    <2> QED BY <2>1 DEF Run
  <1>10. dropped_total = Sink!Bytes(refused \cup IF dropped THEN Sink!ToSet(buffered) ELSE {})
    <2>1. dropped_total = Total(pushed, refused \cup IF dropped THEN Lines(buffered) ELSE {})
      BY <1>1, Zenon DEF Books, BooksCounted
    <2>2. Sink!ToSet(buffered) = Lines(buffered)
      BY BytesAreTotal
    <2>3. \A S : Sink!Bytes(S) = Total(pushed, S)
      BY BytesAreTotal
    <2> QED BY <2>1, <2>2, <2>3, Zenon
  <1>11. Sink!BufLen <= MaxBuffer
    BY <1>1, BytesAreTotal DEF Books, BooksCounted
  <1>12. buffered # <<>> => age = pushed[buffered[1]].age
    BY <1>1 DEF Books, BooksFresh
  <1> QED BY <1>4, <1>6, <1>7, <1>8, <1>9, <1>10, <1>11, <1>12, Zenon
          DEF EveryLineAccountedFor, Sink!EveryLineAccountedFor

LEMMA SinkRuns == ServicesSpec => Sink!Spec
  <1>1. ServicesInit => Sink!Init
    BY DEF ServicesInit
  <1>2. [ServicesNext]_serviceVars => [Sink!Next]_(Sink!vars)
    BY DEF ServicesNext, DedupStep, ShardStep, MqttStep, TimersStep, SinkStep, serviceVars,
            Sink!vars, sinkVars
  <1> QED BY <1>1, <1>2, PTL DEF ServicesSpec, Sink!Spec

(* The batcher loses and repeats no line but as it says, however its tasks   *)
(* push, flush, tick and are cancelled meanwhile: every line is in one place *)
(* or met with one end, no body takes what another one took, and what        *)
(* dropped_total says and the stamp tells are true.                          *)
THEOREM LinesAreAccountedFor ==
  ASSUME Sizes \subseteq Nat, MaxBuffer \in Nat
  PROVE  ServicesSpec => []EveryLineAccountedFor
  <1>1. Sink!Init => SinkInv
    BY InitSink
  <1>2. SinkInv /\ [Sink!Next]_(Sink!vars) => SinkInv'
    BY NextSink
  <1>3. SinkInv => EveryLineAccountedFor
    BY SinkInvGives
  <1> QED BY <1>1, <1>2, <1>3, SinkRuns, PTL DEF Sink!Spec
=============================================================================

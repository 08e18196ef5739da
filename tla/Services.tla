------------------------------- MODULE Services -------------------------------
(* The deduplicator, the timers and the cores of the connectors, side by     *)
(* side: they share no state, so a step of the whole is a step of one.       *)
EXTENDS Integers, Sequences, FiniteSets

CONSTANTS Workers, Keys, DedupRecords, DedupCrashes,            \* Deduplicator
          Partitions, LogEnd, MaxRebalances,                    \* ShardFence
          PacketIds, Capacities, MAX_QOS2_WINDOW_SIZE, MaxProcessed, MqttCrashes,   \* MqttCursor
          Nodes, Stamps, MaxTimers,                             \* TimerHeap
          Pushers, Ticker, Sizes, FlushAt, MaxBuffer, MaxAge, MaxPushes,    \* Batcher
          None

VARIABLES at, key, cache, stored, fresh, sunk, verdict, records, crashes
dedupVars == <<at, key, cache, stored, fresh, sunk, verdict, records, crashes>>
VARIABLES assigned, position, committed, rebalance_rx, owned, epoch, applying, fence_at, event, acks,
          dropped_stale_epoch, tenure, handled, fence_dropped, rebalances
shardVars == <<assigned, position, committed, rebalance_rx, owned, epoch, applying, fence_at, event, acks,
               dropped_stale_epoch, tenure, handled, fence_dropped, rebalances>>
VARIABLES capacity, items, last_packet_id, saved, unacked, mqtt_crashes, processed
mqttVars == <<capacity, items, last_packet_id, saved, unacked, mqtt_crashes, processed>>
VARIABLES heap, next_seq, snapshot, fired, owed, quiet
timersVars == <<heap, next_seq, snapshot, fired, owed, quiet>>
VARIABLES buffered, age, writing, flushes_total, dropped_total, pushed, written, failed, refused, dropped
sinkVars == <<buffered, age, writing, flushes_total, dropped_total, pushed, written, failed, refused, dropped>>
serviceVars == <<dedupVars, shardVars, mqttVars, timersVars, sinkVars>>

Dedup == INSTANCE Deduplicator
  WITH MaxRecords <- DedupRecords, MaxCrashes <- DedupCrashes
Shard == INSTANCE ShardFence
  WITH at <- fence_at, dropped <- fence_dropped
Mqtt == INSTANCE MqttCursor
  WITH MaxCrashes <- MqttCrashes, crashes <- mqtt_crashes
Timers == INSTANCE TimerHeap
Sink == INSTANCE Batcher

ServicesInit == Dedup!Init /\ Shard!Init /\ Mqtt!Init /\ Timers!Init /\ Sink!Init

DedupStep  == Dedup!Next  /\ UNCHANGED <<shardVars, mqttVars, timersVars, sinkVars>>
ShardStep  == Shard!Next  /\ UNCHANGED <<dedupVars, mqttVars, timersVars, sinkVars>>
MqttStep   == Mqtt!Next   /\ UNCHANGED <<dedupVars, shardVars, timersVars, sinkVars>>
TimersStep == Timers!Next /\ UNCHANGED <<dedupVars, shardVars, mqttVars, sinkVars>>
SinkStep   == Sink!Next   /\ UNCHANGED <<dedupVars, shardVars, mqttVars, timersVars>>
ServicesNext == DedupStep \/ ShardStep \/ MqttStep \/ TimersStep \/ SinkStep

ServicesSpec == ServicesInit /\ [][ServicesNext]_serviceVars

-----------------------------------------------------------------------------
(* The properties, each stated with its component.                           *)

(* The deduplicator suppresses what reached the sink, and repeats nothing it *)
(* could know of.                                                            *)
OnlyMarkedKeysAreSuppressed == Dedup!OnlyMarkedKeysAreSuppressed

(* The epoch fences events of an ownership that is over, and offsets are     *)
(* committed only over events that met with their end.                       *)
RebalancesAreFenced == Shard!RebalancesAreFenced

(* The QoS-2 window holds exactly the newest identifiers told to be new.     *)
WindowRecognisesRedeliveries == Mqtt!WindowRecognisesRedeliveries

(* A timer fires once, unless it pays for a delete, and in order.            *)
EveryTimerFiresOnce == Timers!EveryTimerFiresOnce

(* Every line pushed to the Influx batcher has exactly one place or end.     *)
EveryLineAccountedFor == Sink!EveryLineAccountedFor
=============================================================================

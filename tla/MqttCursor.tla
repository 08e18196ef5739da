----------------------------- MODULE MqttCursor -----------------------------
(* MqttCursor and its BoundedSet (tflo-connect-mqtt): the window of packet   *)
(* identifiers that tells a QoS-2 redelivery from a new message.  The broker *)
(* numbers a message with an identifier no unacknowledged message has, and   *)
(* delivers it until it is acknowledged; identifiers come again.  The        *)
(* consumer saves its cursor at times, and a crash brings the saved one back.*)
EXTENDS Integers, Sequences, SequencesExt, FiniteSets

CONSTANTS PacketIds, Capacities,
          MAX_QOS2_WINDOW_SIZE,
          MaxProcessed, MaxCrashes  \* bounds on messages told to be new and on crashes

VARIABLES capacity, items, last_packet_id,
          saved,        \* the cursor to_bytes wrote last
          unacked,      \* the broker: identifiers of messages on the way
          crashes,
          processed     \* history: identifiers told to be new, in this cursor's past
vars == <<capacity, items, last_packet_id, saved, unacked, crashes, processed>>

Cursor == [items |-> items, last_packet_id |-> last_packet_id, processed |-> processed]

\* MqttCursor::new refuses a window above the ceiling.
Init ==
  /\ capacity \in {c \in Capacities : c <= MAX_QOS2_WINDOW_SIZE}
  /\ items = <<>> /\ last_packet_id = 0
  /\ unacked = {} /\ crashes = 0
  /\ processed = <<>>
  /\ saved = Cursor

Pushed(s, value) ==
  IF capacity = 0 THEN s ELSE Append(IF Len(s) >= capacity THEN Tail(s) ELSE s, value)
WrongInsert(s, value) ==
  LET room == IF capacity > 0 /\ Len(s) >= capacity THEN Tail(s) ELSE s
  IN IF Contains(room, value) THEN [items |-> room, new |-> FALSE]
     ELSE [items |-> Pushed(room, value), new |-> TRUE]
\* BoundedSet::insert: a capacity of zero remembers nothing.
Insert(s, value) ==
  IF Contains(s, value) THEN [items |-> s, new |-> FALSE]
  ELSE [items |-> Pushed(s, value), new |-> TRUE]

\* The broker, external: a new message, and an acknowledgement.
Publish(id) ==
  /\ id \notin unacked
  /\ unacked' = unacked \cup {id}
  /\ UNCHANGED <<capacity, items, last_packet_id, saved, crashes, processed>>
Acknowledge(id) ==
  /\ unacked' = unacked \ {id}
  /\ UNCHANGED <<capacity, items, last_packet_id, saved, crashes, processed>>

\* poll gives a message, for the first time or again, and observe_qos2 judges
\* its identifier.
ObserveQos2(id) ==
  LET seen == Insert(items, id)
  IN /\ seen.new => Len(processed) < MaxProcessed
     /\ last_packet_id' = id
     /\ items' = seen.items
     /\ processed' = IF seen.new THEN Append(processed, id) ELSE processed
     /\ UNCHANGED <<capacity, saved, unacked, crashes>>

ToBytes ==
  /\ saved' = Cursor
  /\ UNCHANGED <<capacity, items, last_packet_id, unacked, crashes, processed>>
\* A crash, and from_bytes at the restart.
FromBytes ==
  /\ crashes < MaxCrashes
  /\ crashes' = crashes + 1
  /\ items' = saved.items /\ last_packet_id' = saved.last_packet_id
  /\ processed' = saved.processed
  /\ UNCHANGED <<capacity, saved, unacked>>

Next ==
  \/ \E id \in PacketIds : Publish(id)
  \/ \E id \in unacked : Acknowledge(id) \/ ObserveQos2(id)
  \/ ToBytes
  \/ FromBytes

Spec == Init /\ [][Next]_vars

-----------------------------------------------------------------------------
LastOf(s, n) == {s[i] : i \in {i \in DOMAIN s : i > Len(s) - n}}

(* The window counts messages told to be new and not deliveries: however     *)
(* often messages come again, and across a restart, it holds exactly the     *)
(* last `capacity` identifiers told to be new, and an identifier is told to  *)
(* be new again no sooner than a whole window of others after.               *)
WindowRecognisesRedeliveries ==
  /\ \A i, j \in DOMAIN processed :
       i < j /\ processed[i] = processed[j] => j - i > capacity
  /\ ToSet(items) = LastOf(processed, capacity)
  /\ Len(items) <= capacity
=============================================================================

----------------------------- MODULE Checkpoint -----------------------------
(***************************************************************************)
(* Crash-safe checkpoints: Checkpointer::commit of tflo-core/src/state.rs  *)
(* over a state store and a cursor store, for the keys (shards) of one     *)
(* process that share the checkpointer.                                    *)
(*                                                                         *)
(* The events of a key are 1, 2, ... and the state of its graph is the     *)
(* sequence of the events applied to it. A cursor is the number of events  *)
(* consumed. A store keeps one snapshot per key, replaced atomically       *)
(* (tflo-state-files writes a temporary file and renames it). A write is   *)
(* outstanding from the call until it lands or fails; on a timeout the     *)
(* future is dropped, and what then becomes of the write depends on the    *)
(* store: tflo-state-files has handed it to the blocking pool, where it    *)
(* goes on. Which legs do so is the constant Surviving.                    *)
(***************************************************************************)
EXTENDS Integers, Sequences, FiniteSets

CONSTANTS
  Key,
  circuit_threshold,
  Surviving,   \* the legs whose writes go on after a timeout
  None,
  MaxEvents,   \* bound of the model: the length of each key's stream
  MaxCalls,    \* bound of the model: commit is called at most so often
  MaxCrashes   \* bound of the model

Leg == {"state", "cursor"}

\* A commit that is running: its arguments and the leg it is in.
Call == [id : 1 .. MaxCalls, leg : Leg, snapshot : Seq(1 .. MaxEvents), cursor : 0 .. MaxEvents]

ASSUME CheckpointAssumption ==
  /\ circuit_threshold \in Nat
  /\ Surviving \subseteq Leg
  /\ MaxEvents \in Nat /\ MaxCalls \in Nat /\ MaxCrashes \in Nat
  /\ None \notin 0 .. MaxEvents /\ None \notin Seq(1 .. MaxEvents) /\ None \notin Call
  /\ IsFiniteSet(Key) /\ Key # {}

VARIABLES
  up,
  applied,      \* per key: the state of the running graph
  position,     \* per key: the events consumed by the running process
  call,         \* per key: the commit that is running, or None
  writes,       \* the outstanding writes [key, leg, data, id]
  saved_state,  \* per key: the durable snapshot, or None
  saved_cursor, \* per key: the durable cursor, or None
  consecutive_failures, commits_total, failures_total, timeouts_total,
  calls,        \* history: the calls of commit so far
  failed,       \* history: the calls of this process that have failed
  crashes

graphVars == <<applied, position>>
storeVars == <<saved_state, saved_cursor>>
counterVars == <<consecutive_failures, commits_total, failures_total, timeouts_total>>
vars == <<up, graphVars, call, writes, storeVars, counterVars, calls, failed, crashes>>

Init ==
  /\ up = TRUE
  /\ applied = [k \in Key |-> <<>>] /\ position = [k \in Key |-> 0]
  /\ call = [k \in Key |-> None]
  /\ writes = {}
  /\ saved_state = [k \in Key |-> None] /\ saved_cursor = [k \in Key |-> None]
  /\ consecutive_failures = 0 /\ commits_total = 0
  /\ failures_total = 0 /\ timeouts_total = 0
  /\ calls = 0 /\ failed = {} /\ crashes = 0

\* The graph consumes the next event; a commit of its key may be running.
Process(k) ==
  /\ up
  /\ position[k] < MaxEvents
  /\ position' = [position EXCEPT ![k] = @ + 1]
  /\ applied' = [applied EXCEPT ![k] = Append(@, position[k] + 1)]
  /\ UNCHANGED <<up, call, writes, storeVars, counterVars, calls, failed, crashes>>

Committing(k) == up /\ call[k] # None

\* The write of the leg that k's commit is in, as long as it is outstanding.
WriteOf(k) == {w \in writes : w.id = call[k].id /\ w.leg = call[k].leg}

Write(k, leg, c) ==
  [key |-> k, leg |-> leg, id |-> c.id, data |-> IF leg = "state" THEN c.snapshot ELSE c.cursor]

WrongCommit(k) ==
  /\ up /\ call[k] = None
  /\ calls < MaxCalls
  /\ calls' = calls + 1
  /\ LET c == [id |-> calls + 1, leg |-> "state", snapshot |-> applied[k], cursor |-> position[k]]
     IN  /\ call' = [call EXCEPT ![k] = c]
         /\ writes' = writes \cup {Write(k, "state", c)}
  /\ UNCHANGED <<up, graphVars, storeVars, counterVars, failed, crashes>>

\* commit, with the breaker closed: the first leg starts.
Commit(k) ==
  /\ up /\ call[k] = None
  /\ calls < MaxCalls
  /\ consecutive_failures < circuit_threshold
  /\ calls' = calls + 1
  /\ LET c == [id |-> calls + 1, leg |-> "state", snapshot |-> applied[k], cursor |-> position[k]]
     IN  /\ call' = [call EXCEPT ![k] = c]
         /\ writes' = writes \cup {Write(k, "state", c)}
  /\ UNCHANGED <<up, graphVars, storeVars, counterVars, failed, crashes>>

\* The store makes the write durable, whoever still waits for it.
WriteLands ==
  /\ up
  /\ \E w \in writes :
       /\ writes' = writes \ {w}
       /\ IF w.leg = "state"
          THEN saved_state' = [saved_state EXCEPT ![w.key] = w.data] /\ UNCHANGED saved_cursor
          ELSE saved_cursor' = [saved_cursor EXCEPT ![w.key] = w.data] /\ UNCHANGED saved_state
  /\ UNCHANGED <<up, graphVars, call, counterVars, calls, failed, crashes>>

WrongStateSaved(k) ==
  /\ Committing(k)
  /\ call[k].leg = "state"
  /\ call' = [call EXCEPT ![k].leg = "cursor"]
  /\ writes' = writes \cup {Write(k, "cursor", call[k])}
  /\ UNCHANGED <<up, graphVars, storeVars, counterVars, calls, failed, crashes>>

WrongStateSavedLiveCursor(k) ==
  /\ Committing(k)
  /\ call[k].leg = "state" /\ WriteOf(k) = {}
  /\ call' = [call EXCEPT ![k].leg = "cursor", ![k].cursor = position[k]]
  /\ writes' = writes \cup {Write(k, "cursor", [call[k] EXCEPT !.cursor = position[k]])}
  /\ UNCHANGED <<up, graphVars, storeVars, counterVars, calls, failed, crashes>>

\* save has returned Ok: the cursor leg starts.
StateSaved(k) ==
  /\ Committing(k)
  /\ call[k].leg = "state" /\ WriteOf(k) = {}
  /\ call' = [call EXCEPT ![k].leg = "cursor"]
  /\ writes' = writes \cup {Write(k, "cursor", call[k])}
  /\ UNCHANGED <<up, graphVars, storeVars, counterVars, calls, failed, crashes>>

\* save_cursor has returned Ok: the commit has succeeded.
CursorSaved(k) ==
  /\ Committing(k)
  /\ call[k].leg = "cursor" /\ WriteOf(k) = {}
  /\ call' = [call EXCEPT ![k] = None]
  /\ consecutive_failures' = 0
  /\ commits_total' = commits_total + 1
  /\ UNCHANGED <<up, graphVars, writes, storeVars, failures_total, timeouts_total, calls, failed,
                 crashes>>

\* record_failure, and the return of the error.
Fail(k) ==
  /\ call' = [call EXCEPT ![k] = None]
  /\ failed' = failed \cup {call[k].id}
  /\ consecutive_failures' = consecutive_failures + 1
  /\ failures_total' = failures_total + 1
  /\ UNCHANGED <<up, graphVars, storeVars, commits_total, calls, crashes>>

\* The store reports an error; the write is gone.
StoreFails(k) ==
  /\ Committing(k)
  /\ WriteOf(k) # {}
  /\ writes' = writes \ WriteOf(k)
  /\ Fail(k)
  /\ UNCHANGED timeouts_total

WrongTimeout(k) ==
  /\ Committing(k)
  /\ call[k].leg = "state"
  /\ writes' = IF call[k].leg \in Surviving THEN writes ELSE writes \ WriteOf(k)
  /\ timeouts_total' = timeouts_total + 1
  /\ Fail(k)

WrongTimeoutCountsTwice(k) ==
  /\ Committing(k)
  /\ writes' = IF call[k].leg \in Surviving THEN writes ELSE writes \ WriteOf(k)
  /\ timeouts_total' = timeouts_total + 1
  /\ call' = [call EXCEPT ![k] = None]
  /\ failed' = failed \cup {call[k].id}
  /\ consecutive_failures' = consecutive_failures + 2
  /\ failures_total' = failures_total + 2
  /\ UNCHANGED <<up, graphVars, storeVars, commits_total, calls, crashes>>

\* with_deadline: the deadline of the leg passes before its result is seen, even
\* if the write has landed.
Timeout(k) ==
  /\ Committing(k)
  /\ writes' = IF call[k].leg \in Surviving THEN writes ELSE writes \ WriteOf(k)
  /\ timeouts_total' = timeouts_total + 1
  /\ Fail(k)

ResetCircuit ==
  /\ up
  /\ consecutive_failures' = 0
  /\ UNCHANGED <<up, graphVars, call, writes, storeVars, commits_total, failures_total,
                 timeouts_total, calls, failed, crashes>>

\* The process dies: what is outstanding is lost, the blocking pool's writes too.
Crash ==
  /\ up
  /\ crashes < MaxCrashes
  /\ crashes' = crashes + 1
  /\ up' = FALSE
  /\ writes' = {} /\ call' = [k \in Key |-> None]
  /\ UNCHANGED <<graphVars, storeVars, counterVars, calls, failed>>

WrongRestart ==
  /\ ~up
  /\ up' = TRUE
  /\ applied' = [k \in Key |-> <<>>]
  /\ position' = [k \in Key |-> 0]
  /\ consecutive_failures' = 0 /\ commits_total' = 0
  /\ failures_total' = 0 /\ timeouts_total' = 0 /\ failed' = {}
  /\ UNCHANGED <<call, writes, storeVars, calls, crashes>>

\* Recovery: each graph restores the snapshot its store loads, and the stream is
\* replayed from the cursor.
Restart ==
  /\ ~up
  /\ up' = TRUE
  /\ applied' = [k \in Key |-> IF saved_state[k] = None THEN <<>> ELSE saved_state[k]]
  /\ position' = [k \in Key |-> IF saved_cursor[k] = None THEN 0 ELSE saved_cursor[k]]
  /\ consecutive_failures' = 0 /\ commits_total' = 0
  /\ failures_total' = 0 /\ timeouts_total' = 0 /\ failed' = {}
  /\ UNCHANGED <<call, writes, storeVars, calls, crashes>>

Next ==
  \/ \E k \in Key :
       \/ Process(k) \/ Commit(k) \/ StateSaved(k) \/ CursorSaved(k)
       \/ StoreFails(k) \/ Timeout(k)
  \/ WriteLands
  \/ ResetCircuit
  \/ Crash
  \/ Restart

Spec == Init /\ [][Next]_vars

\* The deadline's timer fires; a process that has died is started again.
FairSpec ==
  /\ Spec
  /\ \A k \in Key : WF_vars(Timeout(k))
  /\ WF_vars(Restart)

-----------------------------------------------------------------------------
(* Properties *)

Covered(s, n) == \A e \in 1 .. n : \E i \in DOMAIN s : s[i] = e

StateWrite == [key : Key, leg : {"state"}, id : 1 .. MaxCalls, data : Seq(1 .. MaxEvents)]
CursorWrite == [key : Key, leg : {"cursor"}, id : 1 .. MaxCalls, data : 0 .. MaxEvents]

\* Every variable keeps its type, and a write carries what its leg is about.
TypeOK ==
  /\ up \in BOOLEAN
  /\ applied \in [Key -> Seq(1 .. MaxEvents)]
  /\ position \in [Key -> 0 .. MaxEvents]
  /\ call \in [Key -> Call \cup {None}]
  /\ writes \subseteq StateWrite \cup CursorWrite
  /\ saved_state \in [Key -> Seq(1 .. MaxEvents) \cup {None}]
  /\ saved_cursor \in [Key -> 0 .. MaxEvents \cup {None}]
  /\ consecutive_failures \in Nat /\ commits_total \in Nat
  /\ failures_total \in Nat /\ timeouts_total \in Nat
  /\ calls \in 0 .. MaxCalls /\ failed \subseteq 1 .. MaxCalls
  /\ crashes \in 0 .. MaxCrashes

\* The durable cursor never claims an event that the durable snapshot does not
\* hold, at no instant: a crash then loses nothing ("The reverse order would let
\* the cursor advance ahead of durable state, which is unrecoverable").
CursorNeverAheadOfState ==
  \A k \in Key :
    saved_cursor[k] # None =>
      saved_state[k] # None /\ Covered(saved_state[k], saved_cursor[k])

\* Every event before the position of a running graph is in its state, through
\* any number of failed commits, crashes and restarts: processing is at least once.
NoEventLost == \A k \in Key : up => Covered(applied[k], position[k])

\* The breaker lets at most one more failure through per key that was already
\* committing when it opened.
BreakerLimitsFailures ==
  consecutive_failures + Cardinality({k \in Key : call[k] # None})
    <= circuit_threshold + Cardinality(Key) - 1

\* A failed commit counts as one failure, whichever leg failed in whichever way,
\* and a timeout also as a timeout.
FailuresCountedOnce ==
  /\ failures_total = Cardinality(failed)
  /\ timeouts_total <= failures_total
  /\ consecutive_failures <= failures_total

\* The durable cursor never goes back: progress once committed survives crashes
\* and the commits that follow.
DurableProgressIsKept ==
  [][\A k \in Key : saved_cursor[k] # None =>
       saved_cursor'[k] # None /\ saved_cursor[k] <= saved_cursor'[k]]_saved_cursor

\* commit returns, even when a store never answers (the mandatory deadline).
EveryCommitReturns == \A k \in Key : call[k] # None ~> call[k] = None
=============================================================================

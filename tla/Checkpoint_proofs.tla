-------------------------- MODULE Checkpoint_proofs --------------------------
(***************************************************************************)
(* Recovery is sound for every number of keys, events, calls and crashes,  *)
(* as long as no write of a snapshot outlives its deadline.                *)
(***************************************************************************)
EXTENDS Checkpoint, FiniteSetTheorems, TLAPS

-----------------------------------------------------------------------------
(* The inductive invariant, by parts. *)

\* A process that is down runs nothing.
DownIsIdle == ~up => writes = {} /\ \A k \in Key : call[k] = None

\* Ids are fresh: they tell the writes of two commits apart.
IdsAreFresh ==
  /\ \A k \in Key : call[k] # None => call[k].id <= calls
  /\ \A j, k \in Key : call[j] # None /\ call[k] # None /\ call[j].id = call[k].id => j = k

\* What a commit wants to make durable was true of the graph when it began.
CallIsCovered ==
  \A k \in Key : call[k] # None =>
    /\ Covered(call[k].snapshot, call[k].cursor)
    /\ call[k].cursor <= position[k]

\* A snapshot that is being written is that of a commit in its state leg, and
\* when it is no longer being written it is durable.
StateWriteHasCall ==
  \A w \in writes : w.leg = "state" =>
    /\ call[w.key] # None
    /\ call[w.key].id = w.id /\ call[w.key].leg = "state" /\ call[w.key].snapshot = w.data

StateLegEnds ==
  \A k \in Key : call[k] # None /\ call[k].leg = "state" /\ WriteOf(k) = {} =>
    saved_state[k] = call[k].snapshot

\* The cursors of k that are durable or may become so.
Claims(k) ==
  {c \in {saved_cursor[k]} : c # None}
  \cup {w.data : w \in {v \in writes : v.leg = "cursor" /\ v.key = k}}

\* Each is covered by the durable snapshot, and by each that can replace it.
ClaimsAreCovered ==
  \A k \in Key : \A c \in Claims(k) :
    /\ saved_state[k] # None /\ Covered(saved_state[k], c)
    /\ up => c <= position[k]
    /\ call[k] # None => c <= call[k].cursor

RecoveryInv ==
  /\ TypeOK
  /\ NoEventLost
  /\ DownIsIdle
  /\ IdsAreFresh
  /\ CallIsCovered
  /\ StateWriteHasCall
  /\ StateLegEnds
  /\ ClaimsAreCovered

-----------------------------------------------------------------------------
(* Types *)

LEMMA InitTypeOK == Init => TypeOK
BY CheckpointAssumption DEF Init, TypeOK

LEMMA WriteType ==
  ASSUME NEW k \in Key, NEW c \in Call
  PROVE  Write(k, "state", c) \in StateWrite /\ Write(k, "cursor", c) \in CursorWrite
BY DEF Write, Call, StateWrite, CursorWrite

LEMMA NextTypeOK ==
  ASSUME TypeOK, Next
  PROVE  TypeOK'
<1> USE CheckpointAssumption
<1>1. ASSUME NEW k \in Key, Process(k) PROVE TypeOK'
  <2>1. position[k] + 1 \in 1 .. MaxEvents
    BY <1>1 DEF Process, TypeOK
  <2>2. Append(applied[k], position[k] + 1) \in Seq(1 .. MaxEvents)
    BY <2>1 DEF TypeOK
  <2> QED
    BY <1>1, <2>1, <2>2 DEF Process, TypeOK, counterVars, storeVars
<1>2. ASSUME NEW k \in Key, Commit(k) PROVE TypeOK'
  <2> DEFINE c == [id |-> calls + 1, leg |-> "state", snapshot |-> applied[k],
                   cursor |-> position[k]]
  <2>1. c \in Call
    BY <1>2 DEF Commit, TypeOK, Call, Leg
  <2>2. call' = [call EXCEPT ![k] = c] /\ writes' = writes \cup {Write(k, "state", c)}
    BY <1>2 DEF Commit
  <2>3. Write(k, "state", c) \in StateWrite
    BY <2>1, WriteType
  <2> HIDE DEF c
  <2>4. call' \in [Key -> Call \cup {None}]
    BY <2>1, <2>2 DEF TypeOK
  <2>5. writes' \subseteq StateWrite \cup CursorWrite
    BY <2>2, <2>3 DEF TypeOK
  <2>6. calls' \in 0 .. MaxCalls
    BY <1>2 DEF Commit, TypeOK
  <2> QED
    BY <1>2, <2>4, <2>5, <2>6 DEF Commit, TypeOK, counterVars, storeVars, graphVars
<1>3. ASSUME NEW k \in Key, StateSaved(k) PROVE TypeOK'
  <2>1. call[k] \in Call /\ [call[k] EXCEPT !.leg = "cursor"] \in Call
    BY <1>3 DEF StateSaved, Committing, TypeOK, Call, Leg
  <2>2. call' \in [Key -> Call \cup {None}]
    BY <1>3, <2>1 DEF StateSaved, TypeOK
  <2>3. writes' \subseteq StateWrite \cup CursorWrite
    BY <1>3, <2>1, WriteType DEF StateSaved, TypeOK
  <2> QED
    BY <1>3, <2>2, <2>3 DEF StateSaved, TypeOK, counterVars, storeVars, graphVars
<1>4. ASSUME NEW k \in Key, CursorSaved(k) PROVE TypeOK'
  BY <1>4 DEF CursorSaved, TypeOK, storeVars, graphVars
<1>5. ASSUME NEW k \in Key, Committing(k), Fail(k), writes' \subseteq writes,
             timeouts_total' \in Nat
      PROVE  TypeOK'
  <2>1. call[k].id \in 1 .. MaxCalls
    BY <1>5 DEF Committing, TypeOK, Call
  <2>2. call' \in [Key -> Call \cup {None}]
    BY <1>5 DEF Fail, TypeOK
  <2>3. failed' \subseteq 1 .. MaxCalls
    BY <1>5, <2>1 DEF Fail, TypeOK
  <2>4. up' \in BOOLEAN
    BY <1>5 DEF Fail, TypeOK
  <2>5. consecutive_failures' \in Nat /\ failures_total' \in Nat
    BY <1>5 DEF Fail, TypeOK
  <2>6. writes' \subseteq StateWrite \cup CursorWrite
    BY <1>5 DEF TypeOK
  <2> QED
    BY <1>5, <2>2, <2>3, <2>4, <2>5, <2>6 DEF Fail, TypeOK, storeVars, graphVars
<1>6. ASSUME NEW k \in Key, StoreFails(k) PROVE TypeOK'
  <2>1. /\ Committing(k) /\ Fail(k) /\ writes' \subseteq writes
        /\ timeouts_total' \in Nat
    BY <1>6 DEF StoreFails, TypeOK
  <2> QED
    BY <1>5, <2>1
<1>7. ASSUME NEW k \in Key, Timeout(k) PROVE TypeOK'
  <2>1. /\ Committing(k) /\ Fail(k) /\ writes' \subseteq writes
        /\ timeouts_total' \in Nat
    BY <1>7 DEF Timeout, TypeOK
  <2> QED
    BY <1>5, <2>1
<1>8. ASSUME WriteLands PROVE TypeOK'
  <2>1. PICK w \in writes :
          /\ writes' = writes \ {w}
          /\ IF w.leg = "state"
             THEN saved_state' = [saved_state EXCEPT ![w.key] = w.data] /\ UNCHANGED saved_cursor
             ELSE saved_cursor' = [saved_cursor EXCEPT ![w.key] = w.data]
                  /\ UNCHANGED saved_state
    BY <1>8 DEF WriteLands
  <2>2. w.key \in Key /\ (w.leg = "state" => w.data \in Seq(1 .. MaxEvents))
        /\ (w.leg # "state" => w.data \in 0 .. MaxEvents)
    BY DEF TypeOK, StateWrite, CursorWrite
  <2>3. saved_state' \in [Key -> Seq(1 .. MaxEvents) \cup {None}]
        /\ saved_cursor' \in [Key -> 0 .. MaxEvents \cup {None}]
    BY <2>1, <2>2 DEF TypeOK
  <2> QED
    BY <1>8, <2>1, <2>3 DEF WriteLands, TypeOK, counterVars, graphVars
<1>9. ASSUME ResetCircuit PROVE TypeOK'
  BY <1>9 DEF ResetCircuit, TypeOK, storeVars, graphVars
<1>10. ASSUME Crash PROVE TypeOK'
  <2>1. call' \in [Key -> Call \cup {None}]
    BY <1>10 DEF Crash
  <2>2. writes' \subseteq StateWrite \cup CursorWrite
    BY <1>10 DEF Crash
  <2>3. crashes' \in 0 .. MaxCrashes
    BY <1>10 DEF Crash, TypeOK
  <2>4. up' \in BOOLEAN
    BY <1>10 DEF Crash
  <2> QED
    BY <1>10, <2>1, <2>2, <2>3, <2>4 DEF Crash, TypeOK, storeVars, graphVars, counterVars
<1>11. ASSUME Restart PROVE TypeOK'
  <2>1. applied' \in [Key -> Seq(1 .. MaxEvents)]
    <3>1. \A k \in Key : (IF saved_state[k] = None THEN <<>> ELSE saved_state[k])
                            \in Seq(1 .. MaxEvents)
      <4> TAKE k \in Key
      <4>1. saved_state[k] \in Seq(1 .. MaxEvents) \cup {None}
        BY DEF TypeOK
      <4>2. <<>> \in Seq(1 .. MaxEvents)
        OBVIOUS
      <4> QED
        BY <4>1, <4>2
    <3> QED
      BY <1>11, <3>1 DEF Restart
  <2>2. position' \in [Key -> 0 .. MaxEvents]
    BY <1>11 DEF Restart, TypeOK
  <2> QED
    BY <1>11, <2>1, <2>2 DEF Restart, TypeOK, storeVars
<1> QED
  BY <1>1, <1>2, <1>3, <1>4, <1>6, <1>7, <1>8, <1>9, <1>10, <1>11 DEF Next

\* The specification keeps its types: Checkpointer and its stores hold what the
\* program's types say, in whatever order calls, writes and crashes come.
THEOREM TypeCorrect == Spec => []TypeOK
<1>1. TypeOK /\ UNCHANGED vars => TypeOK'
  BY DEF TypeOK, vars, graphVars, storeVars, counterVars
<1>2. TypeOK /\ [Next]_vars => TypeOK'
  BY <1>1, NextTypeOK
<1> QED
  BY InitTypeOK, <1>2, PTL DEF Spec

-----------------------------------------------------------------------------
(* Coverage *)

LEMMA CoveredLess ==
  ASSUME NEW s, NEW n \in Nat, NEW m \in Nat, m <= n, Covered(s, n)
  PROVE  Covered(s, m)
BY DEF Covered

LEMMA CoveredAppend ==
  ASSUME NEW s \in Seq(1 .. MaxEvents), NEW n \in Nat, n + 1 \in 1 .. MaxEvents, Covered(s, n)
  PROVE  Covered(Append(s, n + 1), n + 1)
<1> SUFFICES ASSUME NEW e \in 1 .. n + 1
             PROVE  \E i \in DOMAIN Append(s, n + 1) : Append(s, n + 1)[i] = e
  BY DEF Covered
<1>1. CASE e = n + 1
  <2>1. Len(s) + 1 \in DOMAIN Append(s, n + 1) /\ Append(s, n + 1)[Len(s) + 1] = n + 1
    OBVIOUS
  <2> QED
    BY <1>1, <2>1
<1>2. CASE e \in 1 .. n
  <2>1. PICK i \in DOMAIN s : s[i] = e
    BY <1>2 DEF Covered
  <2>2. i \in DOMAIN Append(s, n + 1) /\ Append(s, n + 1)[i] = s[i]
    OBVIOUS
  <2> QED
    BY <2>1, <2>2
<1> QED
  BY <1>1, <1>2

\* What the types say of the values that the invariant speaks of.
LEMMA CallType ==
  ASSUME TypeOK, NEW k \in Key, call[k] # None
  PROVE  /\ call[k] \in Call /\ call[k].id \in 1 .. MaxCalls /\ call[k].leg \in Leg
         /\ call[k].snapshot \in Seq(1 .. MaxEvents) /\ call[k].cursor \in 0 .. MaxEvents
BY DEF TypeOK, Call

LEMMA WritesType ==
  ASSUME TypeOK, NEW w \in writes
  PROVE  /\ w.key \in Key /\ w.id \in 1 .. MaxCalls /\ w.leg \in Leg
         /\ w.leg = "state" => w.data \in Seq(1 .. MaxEvents)
         /\ w.leg = "cursor" => w.data \in 0 .. MaxEvents
BY DEF TypeOK, StateWrite, CursorWrite, Leg

LEMMA ClaimsType ==
  ASSUME TypeOK, NEW k \in Key
  PROVE  Claims(k) \subseteq 0 .. MaxEvents
<1>1. saved_cursor[k] \in 0 .. MaxEvents \cup {None}
  BY DEF TypeOK
<1> QED
  BY <1>1, WritesType DEF Claims

\* Claims of a key depend on its durable cursor and on the cursor writes alone.
LEMMA ClaimsFewer ==
  ASSUME NEW k \in Key, saved_cursor'[k] = saved_cursor[k],
         \A w \in writes' : w.leg = "cursor" /\ w.key = k => w \in writes
  PROVE  Claims(k)' \subseteq Claims(k)
BY DEF Claims

-----------------------------------------------------------------------------
(* Every step keeps the invariant. *)

LEMMA InitRecoveryInv == Init => RecoveryInv
<1> SUFFICES ASSUME Init PROVE RecoveryInv
  OBVIOUS
<1>1. TypeOK
  BY InitTypeOK
<1>2. \A k \in Key : Claims(k) = {}
  BY DEF Init, Claims
<1>3. NoEventLost
  BY DEF Init, NoEventLost, Covered
<1>4. DownIsIdle /\ IdsAreFresh /\ CallIsCovered /\ StateWriteHasCall /\ StateLegEnds
  BY DEF Init, DownIsIdle, IdsAreFresh, CallIsCovered, StateWriteHasCall, StateLegEnds
<1> QED
  BY <1>1, <1>2, <1>3, <1>4 DEF RecoveryInv, ClaimsAreCovered

LEMMA ProcessKeeps ==
  ASSUME RecoveryInv, TypeOK', NEW k \in Key, Process(k)
  PROVE  RecoveryInv'
<1> USE DEF RecoveryInv
<1>0. /\ up /\ position[k] < MaxEvents
      /\ position' = [position EXCEPT ![k] = @ + 1]
      /\ applied' = [applied EXCEPT ![k] = Append(@, position[k] + 1)]
      /\ UNCHANGED <<up, call, writes, saved_state, saved_cursor, calls>>
  BY DEF Process, storeVars
<1>1. position[k] \in 0 .. MaxEvents /\ position[k] + 1 \in 1 .. MaxEvents
      /\ applied[k] \in Seq(1 .. MaxEvents)
  BY <1>0, CheckpointAssumption DEF TypeOK
<1>2. \A j \in Key : position[j] \in Nat /\ position'[j] \in Nat /\ position[j] <= position'[j]
  BY <1>0 DEF TypeOK
<1>3. NoEventLost'
  <2>1. Covered(applied[k], position[k])
    BY <1>0 DEF NoEventLost
  <2>2. Covered(Append(applied[k], position[k] + 1), position[k] + 1)
    BY <1>1, <2>1, CoveredAppend
  <2>3. applied'[k] = Append(applied[k], position[k] + 1) /\ position'[k] = position[k] + 1
    BY <1>0 DEF TypeOK
  <2>4. \A j \in Key \ {k} : applied'[j] = applied[j] /\ position'[j] = position[j]
    BY <1>0 DEF TypeOK
  <2> QED
    BY <1>0, <2>2, <2>3, <2>4 DEF NoEventLost, Covered
<1>4. CallIsCovered'
  BY <1>0, <1>2, CallType DEF CallIsCovered, Covered
<1>5. ClaimsAreCovered'
  <2>1. \A j \in Key : Claims(j)' = Claims(j)
    BY <1>0 DEF Claims
  <2> QED
    BY <1>0, <1>2, <2>1, ClaimsType DEF ClaimsAreCovered, Covered
<1>6. DownIsIdle' /\ IdsAreFresh' /\ StateWriteHasCall'
  BY <1>0 DEF DownIsIdle, IdsAreFresh, StateWriteHasCall
<1>7. StateLegEnds'
  BY <1>0 DEF StateLegEnds, WriteOf
<1> QED
  BY <1>3, <1>4, <1>5, <1>6, <1>7

LEMMA CommitKeeps ==
  ASSUME RecoveryInv, TypeOK', NEW k \in Key, Commit(k)
  PROVE  RecoveryInv'
<1> USE DEF RecoveryInv
<1> DEFINE c == [id |-> calls + 1, leg |-> "state", snapshot |-> applied[k], cursor |-> position[k]]
           new == Write(k, "state", c)
<1>0. /\ up /\ call[k] = None /\ calls' = calls + 1 /\ calls \in Nat
      /\ call' = [call EXCEPT ![k] = c]
      /\ writes' = writes \cup {new}
      /\ UNCHANGED <<up, applied, position, saved_state, saved_cursor>>
  BY DEF Commit, storeVars, graphVars, TypeOK
<1>1. /\ c.id = calls + 1 /\ c.leg = "state" /\ c.snapshot = applied[k] /\ c.cursor = position[k]
      /\ new.key = k /\ new.id = c.id /\ new.leg = "state" /\ new.data = c.snapshot
  BY DEF Write
<1> HIDE DEF c, new
<1>2. call'[k] = c /\ \A j \in Key \ {k} : call'[j] = call[j]
  BY <1>0 DEF TypeOK
<1>3. NoEventLost' /\ DownIsIdle'
  BY <1>0 DEF NoEventLost, DownIsIdle, Covered
<1>4. IdsAreFresh'
  BY <1>0, <1>1, <1>2, CallType DEF IdsAreFresh
<1>5. CallIsCovered'
  <2>1. Covered(c.snapshot, c.cursor) /\ c.cursor <= position'[k]
    BY <1>0, <1>1 DEF NoEventLost, TypeOK
  <2> QED
    BY <1>0, <1>2, <2>1 DEF CallIsCovered, Covered
<1>6. StateWriteHasCall'
  <2> SUFFICES ASSUME NEW w \in writes', w.leg = "state"
               PROVE  /\ call'[w.key] # None /\ call'[w.key].id = w.id
                      /\ call'[w.key].leg = "state" /\ call'[w.key].snapshot = w.data
    BY DEF StateWriteHasCall
  <2>1. CASE w = new
    <3>1. c # None
      BY <1>2, <1>0, CheckpointAssumption DEF c, Commit, TypeOK, Call, Leg
    <3> QED
      BY <1>1, <1>2, <2>1, <3>1
  <2>2. CASE w \in writes
    BY <1>0, <1>2, <2>2, WritesType DEF StateWriteHasCall
  <2> QED
    BY <1>0, <2>1, <2>2
<1>7. StateLegEnds'
  <2>1. new \in WriteOf(k)'
    BY <1>0, <1>1, <1>2 DEF WriteOf
  <2>2. \A j \in Key \ {k} : WriteOf(j) \subseteq WriteOf(j)'
    BY <1>0, <1>2 DEF WriteOf
  <2> QED
    BY <1>0, <1>2, <2>1, <2>2 DEF StateLegEnds
<1>8. ClaimsAreCovered'
  <2>1. \A j \in Key : Claims(j)' = Claims(j)
    BY <1>0, <1>1 DEF Claims
  <2> QED
    BY <1>0, <1>1, <1>2, <2>1 DEF ClaimsAreCovered, Covered
<1> QED
  BY <1>3, <1>4, <1>5, <1>6, <1>7, <1>8

\* A commit that returns, with success or without, leaves the graph and what is
\* durable alone; what it leaves outstanding is not a write of its snapshot.
LEMMA ReturnKeeps ==
  ASSUME RecoveryInv, TypeOK', NEW k \in Key, Committing(k),
         call' = [call EXCEPT ![k] = None],
         UNCHANGED <<up, applied, position, saved_state, saved_cursor, calls>>,
         writes' \subseteq writes,
         \A w \in writes \ writes' : w.id = call[k].id,
         \A w \in writes' : w.leg = "state" => w.key # k
  PROVE  RecoveryInv'
<1> USE DEF RecoveryInv
<1>1. call'[k] = None /\ \A j \in Key \ {k} : call'[j] = call[j]
  BY DEF TypeOK
<1>2. NoEventLost' /\ DownIsIdle'
  BY DEF NoEventLost, DownIsIdle, Covered, Committing
<1>3. IdsAreFresh'
  BY <1>1 DEF IdsAreFresh
<1>4. CallIsCovered'
  BY <1>1 DEF CallIsCovered, Covered
<1>5. StateWriteHasCall'
  BY <1>1, WritesType DEF StateWriteHasCall
<1>6. StateLegEnds'
  <2> SUFFICES ASSUME NEW j \in Key, call'[j] # None, call'[j].leg = "state", WriteOf(j)' = {}
               PROVE  saved_state'[j] = call'[j].snapshot
    BY DEF StateLegEnds
  <2>1. j # k /\ call'[j] = call[j]
    BY <1>1
  <2>2. WriteOf(j) = {}
    <3> SUFFICES ASSUME NEW w \in WriteOf(j) PROVE FALSE
      OBVIOUS
    <3>1. w \in writes /\ w.id = call[j].id /\ w \notin writes'
      BY <2>1 DEF WriteOf
    <3>2. call[k].id = call[j].id /\ call[k] # None /\ call[j] # None
      BY <2>1, <3>1 DEF Committing
    <3> QED
      BY <2>1, <3>2 DEF IdsAreFresh
  <2> QED
    BY <2>1, <2>2 DEF StateLegEnds
<1>7. ClaimsAreCovered'
  <2>1. \A j \in Key : Claims(j)' \subseteq Claims(j)
    BY ClaimsFewer
  <2> QED
    BY <1>1, <2>1 DEF ClaimsAreCovered, Covered
<1> QED
  BY <1>2, <1>3, <1>4, <1>5, <1>6, <1>7

LEMMA NoStateWriteOfCursorLeg ==
  ASSUME RecoveryInv, NEW k \in Key, call[k].leg = "cursor" \/ WriteOf(k) = {},
         NEW w \in writes, w.leg = "state"
  PROVE  w.key # k
<1> SUFFICES ASSUME w.key = k PROVE FALSE
  OBVIOUS
<1>1. call[k].id = w.id /\ call[k].leg = "state"
  BY DEF RecoveryInv, StateWriteHasCall
<1> QED
  BY <1>1 DEF WriteOf

LEMMA StateSavedKeeps ==
  ASSUME RecoveryInv, TypeOK', NEW k \in Key, StateSaved(k)
  PROVE  RecoveryInv'
<1> USE DEF RecoveryInv
<1> DEFINE new == Write(k, "cursor", call[k])
<1>0. /\ up /\ call[k] # None /\ call[k].leg = "state" /\ WriteOf(k) = {}
      /\ call' = [call EXCEPT ![k].leg = "cursor"]
      /\ writes' = writes \cup {new}
      /\ UNCHANGED <<up, applied, position, saved_state, saved_cursor, calls>>
  BY DEF StateSaved, Committing, storeVars, graphVars
<1>1. new.key = k /\ new.id = call[k].id /\ new.leg = "cursor" /\ new.data = call[k].cursor
  BY DEF Write
<1> HIDE DEF new
<1>2. /\ call'[k].id = call[k].id /\ call'[k].leg = "cursor"
      /\ call'[k].snapshot = call[k].snapshot /\ call'[k].cursor = call[k].cursor
  <2>1. call[k] \in Call
    BY <1>0, CallType
  <2> QED
    BY <1>0, <2>1 DEF TypeOK, Call
<1>3. \A j \in Key \ {k} : call'[j] = call[j]
  BY <1>0 DEF TypeOK
<1>4. NoEventLost' /\ DownIsIdle'
  BY <1>0 DEF NoEventLost, DownIsIdle, Covered
<1>5. IdsAreFresh'
  BY <1>0, <1>2, <1>3 DEF IdsAreFresh
<1>6. CallIsCovered'
  BY <1>0, <1>2, <1>3 DEF CallIsCovered, Covered
<1>7. StateWriteHasCall'
  BY <1>0, <1>1, <1>3, NoStateWriteOfCursorLeg, WritesType DEF StateWriteHasCall
<1>8. StateLegEnds'
  <2>1. \A j \in Key \ {k} : WriteOf(j) \subseteq WriteOf(j)'
    BY <1>0, <1>3 DEF WriteOf
  <2> QED
    BY <1>0, <1>2, <1>3, <2>1 DEF StateLegEnds
<1>9. ClaimsAreCovered'
  <2>1. saved_state[k] = call[k].snapshot
    BY <1>0 DEF StateLegEnds
  <2>2. saved_state[k] # None
    BY <1>0, <2>1, CallType, CheckpointAssumption
  <2>3. \A j \in Key \ {k} : Claims(j)' = Claims(j)
    BY <1>0, <1>1 DEF Claims
  <2>4. Claims(k)' = Claims(k) \cup {call[k].cursor}
    BY <1>0, <1>1 DEF Claims
  <2>5. \A c \in Claims(k)' : /\ Covered(saved_state[k], c)
                              /\ c <= position[k] /\ c <= call[k].cursor
    <3>1. call[k].cursor <= call[k].cursor
      BY <1>0, CallType
    <3> QED
      BY <1>0, <2>1, <2>4, <3>1 DEF CallIsCovered, ClaimsAreCovered
  <2> QED
    BY <1>0, <1>2, <1>3, <2>2, <2>3, <2>5 DEF ClaimsAreCovered, Covered
<1> QED
  BY <1>4, <1>5, <1>6, <1>7, <1>8, <1>9

LEMMA CursorSavedKeeps ==
  ASSUME RecoveryInv, TypeOK', NEW k \in Key, CursorSaved(k)
  PROVE  RecoveryInv'
<1>1. \A w \in writes : w.leg = "state" => w.key # k
  BY NoStateWriteOfCursorLeg DEF CursorSaved
<1> QED
  BY <1>1, ReturnKeeps DEF CursorSaved, storeVars, graphVars

LEMMA StoreFailsKeeps ==
  ASSUME RecoveryInv, TypeOK', NEW k \in Key, StoreFails(k)
  PROVE  RecoveryInv'
<1>1. writes' = writes \ WriteOf(k)
  BY DEF StoreFails
<1>2. \A w \in writes' : w.leg = "state" => w.key # k
  BY <1>1 DEF RecoveryInv, StateWriteHasCall, WriteOf
<1>3. \A w \in writes \ writes' : w.id = call[k].id
  BY <1>1 DEF WriteOf
<1> QED
  BY <1>1, <1>2, <1>3, ReturnKeeps DEF StoreFails, Fail, storeVars, graphVars

LEMMA TimeoutKeeps ==
  ASSUME RecoveryInv, TypeOK', NEW k \in Key, Timeout(k), "state" \notin Surviving
  PROVE  RecoveryInv'
<1>1. writes' = IF call[k].leg \in Surviving THEN writes ELSE writes \ WriteOf(k)
  BY DEF Timeout
<1>2. \A w \in writes' : w.leg = "state" => w.key # k
  BY <1>1 DEF RecoveryInv, StateWriteHasCall, WriteOf
<1>3. \A w \in writes \ writes' : w.id = call[k].id
  BY <1>1 DEF WriteOf
<1> QED
  BY <1>1, <1>2, <1>3, ReturnKeeps DEF Timeout, Fail, storeVars, graphVars

\* A snapshot that lands belongs to a commit in its state leg, and so covers
\* every cursor that is durable or may become so.
LEMMA SnapshotLandsKeeps ==
  ASSUME RecoveryInv, TypeOK', NEW w \in writes, w.leg = "state", up,
         writes' = writes \ {w},
         saved_state' = [saved_state EXCEPT ![w.key] = w.data],
         UNCHANGED <<up, applied, position, call, saved_cursor, calls>>
  PROVE  RecoveryInv'
<1> USE DEF RecoveryInv
<1>1. /\ w.key \in Key /\ w.data \in Seq(1 .. MaxEvents)
      /\ call[w.key] # None
      /\ call[w.key].id = w.id /\ call[w.key].leg = "state" /\ call[w.key].snapshot = w.data
  BY WritesType DEF StateWriteHasCall
<1>2. saved_state'[w.key] = w.data /\ \A j \in Key \ {w.key} : saved_state'[j] = saved_state[j]
  BY <1>1 DEF TypeOK
<1>3. NoEventLost' /\ DownIsIdle' /\ IdsAreFresh' /\ StateWriteHasCall'
  BY DEF NoEventLost, Covered, DownIsIdle, IdsAreFresh, StateWriteHasCall
<1>4. CallIsCovered'
  BY DEF CallIsCovered, Covered
<1>5. StateLegEnds'
  <2> SUFFICES ASSUME NEW j \in Key, j # w.key, call[j] # None, call[j].leg = "state",
                      WriteOf(j)' = {}
               PROVE  saved_state[j] = call[j].snapshot
    BY <1>1, <1>2 DEF StateLegEnds
  <2>1. w \notin WriteOf(j)
    BY <1>1 DEF WriteOf, IdsAreFresh
  <2>2. WriteOf(j) = {}
    BY <2>1 DEF WriteOf
  <2> QED
    BY <2>2 DEF StateLegEnds
<1>6. ClaimsAreCovered'
  <2>1. \A j \in Key : Claims(j)' \subseteq Claims(j)
    BY ClaimsFewer
  <2>2. w.data # None
    BY <1>1, CheckpointAssumption
  <2>3. \A c \in Claims(w.key) : Covered(w.data, c)
    <3> TAKE c \in Claims(w.key)
    <3>1. c <= call[w.key].cursor /\ Covered(w.data, call[w.key].cursor)
      BY <1>1 DEF ClaimsAreCovered, CallIsCovered
    <3>2. c \in Nat /\ call[w.key].cursor \in Nat
      BY <1>1, ClaimsType, CallType, CheckpointAssumption
    <3> QED
      BY <3>1, <3>2, CoveredLess
  <2> QED
    BY <1>1, <1>2, <2>1, <2>2, <2>3 DEF ClaimsAreCovered, Covered
<1> QED
  BY <1>3, <1>4, <1>5, <1>6

\* A cursor that lands was claimed before.
LEMMA CursorLandsKeeps ==
  ASSUME RecoveryInv, TypeOK', NEW w \in writes, w.leg = "cursor", up,
         writes' = writes \ {w},
         saved_cursor' = [saved_cursor EXCEPT ![w.key] = w.data],
         UNCHANGED <<up, applied, position, call, saved_state, calls>>
  PROVE  RecoveryInv'
<1> USE DEF RecoveryInv
<1>1. w.key \in Key /\ saved_cursor'[w.key] = w.data
      /\ \A j \in Key \ {w.key} : saved_cursor'[j] = saved_cursor[j]
  BY WritesType DEF TypeOK
<1>2. NoEventLost' /\ DownIsIdle' /\ IdsAreFresh' /\ StateWriteHasCall'
  BY DEF NoEventLost, Covered, DownIsIdle, IdsAreFresh, StateWriteHasCall
<1>3. CallIsCovered'
  BY DEF CallIsCovered, Covered
<1>4. StateLegEnds'
  <2>1. \A j \in Key : call[j].leg = "state" => WriteOf(j)' = WriteOf(j)
    BY DEF WriteOf
  <2> QED
    BY <2>1 DEF StateLegEnds
<1>5. ClaimsAreCovered'
  <2>1. \A j \in Key : Claims(j)' \subseteq Claims(j)
    BY <1>1 DEF Claims
  <2> QED
    BY <2>1 DEF ClaimsAreCovered, Covered
<1> QED
  BY <1>2, <1>3, <1>4, <1>5

LEMMA WriteLandsKeeps ==
  ASSUME RecoveryInv, TypeOK', WriteLands
  PROVE  RecoveryInv'
<1>1. PICK w \in writes :
        /\ writes' = writes \ {w}
        /\ IF w.leg = "state"
           THEN saved_state' = [saved_state EXCEPT ![w.key] = w.data] /\ UNCHANGED saved_cursor
           ELSE saved_cursor' = [saved_cursor EXCEPT ![w.key] = w.data] /\ UNCHANGED saved_state
  BY DEF WriteLands
<1>2. up /\ UNCHANGED <<up, applied, position, call, calls>>
  BY DEF WriteLands, graphVars
<1>3. w.leg \in Leg
  BY WritesType DEF RecoveryInv
<1>4. CASE w.leg = "state"
  BY <1>1, <1>2, <1>4, SnapshotLandsKeeps
<1>5. CASE w.leg = "cursor"
  BY <1>1, <1>2, <1>5, CursorLandsKeeps
<1> QED
  BY <1>3, <1>4, <1>5 DEF Leg

LEMMA CrashKeeps ==
  ASSUME RecoveryInv, TypeOK', Crash
  PROVE  RecoveryInv'
<1> USE DEF RecoveryInv
<1>0. /\ up' = FALSE /\ writes' = {} /\ call' = [k \in Key |-> None]
      /\ UNCHANGED <<applied, position, saved_state, saved_cursor, calls>>
  BY DEF Crash, graphVars, storeVars
<1>1. NoEventLost' /\ DownIsIdle'
  BY <1>0 DEF NoEventLost, DownIsIdle
<1>2. IdsAreFresh' /\ CallIsCovered' /\ StateWriteHasCall' /\ StateLegEnds'
  BY <1>0 DEF IdsAreFresh, CallIsCovered, StateWriteHasCall, StateLegEnds
<1>3. ClaimsAreCovered'
  <2>1. \A j \in Key : Claims(j)' \subseteq Claims(j)
    BY <1>0, ClaimsFewer
  <2> QED
    BY <1>0, <2>1 DEF ClaimsAreCovered, Covered
<1> QED
  BY <1>1, <1>2, <1>3

LEMMA RestartKeeps ==
  ASSUME RecoveryInv, TypeOK', Restart
  PROVE  RecoveryInv'
<1> USE DEF RecoveryInv
<1>0. /\ ~up /\ up' = TRUE
      /\ applied' = [k \in Key |-> IF saved_state[k] = None THEN <<>> ELSE saved_state[k]]
      /\ position' = [k \in Key |-> IF saved_cursor[k] = None THEN 0 ELSE saved_cursor[k]]
      /\ UNCHANGED <<call, writes, saved_state, saved_cursor, calls>>
  BY DEF Restart, storeVars
<1>1. writes' = {} /\ \A k \in Key : call'[k] = None
  BY <1>0 DEF DownIsIdle
<1>2. \A k \in Key : /\ Claims(k)' = Claims(k)
                     /\ saved_cursor[k] # None => saved_cursor[k] \in Claims(k)
  BY <1>0 DEF Claims
<1>3. NoEventLost'
  <2> SUFFICES ASSUME NEW k \in Key PROVE Covered(applied'[k], position'[k])
    BY DEF NoEventLost, Covered
  <2>1. CASE saved_cursor[k] = None
    BY <1>0, <2>1 DEF Covered
  <2>2. CASE saved_cursor[k] # None
    <3>1. saved_state[k] # None /\ Covered(saved_state[k], saved_cursor[k])
      BY <1>2, <2>2 DEF ClaimsAreCovered
    <3> QED
      BY <1>0, <2>2, <3>1
  <2> QED
    BY <2>1, <2>2
<1>4. DownIsIdle' /\ IdsAreFresh' /\ CallIsCovered' /\ StateWriteHasCall' /\ StateLegEnds'
  BY <1>0, <1>1 DEF DownIsIdle, IdsAreFresh, CallIsCovered, StateWriteHasCall, StateLegEnds
<1>5. ClaimsAreCovered'
  <2>1. \A k \in Key : \A c \in Claims(k) : c = saved_cursor[k] /\ c # None
    BY <1>0, <1>1 DEF Claims
  <2>2. \A k \in Key : \A c \in Claims(k) : c <= position'[k]
    BY <1>0, <2>1, ClaimsType
  <2> QED
    BY <1>0, <1>1, <1>2, <2>2 DEF ClaimsAreCovered, Covered
<1> QED
  BY <1>3, <1>4, <1>5

LEMMA RecoveryInvStutters ==
  ASSUME RecoveryInv, TypeOK',
         UNCHANGED <<up, applied, position, call, writes, saved_state, saved_cursor, calls>>
  PROVE  RecoveryInv'
<1> USE DEF RecoveryInv
<1>1. NoEventLost' /\ DownIsIdle' /\ IdsAreFresh' /\ CallIsCovered' /\ StateWriteHasCall'
  BY DEF NoEventLost, DownIsIdle, IdsAreFresh, CallIsCovered, StateWriteHasCall, Covered
<1>2. StateLegEnds'
  BY DEF StateLegEnds, WriteOf
<1>3. ClaimsAreCovered'
  <2>1. \A k \in Key : Claims(k)' = Claims(k)
    BY DEF Claims
  <2> QED
    BY <2>1 DEF ClaimsAreCovered, Covered
<1> QED
  BY <1>1, <1>2, <1>3

LEMMA NextRecoveryInv ==
  ASSUME RecoveryInv, Next, "state" \notin Surviving
  PROVE  RecoveryInv'
<1>1. TypeOK'
  BY NextTypeOK DEF RecoveryInv
<1>2. ASSUME NEW k \in Key,
             \/ Process(k) \/ Commit(k) \/ StateSaved(k) \/ CursorSaved(k)
             \/ StoreFails(k) \/ Timeout(k)
      PROVE  RecoveryInv'
  BY <1>1, <1>2, ProcessKeeps, CommitKeeps, StateSavedKeeps, CursorSavedKeeps, StoreFailsKeeps,
     TimeoutKeeps
<1>3. CASE ResetCircuit
  BY <1>1, <1>3, RecoveryInvStutters DEF ResetCircuit, storeVars, graphVars
<1> QED
  BY <1>1, <1>2, <1>3, WriteLandsKeeps, CrashKeeps, RestartKeeps DEF Next

LEMMA UnchangedRecoveryInv ==
  ASSUME RecoveryInv, UNCHANGED vars
  PROVE  RecoveryInv'
<1>1. TypeOK'
  BY DEF RecoveryInv, TypeOK, vars, graphVars, storeVars, counterVars
<1> QED
  BY <1>1, RecoveryInvStutters DEF vars, graphVars, storeVars

LEMMA RecoveryInvSuffices ==
  ASSUME RecoveryInv
  PROVE  CursorNeverAheadOfState /\ NoEventLost
<1>1. ASSUME NEW k \in Key, saved_cursor[k] # None PROVE saved_cursor[k] \in Claims(k)
  BY <1>1 DEF Claims
<1> QED
  BY <1>1 DEF RecoveryInv, CursorNeverAheadOfState, ClaimsAreCovered

LEMMA RecoveryInvHolds ==
  ASSUME "state" \notin Surviving
  PROVE  Spec => []RecoveryInv
<1>1. RecoveryInv /\ [Next]_vars => RecoveryInv'
  BY NextRecoveryInv, UnchangedRecoveryInv
<1> QED
  BY InitRecoveryInv, <1>1, PTL DEF Spec

\* Unless the write of a snapshot outlives its deadline, the durable cursor never
\* claims an event that the durable snapshot does not hold: commit's order of its
\* two legs is enough for recovery, whatever fails and whenever it crashes.
THEOREM RecoveryIsSound ==
  ASSUME "state" \notin Surviving
  PROVE  Spec => []CursorNeverAheadOfState
<1>1. RecoveryInv => CursorNeverAheadOfState
  BY RecoveryInvSuffices
<1> QED
  BY RecoveryInvHolds, <1>1, PTL

\* With the same stores no event before the position of a running graph is missing
\* from its state, through any number of failed commits, crashes and restarts.
THEOREM ProcessingIsAtLeastOnce ==
  ASSUME "state" \notin Surviving
  PROVE  Spec => []NoEventLost
<1>1. RecoveryInv => NoEventLost
  BY RecoveryInvSuffices
<1> QED
  BY RecoveryInvHolds, <1>1, PTL

-----------------------------------------------------------------------------
(* Progress is kept, when no write outlives its deadline. *)

CursorWriteHasCall ==
  \A w \in writes : w.leg = "cursor" =>
    /\ call[w.key] # None
    /\ call[w.key].id = w.id /\ call[w.key].leg = "cursor" /\ call[w.key].cursor = w.data

LEMMA NextCursorWriteHasCall ==
  ASSUME RecoveryInv, CursorWriteHasCall, [Next]_vars, Surviving = {}
  PROVE  CursorWriteHasCall'
<1> USE DEF RecoveryInv
<1>1. ASSUME NEW k \in Key, Process(k) PROVE CursorWriteHasCall'
  BY <1>1 DEF Process, CursorWriteHasCall
<1>2. ASSUME NEW k \in Key, Commit(k) PROVE CursorWriteHasCall'
  <2>1. call[k] = None /\ \A j \in Key \ {k} : call'[j] = call[j]
    BY <1>2 DEF Commit, TypeOK
  <2>2. \A w \in writes' : w.leg = "cursor" => w \in writes
    BY <1>2 DEF Commit, Write
  <2> QED
    BY <2>1, <2>2, WritesType DEF CursorWriteHasCall
<1>3. ASSUME NEW k \in Key, StateSaved(k) PROVE CursorWriteHasCall'
  <2> DEFINE new == Write(k, "cursor", call[k])
  <2>0. call[k] # None /\ call[k].leg = "state" /\ writes' = writes \cup {new}
    BY <1>3 DEF StateSaved, Committing
  <2>1. new.key = k /\ new.id = call[k].id /\ new.data = call[k].cursor
    BY DEF Write
  <2> HIDE DEF new
  <2>2. call[k] \in Call
    BY <2>0, CallType
  <2>3. /\ call'[k] = [call[k] EXCEPT !.leg = "cursor"]
        /\ \A j \in Key \ {k} : call'[j] = call[j]
    BY <1>3 DEF StateSaved, TypeOK
  <2>4. [call[k] EXCEPT !.leg = "cursor"] \in Call
    BY <2>2 DEF Call, Leg
  <2>5. /\ call'[k] # None /\ call'[k].id = call[k].id /\ call'[k].leg = "cursor"
        /\ call'[k].cursor = call[k].cursor
    <3>1. call'[k] # None
      BY <2>3, <2>4, CheckpointAssumption
    <3>2. call'[k].id = call[k].id /\ call'[k].leg = "cursor" /\ call'[k].cursor = call[k].cursor
      BY <2>2, <2>3 DEF Call
    <3> QED
      BY <3>1, <3>2
  <2>6. \A w \in writes : w.leg = "cursor" => w.key # k
    BY <2>0 DEF CursorWriteHasCall
  <2> SUFFICES ASSUME NEW w \in writes', w.leg = "cursor"
               PROVE  /\ call'[w.key] # None /\ call'[w.key].id = w.id
                      /\ call'[w.key].leg = "cursor" /\ call'[w.key].cursor = w.data
    BY DEF CursorWriteHasCall
  <2>7. CASE w = new
    BY <2>1, <2>5, <2>7
  <2>8. CASE w \in writes
    <3>1. w.key \in Key \ {k}
      BY <2>6, <2>8, WritesType
    <3> QED
      BY <2>3, <2>8, <3>1 DEF CursorWriteHasCall
  <2> QED
    BY <2>0, <2>7, <2>8
<1>4. ASSUME NEW k \in Key, Committing(k), call' = [call EXCEPT ![k] = None],
             writes' \subseteq writes, writes' \cap WriteOf(k) = {}
      PROVE  CursorWriteHasCall'
  <2>1. \A j \in Key \ {k} : call'[j] = call[j]
    BY <1>4 DEF TypeOK
  <2>2. \A w \in writes' : w.leg = "cursor" => w.key # k
    BY <1>4 DEF CursorWriteHasCall, WriteOf
  <2> QED
    BY <1>4, <2>1, <2>2, WritesType DEF CursorWriteHasCall
<1>5. ASSUME NEW k \in Key, CursorSaved(k) PROVE CursorWriteHasCall'
  BY <1>4, <1>5 DEF CursorSaved
<1>6. ASSUME NEW k \in Key, StoreFails(k) PROVE CursorWriteHasCall'
  BY <1>4, <1>6 DEF StoreFails, Fail
<1>7. ASSUME NEW k \in Key, Timeout(k) PROVE CursorWriteHasCall'
  BY <1>4, <1>7 DEF Timeout, Fail
<1>8. CASE WriteLands
  BY <1>8 DEF WriteLands, CursorWriteHasCall
<1>9. CASE ResetCircuit
  BY <1>9 DEF ResetCircuit, CursorWriteHasCall
<1>10. CASE Crash
  BY <1>10 DEF Crash, CursorWriteHasCall
<1>11. CASE Restart
  BY <1>11 DEF Restart, CursorWriteHasCall
<1>12. CASE UNCHANGED vars
  BY <1>12 DEF vars, CursorWriteHasCall
<1> QED
  BY <1>1, <1>2, <1>3, <1>5, <1>6, <1>7, <1>8, <1>9, <1>10, <1>11, <1>12 DEF Next

LEMMA CursorAdvances ==
  ASSUME RecoveryInv, CursorWriteHasCall, [Next]_vars,
         NEW k \in Key, saved_cursor[k] # None
  PROVE  saved_cursor'[k] # None /\ saved_cursor[k] <= saved_cursor'[k]
<1> USE DEF RecoveryInv
<1>0. saved_cursor[k] \in Claims(k) /\ saved_cursor[k] \in 0 .. MaxEvents
  BY ClaimsType DEF Claims
<1>1. CASE WriteLands
  <2>1. PICK w \in writes :
          IF w.leg = "state"
          THEN UNCHANGED saved_cursor
          ELSE saved_cursor' = [saved_cursor EXCEPT ![w.key] = w.data]
    BY <1>1 DEF WriteLands
  <2>2. CASE w.leg = "cursor" /\ w.key = k
    <3>1. call[k] # None /\ call[k].cursor = w.data
      BY <2>2 DEF CursorWriteHasCall
    <3>2. saved_cursor'[k] = w.data /\ w.data \in 0 .. MaxEvents
      BY <2>1, <2>2, WritesType DEF TypeOK
    <3>3. saved_cursor[k] <= w.data
      BY <1>0, <3>1 DEF ClaimsAreCovered
    <3> QED
      BY <3>2, <3>3, CheckpointAssumption
  <2>3. CASE ~(w.leg = "cursor" /\ w.key = k)
    <3>1. saved_cursor'[k] = saved_cursor[k]
      BY <2>1, <2>3, WritesType DEF TypeOK, Leg
    <3> QED
      BY <1>0, <3>1
  <2> QED
    BY <2>2, <2>3
<1>2. CASE UNCHANGED saved_cursor
  BY <1>0, <1>2
<1>3. WriteLands \/ UNCHANGED saved_cursor
  BY DEF Next, vars, storeVars, Process, Commit, StateSaved, CursorSaved, StoreFails, Timeout,
         Fail, ResetCircuit, Crash, Restart
<1> QED
  BY <1>1, <1>2, <1>3

\* If no write outlives its deadline, the durable cursor never goes back: neither
\* a failed commit nor a crash undoes the progress that commit has reported.
THEOREM ProgressIsKept ==
  ASSUME Surviving = {}
  PROVE  Spec => DurableProgressIsKept
<1> DEFINE I == RecoveryInv /\ CursorWriteHasCall
<1>1. Init => I
  BY InitRecoveryInv DEF Init, CursorWriteHasCall
<1>2. I /\ [Next]_vars => I'
  BY NextRecoveryInv, UnchangedRecoveryInv, NextCursorWriteHasCall
<1>3. I /\ [Next]_vars =>
        [\A k \in Key : saved_cursor[k] # None =>
           saved_cursor'[k] # None /\ saved_cursor[k] <= saved_cursor'[k]]_saved_cursor
  BY CursorAdvances
<1> QED
  BY <1>1, <1>2, <1>3, PTL DEF Spec, DurableProgressIsKept

-----------------------------------------------------------------------------
(* The breaker and the counters, whatever becomes of the writes. *)

Running == {k \in Key : call[k] # None}

BreakerInv ==
  /\ TypeOK
  /\ ~up \/ circuit_threshold = 0 => Running = {}
  /\ BreakerLimitsFailures

LEMMA RunningIsFinite ==
  ASSUME NEW S, S \subseteq Key
  PROVE  IsFiniteSet(S) /\ Cardinality(S) \in Nat /\ Cardinality(S) <= Cardinality(Key)
BY FS_Subset, FS_CardinalityType, CheckpointAssumption

LEMMA KeyIsCounted == Cardinality(Key) \in Nat /\ Cardinality(Key) >= 1
BY FS_EmptySet, FS_CardinalityType, CheckpointAssumption

\* A commit that returns leaves one less running.
LEMMA RunningAfterReturn ==
  ASSUME TypeOK, NEW k \in Key, Committing(k), call' = [call EXCEPT ![k] = None]
  PROVE  Running' = Running \ {k} /\ Cardinality(Running') = Cardinality(Running) - 1
<1>1. k \in Running /\ Running' = Running \ {k}
  BY DEF TypeOK, Running, Committing
<1>2. IsFiniteSet(Running)
  BY RunningIsFinite DEF Running
<1> QED
  BY <1>1, <1>2, FS_RemoveElement

LEMMA NextBreakerInv ==
  ASSUME BreakerInv, [Next]_vars
  PROVE  BreakerInv'
<1> USE CheckpointAssumption, KeyIsCounted
<1>0. /\ TypeOK /\ TypeOK'
      /\ consecutive_failures \in Nat /\ consecutive_failures' \in Nat
      /\ ~up \/ circuit_threshold = 0 => Running = {}
      /\ consecutive_failures + Cardinality(Running) <= circuit_threshold + Cardinality(Key) - 1
  <2>1. TypeOK'
    BY NextTypeOK DEF BreakerInv, TypeOK, vars, graphVars, storeVars, counterVars
  <2> QED
    BY <2>1 DEF BreakerInv, BreakerLimitsFailures, Running, TypeOK
<1>1. /\ Cardinality(Running) \in Nat /\ Cardinality(Running') \in Nat
      /\ Cardinality(Running) <= Cardinality(Key) /\ Cardinality(Running') <= Cardinality(Key)
  BY RunningIsFinite DEF Running
<1> SUFFICES /\ ~up' \/ circuit_threshold = 0 => Running' = {}
             /\ consecutive_failures' + Cardinality(Running')
                  <= circuit_threshold + Cardinality(Key) - 1
  BY <1>0 DEF BreakerInv, BreakerLimitsFailures, Running
<1>2. ASSUME UNCHANGED <<up, call, consecutive_failures>>
      PROVE  /\ ~up' \/ circuit_threshold = 0 => Running' = {}
             /\ consecutive_failures' + Cardinality(Running')
                  <= circuit_threshold + Cardinality(Key) - 1
  <2>1. Running' = Running
    BY <1>2 DEF Running
  <2> QED
    BY <1>0, <1>2, <2>1
<1>3. ASSUME NEW k \in Key, Process(k) PROVE UNCHANGED <<up, call, consecutive_failures>>
  BY <1>3 DEF Process, counterVars
<1>4. ASSUME NEW k \in Key, Commit(k)
      PROVE  /\ ~up' \/ circuit_threshold = 0 => Running' = {}
             /\ consecutive_failures' + Cardinality(Running')
                  <= circuit_threshold + Cardinality(Key) - 1
  <2>1. up' /\ consecutive_failures' = consecutive_failures
        /\ consecutive_failures + 1 <= circuit_threshold
    BY <1>0, <1>4 DEF Commit, counterVars
  <2> QED
    BY <1>0, <1>1, <2>1
<1>5. ASSUME NEW k \in Key, StateSaved(k)
      PROVE  Running' \subseteq Running \cup {k} /\ k \in Running
             /\ UNCHANGED <<up, consecutive_failures>>
  BY <1>0, <1>5 DEF StateSaved, Committing, Running, counterVars, TypeOK
<1>6. ASSUME NEW k \in Key, StateSaved(k)
      PROVE  /\ ~up' \/ circuit_threshold = 0 => Running' = {}
             /\ consecutive_failures' + Cardinality(Running')
                  <= circuit_threshold + Cardinality(Key) - 1
  <2>1. Running' \subseteq Running
    BY <1>5, <1>6
  <2>2. Cardinality(Running') <= Cardinality(Running)
    BY <2>1, FS_Subset, RunningIsFinite DEF Running
  <2> QED
    BY <1>0, <1>1, <1>5, <1>6, <2>1, <2>2
<1>7. ASSUME NEW k \in Key, Committing(k), call' = [call EXCEPT ![k] = None], UNCHANGED up,
             consecutive_failures' \in {0, consecutive_failures + 1}
      PROVE  /\ ~up' \/ circuit_threshold = 0 => Running' = {}
             /\ consecutive_failures' + Cardinality(Running')
                  <= circuit_threshold + Cardinality(Key) - 1
  <2>1. Running' = Running \ {k} /\ Cardinality(Running') = Cardinality(Running) - 1
    BY <1>0, <1>7, RunningAfterReturn
  <2> QED
    BY <1>0, <1>1, <1>7, <2>1
<1>8. ASSUME NEW k \in Key, CursorSaved(k) \/ StoreFails(k) \/ Timeout(k)
      PROVE  /\ Committing(k) /\ call' = [call EXCEPT ![k] = None] /\ UNCHANGED up
             /\ consecutive_failures' \in {0, consecutive_failures + 1}
  BY <1>8 DEF CursorSaved, StoreFails, Timeout, Fail
<1>9. CASE WriteLands
  BY <1>2, <1>9 DEF WriteLands, counterVars
<1>10. CASE ResetCircuit
  <2>1. Running' = Running /\ up' = up /\ consecutive_failures' = 0
    BY <1>10 DEF ResetCircuit, Running
  <2>2. CASE circuit_threshold = 0
    <3>1. Running' = {}
      BY <1>0, <2>1, <2>2
    <3>2. Cardinality(Running') = 0
      BY <3>1, FS_EmptySet
    <3> QED
      BY <2>1, <2>2, <3>1, <3>2
  <2>3. CASE circuit_threshold # 0
    BY <1>0, <1>1, <2>1, <2>3
  <2> QED
    BY <2>2, <2>3
<1>11. CASE Crash
  <2>1. Running' = {} /\ consecutive_failures' = consecutive_failures
    BY <1>11 DEF Crash, Running, counterVars
  <2> QED
    BY <1>0, <1>1, <2>1, FS_EmptySet
<1>12. CASE Restart
  <2>1. Running' = {} /\ consecutive_failures' = 0
    BY <1>0, <1>12 DEF Restart, Running
  <2> QED
    BY <2>1, FS_EmptySet
<1>13. CASE UNCHANGED vars
  BY <1>2, <1>13 DEF vars, counterVars
<1> QED
  BY <1>2, <1>3, <1>4, <1>6, <1>7, <1>8, <1>9, <1>10, <1>11, <1>12, <1>13 DEF Next

\* The breaker, which all keys share and whose counter is read before the writes
\* and changed after them, lets through at most one failure more than its
\* threshold for each other key that was already committing.
THEOREM BreakerHolds == Spec => []BreakerLimitsFailures
<1>1. Init => BreakerInv
  <2> SUFFICES ASSUME Init PROVE BreakerInv
    OBVIOUS
  <2>1. Running = {} /\ consecutive_failures = 0
    BY DEF Init, Running
  <2>2. Cardinality(Running) = 0
    BY <2>1, FS_EmptySet
  <2>3. consecutive_failures + Cardinality(Running) <= circuit_threshold + Cardinality(Key) - 1
    BY <2>1, <2>2, KeyIsCounted, CheckpointAssumption
  <2> QED
    BY <2>1, <2>3, InitTypeOK DEF BreakerInv, BreakerLimitsFailures, Running
<1>2. BreakerInv => BreakerLimitsFailures
  BY DEF BreakerInv
<1> QED
  BY <1>1, <1>2, NextBreakerInv, PTL DEF Spec

-----------------------------------------------------------------------------
(* The counters of failures, whatever becomes of the writes. *)

\* A call that runs has not failed, and no call that is to come has.
FailedHaveEnded ==
  /\ failed \subseteq 1 .. calls
  /\ \A k \in Key : call[k] # None => call[k].id \notin failed

CountInv == TypeOK /\ IdsAreFresh /\ FailedHaveEnded /\ FailuresCountedOnce

LEMMA FailedIsFinite ==
  ASSUME TypeOK
  PROVE  IsFiniteSet(failed) /\ Cardinality(failed) \in Nat
<1>1. MaxCalls \in Int /\ failed \subseteq 1 .. MaxCalls
  BY CheckpointAssumption DEF TypeOK
<1>2. IsFiniteSet(1 .. MaxCalls)
  BY <1>1, FS_Interval
<1> QED
  BY <1>1, <1>2, FS_Subset, FS_CardinalityType

\* A commit takes an id that no call has had.
LEMMA CommitCounts ==
  ASSUME CountInv, NEW k \in Key, Commit(k)
  PROVE  IdsAreFresh' /\ FailedHaveEnded' /\ FailuresCountedOnce'
<1> USE DEF CountInv
<1>1. PICK c : /\ c.id = calls + 1 /\ call' = [call EXCEPT ![k] = c]
               /\ calls' = calls + 1
               /\ UNCHANGED <<counterVars, failed>>
  BY DEF Commit
<1>2. calls \in Nat /\ DOMAIN call = Key /\ \A j \in Key : call[j] # None => call[j].id \in Nat
  BY CallType, CheckpointAssumption DEF TypeOK
<1>3. IdsAreFresh'
  BY <1>1, <1>2 DEF IdsAreFresh
<1>4. failed' \subseteq 1 .. calls'
  BY <1>1, <1>2 DEF FailedHaveEnded
<1>5. \A j \in Key : call'[j] # None => call'[j].id \notin failed'
  BY <1>1, <1>2 DEF FailedHaveEnded
<1> QED
  BY <1>1, <1>3, <1>4, <1>5 DEF FailedHaveEnded, FailuresCountedOnce, counterVars

\* The call that fails is a failure for the first time.
LEMMA FailCounts ==
  ASSUME CountInv, NEW k \in Key, Committing(k), Fail(k),
         timeouts_total' \in {timeouts_total, timeouts_total + 1}
  PROVE  IdsAreFresh' /\ FailedHaveEnded' /\ FailuresCountedOnce'
<1> USE DEF CountInv
<1>1. /\ call' = [call EXCEPT ![k] = None] /\ failed' = failed \cup {call[k].id}
      /\ consecutive_failures' = consecutive_failures + 1
      /\ failures_total' = failures_total + 1
      /\ calls' = calls
  BY DEF Fail
<1>2. /\ calls \in Nat /\ DOMAIN call = Key
      /\ \A j \in Key : call[j] # None => call[j].id \in 1 .. MaxCalls
      /\ call[k] # None /\ call[k].id \in 1 .. calls
      /\ consecutive_failures \in Nat /\ failures_total \in Nat /\ timeouts_total \in Nat
  BY CallType, CheckpointAssumption DEF TypeOK, Committing, IdsAreFresh
<1>3. \A j \in Key : call'[j] # None => j # k /\ call'[j] = call[j]
  BY <1>1, <1>2
<1>4. IdsAreFresh'
  BY <1>1, <1>3 DEF IdsAreFresh
<1>5. FailedHaveEnded'
  BY <1>1, <1>2, <1>3 DEF FailedHaveEnded, IdsAreFresh
<1>6. Cardinality(failed') = Cardinality(failed) + 1
  BY <1>1, <1>2, FailedIsFinite, FS_AddElement DEF FailedHaveEnded
<1>7. FailuresCountedOnce'
  BY <1>1, <1>2, <1>6 DEF FailuresCountedOnce
<1> QED
  BY <1>4, <1>5, <1>7

LEMMA NextCountInv ==
  ASSUME CountInv, [Next]_vars
  PROVE  CountInv'
<1> USE DEF CountInv
<1>1. TypeOK'
  BY NextTypeOK DEF TypeOK, vars, graphVars, storeVars, counterVars
<1> SUFFICES IdsAreFresh' /\ FailedHaveEnded' /\ FailuresCountedOnce'
  BY <1>1
<1>2. ASSUME UNCHANGED <<call, calls, failed, failures_total, timeouts_total>>,
             consecutive_failures' \in {0, consecutive_failures}
      PROVE  IdsAreFresh' /\ FailedHaveEnded' /\ FailuresCountedOnce'
  BY <1>2 DEF IdsAreFresh, FailedHaveEnded, FailuresCountedOnce, TypeOK
<1>3. ASSUME NEW k \in Key, Process(k)
      PROVE  IdsAreFresh' /\ FailedHaveEnded' /\ FailuresCountedOnce'
  BY <1>2, <1>3 DEF Process, counterVars
<1>4. ASSUME NEW k \in Key, StateSaved(k)
      PROVE  IdsAreFresh' /\ FailedHaveEnded' /\ FailuresCountedOnce'
  <2>1. \A j \in Key : /\ call'[j] # None => call[j] # None
                       /\ call[j] # None => call'[j].id = call[j].id
    BY <1>4 DEF StateSaved, Committing, TypeOK
  <2>2. UNCHANGED <<counterVars, calls, failed>>
    BY <1>4 DEF StateSaved
  <2> QED
    BY <2>1, <2>2 DEF IdsAreFresh, FailedHaveEnded, FailuresCountedOnce, counterVars
<1>5. ASSUME NEW k \in Key, CursorSaved(k)
      PROVE  IdsAreFresh' /\ FailedHaveEnded' /\ FailuresCountedOnce'
  <2>1. \A j \in Key : call'[j] # None => call'[j] = call[j]
    BY <1>5 DEF CursorSaved, TypeOK
  <2>2. /\ UNCHANGED <<failures_total, timeouts_total, calls, failed>>
        /\ consecutive_failures' = 0
    BY <1>5 DEF CursorSaved
  <2> QED
    BY <2>1, <2>2 DEF IdsAreFresh, FailedHaveEnded, FailuresCountedOnce, TypeOK
<1>6. ASSUME NEW k \in Key, StoreFails(k) \/ Timeout(k)
      PROVE  IdsAreFresh' /\ FailedHaveEnded' /\ FailuresCountedOnce'
  BY <1>6, FailCounts DEF StoreFails, Timeout
<1>7. CASE WriteLands
  BY <1>2, <1>7 DEF WriteLands, counterVars
<1>8. CASE ResetCircuit
  BY <1>2, <1>8 DEF ResetCircuit
<1>9. CASE Crash
  BY <1>9 DEF Crash, counterVars, IdsAreFresh, FailedHaveEnded, FailuresCountedOnce
<1>10. CASE Restart
  <2>1. /\ failed' = {} /\ UNCHANGED <<call, calls>>
        /\ failures_total' = 0 /\ timeouts_total' = 0 /\ consecutive_failures' = 0
    BY <1>10 DEF Restart
  <2>2. FailuresCountedOnce'
    BY <2>1, FS_EmptySet DEF FailuresCountedOnce
  <2> QED
    BY <2>1, <2>2 DEF IdsAreFresh, FailedHaveEnded
<1>11. CASE UNCHANGED vars
  BY <1>2, <1>11 DEF vars, counterVars
<1> QED
  BY <1>3, <1>4, <1>5, <1>6, <1>7, <1>8, <1>9, <1>10, <1>11, CommitCounts DEF Next

\* A commit that fails counts as one failure, in whichever leg and whichever way it
\* failed, and as a timeout only then, however many keys commit at the same time
\* through the one checkpointer that holds the counters.
THEOREM FailuresAreCounted == Spec => []FailuresCountedOnce
<1>1. Init => CountInv
  BY InitTypeOK, FS_EmptySet DEF Init, CountInv, IdsAreFresh, FailedHaveEnded, FailuresCountedOnce
<1>2. CountInv => FailuresCountedOnce
  BY DEF CountInv
<1> QED
  BY <1>1, <1>2, NextCountInv, PTL DEF Spec
=============================================================================

----------------------------- MODULE Deduplicator -----------------------------
(* tflo-core's Deduplicator over an asynchronous state store, used the way   *)
(* its module documentation shows: a task asks should_emit, writes to the    *)
(* sink, and calls mark_emitted.  Several tasks hold records, also of one    *)
(* key; the store answers late, with an error, or loses nothing but the      *)
(* answer; the process may die at any await and find its records again.      *)
EXTENDS Naturals, FiniteSets

CONSTANTS Workers, Keys,
          MaxRecords,       \* bound on the records delivered, repeats included
          MaxCrashes,       \* bound on crashes
          None

VARIABLES at,               \* where each task is
          key,              \* the key of its record
          cache,            \* the keys in the process-local set
          stored,           \* the keys marked in the store
          fresh,            \* was the key unmarked when the task's check began?
          sunk,             \* the keys that the sink has received
          verdict,          \* the last answer of should_emit
          records, crashes  \* how many there have been
vars == <<at, key, cache, stored, fresh, sunk, verdict, records, crashes>>

Init ==
  /\ at = [w \in Workers |-> "idle"]
  /\ key \in [Workers -> Keys] /\ fresh = [w \in Workers |-> TRUE]
  /\ cache = {} /\ stored = {}
  /\ sunk = {} /\ verdict = None
  /\ records = 0 /\ crashes = 0

Goes(w, to) == at' = [at EXCEPT ![w] = to]
Judge(w, emit) == verdict' = [key |-> key[w], emit |-> emit, fresh |-> fresh[w], marked |-> key[w] \in stored]

\* A record is delivered, for the first time or again.
Deliver(w) ==
  /\ at[w] = "idle" /\ records < MaxRecords
  /\ \E k \in Keys :
       /\ key' = [key EXCEPT ![w] = k]
       /\ fresh' = [fresh EXCEPT ![w] = k \notin stored]
  /\ Goes(w, "check")
  /\ records' = records + 1
  /\ UNCHANGED <<cache, stored, sunk, verdict, crashes>>

\* should_emit up to its await: a hit in the cache answers at once.
ShouldEmit(w) ==
  /\ at[w] = "check"
  /\ IF key[w] \in cache THEN Goes(w, "idle") /\ Judge(w, FALSE)
     ELSE Goes(w, "load") /\ UNCHANGED verdict
  /\ UNCHANGED <<key, cache, stored, fresh, sunk, records, crashes>>

\* The store's answer to the load: is there a marker for the key?
Loaded(w) ==
  /\ at[w] = "load"
  /\ IF key[w] \in stored THEN Goes(w, "idle") ELSE Goes(w, "emit")
  /\ Judge(w, key[w] \notin stored)
  /\ UNCHANGED <<key, cache, stored, fresh, sunk, records, crashes>>

\* The store fails: the error goes to the caller, who tries the record again.
LoadFails(w) ==
  /\ at[w] = "load" /\ Goes(w, "check")
  /\ UNCHANGED <<key, cache, stored, fresh, sunk, verdict, records, crashes>>

Emit(w) ==
  /\ at[w] = "emit" /\ Goes(w, "mark")
  /\ sunk' = sunk \cup {key[w]}
  /\ UNCHANGED <<key, cache, stored, fresh, verdict, records, crashes>>

\* mark_emitted: the store first, then the cache.
Saved(w) ==
  /\ at[w] = "mark" /\ Goes(w, "idle")
  /\ stored' = stored \cup {key[w]}
  /\ cache' = cache \cup {key[w]}
  /\ UNCHANGED <<key, fresh, sunk, verdict, records, crashes>>

(* A failed save may have reached the store all the same; the cache is left  *)
(* alone and the record counts as not handled.                               *)
WrongSaveFails(w) ==
  /\ at[w] = "mark" /\ Goes(w, "check")
  /\ cache' = cache \cup {key[w]}
  /\ UNCHANGED <<key, stored, fresh, sunk, verdict, records, crashes>>
SaveFails(w) ==
  /\ at[w] = "mark" /\ Goes(w, "check")
  /\ stored' \in {stored, stored \cup {key[w]}}
  /\ fresh' = [fresh EXCEPT ![w] = key[w] \notin stored']
  /\ UNCHANGED <<key, cache, sunk, verdict, records, crashes>>

\* A crash forgets the cache; of the saves under way some reach the store.
Crash ==
  /\ crashes < MaxCrashes
  /\ crashes' = crashes + 1
  /\ at' = [w \in Workers |-> "idle"]
  /\ cache' = {}
  /\ \E landed \in SUBSET {key[w] : w \in {u \in Workers : at[u] = "mark"}} : stored' = stored \cup landed
  /\ UNCHANGED <<key, fresh, sunk, verdict, records>>

Next ==
  \/ \E w \in Workers : Deliver(w) \/ ShouldEmit(w) \/ Loaded(w) \/ LoadFails(w)
                         \/ Emit(w) \/ Saved(w) \/ SaveFails(w)
  \/ Crash

Spec == Init /\ [][Next]_vars

-----------------------------------------------------------------------------
(* Deduplication loses nothing and stops every repeat it can know of.  A     *)
(* record is suppressed only if its key has reached the sink and the store   *)
(* says so, which a crash does not undo; it is emitted again only if the key *)
(* was not marked yet when its check began, so that the repeats are those of *)
(* checks that overlapped and of marks that did not land.  What the cache    *)
(* answers the store would have answered too.                                *)
OnlyMarkedKeysAreSuppressed ==
  /\ verdict # None =>
       IF verdict.emit THEN verdict.fresh ELSE verdict.marked /\ verdict.key \in sunk
  /\ cache \subseteq stored
=============================================================================

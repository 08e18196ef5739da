----------------------------- MODULE Combinators -----------------------------
(* The iterator adaptors of tflo-core (combinators/, the validated iterator  *)
(* of iter_ext.rs).  An adaptor wraps one iterator, or several, and is asked *)
(* for its next item.  An item is known by its position in its source; next  *)
(* is one action where it always returns, and one action for each item that  *)
(* it takes where it loops until there is something to return.               *)
EXTENDS Integers, Sequences, SequencesExt, FiniteSets

CONSTANTS Adaptors,     \* the adaptors: [kind, window, policy, sources]
          None

VARIABLES adaptor,      \* the adaptor in use, with the iterators it wraps
          pos,          \* how many items have been taken from each source
          kept,         \* what the adaptor keeps between two calls
          out,          \* what it has returned
          ended         \* it has returned None
vars == <<adaptor, pos, kept, out, ended>>

Source(i) == adaptor.sources[i]
Ts(i, k) == Source(i)[k].ts
Key(k) == Source(1)[k].key
More(i) == pos[i] < Len(Source(i))
this == pos[1] + 1                      \* the item that next takes
Took(i, n) == pos' = [pos EXCEPT ![i] = n]
Returns(x) == out' = Append(out, x)
Uses(kind) == adaptor.kind = kind /\ ~ended /\ UNCHANGED adaptor

(* The heap of merge holds the head of every source that has one left.       *)
Heads == {i \in DOMAIN adaptor.sources : Source(i) # <<>>}
Start ==
  CASE adaptor.kind = "join" -> <<>>
    [] adaptor.kind = "merge" -> {<<i, 1>> : i \in Heads}
    [] adaptor.kind = "rate_limit" -> None
    [] adaptor.kind = "keep_last" -> [last |-> None, pending |-> None]
    [] adaptor.kind \in {"dedupe", "group"} -> <<>>
    [] adaptor.kind = "batch" -> [boundary |-> None, batch |-> <<>>]
    [] adaptor.kind = "validated" -> None

Init ==
  /\ adaptor \in Adaptors
  /\ pos = [i \in DOMAIN adaptor.sources |-> IF adaptor.kind = "merge" /\ i \in Heads THEN 1 ELSE 0]
  /\ kept = Start
  /\ out = <<>>
  /\ ended = FALSE

-----------------------------------------------------------------------------
(* Join: the right side is read up to the first item past the window, and    *)
(* what is older than the window is dropped from the front of the buffer.    *)
PastWindow(k, end) == Ts(2, k) > end
PullRight(end) ==
  IF kept # <<>> /\ PastWindow(Last(kept), end) THEN pos[2]
  ELSE LET past == {k \in pos[2] + 1..Len(Source(2)) : PastWindow(k, end)}
       IN IF past = {} THEN Len(Source(2)) ELSE CHOOSE k \in past : \A m \in past : k <= m
WrongEvict(buffer, start) == SelectSeq(buffer, LAMBDA k : Ts(2, k) > start)
Evict(buffer, start) ==
  LET fresh == {k \in DOMAIN buffer : Ts(2, buffer[k]) >= start}
  IN IF fresh = {} THEN <<>> ELSE SubSeq(buffer, CHOOSE k \in fresh : \A m \in fresh : k <= m, Len(buffer))

JoinNext ==
  /\ Uses("join") /\ More(1)
  /\ LET start   == Ts(1, this) - adaptor.window
         end     == Ts(1, this) + adaptor.window
         pulled  == PullRight(end)
         buffer  == Evict(kept \o [k \in 1..pulled - pos[2] |-> pos[2] + k], start)
     IN /\ pos' = <<this, pulled>>
        /\ kept' = buffer
        /\ Returns(SelectSeq(buffer, LAMBDA k : Ts(2, k) >= start /\ Ts(2, k) <= end))
  /\ UNCHANGED ended

(* Merge: entries with equal keys leave the heap in any order.               *)
MergeNext ==
  /\ Uses("merge")
  /\ \E e \in kept :
       /\ \A f \in kept : Ts(e[1], e[2]) <= Ts(f[1], f[2])
       /\ IF More(e[1])
          THEN /\ kept' = (kept \ {e}) \cup {<<e[1], e[2] + 1>>}
               /\ Took(e[1], e[2] + 1)
          ELSE kept' = kept \ {e} /\ UNCHANGED pos
       /\ Returns(e)
  /\ UNCHANGED ended

RateLimitNext ==
  /\ Uses("rate_limit") /\ More(1) /\ Took(1, this)
  /\ IF kept = None \/ Ts(1, this) - kept >= adaptor.window
     THEN kept' = Ts(1, this) /\ Returns(this)
     ELSE UNCHANGED <<kept, out>>
  /\ UNCHANGED ended

(* Keep last: the newest item held back is returned by the first item that   *)
(* is an interval past the last one returned, which is held back in turn.    *)
KeepLastItem ==
  IF kept.last = None THEN kept' = [kept EXCEPT !.last = Ts(1, this)] /\ Returns(this)
  ELSE IF Ts(1, this) - kept.last < adaptor.window THEN kept' = [kept EXCEPT !.pending = this] /\ UNCHANGED out
  ELSE IF kept.pending = None THEN kept' = [kept EXCEPT !.last = Ts(1, this)] /\ Returns(this)
  ELSE kept' = [last |-> Ts(1, kept.pending), pending |-> this] /\ Returns(kept.pending)
KeepLastNext == Uses("keep_last") /\ More(1) /\ Took(1, this) /\ KeepLastItem /\ UNCHANGED ended
KeepLastEnd ==
  /\ Uses("keep_last") /\ ~More(1)
  /\ kept' = [kept EXCEPT !.pending = None]
  /\ IF kept.pending = None THEN ended' = TRUE /\ UNCHANGED out ELSE Returns(kept.pending) /\ UNCHANGED ended
  /\ UNCHANGED pos

Retained(seen, cutoff) == [k \in {k \in DOMAIN seen : seen[k] >= cutoff} |-> seen[k]]
DedupeNext ==
  /\ Uses("dedupe") /\ More(1) /\ Took(1, this)
  /\ LET seen == Retained(kept, Ts(1, this) - adaptor.window)
     IN IF Key(this) \in DOMAIN seen /\ Ts(1, this) - seen[Key(this)] < adaptor.window
        THEN kept' = seen /\ UNCHANGED out
        ELSE kept' = [k \in DOMAIN seen \cup {Key(this)} |-> IF k = Key(this) THEN Ts(1, this) ELSE seen[k]] /\ Returns(this)
  /\ UNCHANGED ended

(* Batch: the interval is at least 1, the division rounds toward zero.       *)
Interval == IF adaptor.window < 1 THEN 1 ELSE adaptor.window
Boundary(ts) == Interval * (IF ts < 0 THEN -((-ts) \div Interval) ELSE ts \div Interval)
BatchNext ==
  /\ Uses("batch") /\ More(1) /\ Took(1, this)
  /\ LET b == Boundary(Ts(1, this))
     IN IF kept.boundary \in {None, b}
        THEN kept' = [boundary |-> b, batch |-> Append(kept.batch, this)] /\ UNCHANGED out
        ELSE kept' = [boundary |-> b, batch |-> <<this>>] /\ Returns(kept.batch)
  /\ UNCHANGED ended
BatchEnd ==
  /\ Uses("batch") /\ ~More(1)
  /\ ended' = TRUE
  /\ out' = IF kept.batch = <<>> THEN out ELSE Append(out, kept.batch)
  /\ kept' = [kept EXCEPT !.batch = <<>>]
  /\ UNCHANGED pos

(* Group: a push appends to the group of the value's key.                    *)
GroupPush ==
  /\ Uses("group") /\ More(1) /\ Took(1, this)
  /\ kept' = [k \in DOMAIN kept \cup {Key(this)} |->
                IF k # Key(this) THEN kept[k] ELSE IF k \in DOMAIN kept THEN Append(kept[k], this) ELSE <<this>>]
  /\ UNCHANGED <<out, ended>>

(* Validated: policy says what is checked.  A record that is out of order or *)
(* past the gap neither enters the graph nor moves last_ts.  The graph passes*)
(* the key on as the value: "NaN", "Infinite", "Negative" or "Fine".         *)
Refusal(ts) ==
  IF kept = None THEN None
  ELSE IF adaptor.policy.sorted /\ ts < kept THEN "OutOfOrder"
  ELSE IF adaptor.policy.max_gap # None /\ ts - kept > adaptor.policy.max_gap THEN "GapExceeded"
  ELSE None
\* The verdict of ValueValidator::check_strict: an error, or keep or drop.
Verdict(value) ==
  IF value \in adaptor.policy.error THEN value
  ELSE IF value \in adaptor.policy.reject THEN "Dropped" ELSE "Ok"
ValidatedNext ==
  /\ Uses("validated") /\ More(1) /\ Took(1, this)
  /\ LET refusal == Refusal(Ts(1, this))
         result == IF refusal # None THEN refusal ELSE Verdict(Key(this))
     IN /\ kept' = IF refusal # None THEN kept ELSE Ts(1, this)
        /\ out' = IF result = "Dropped" THEN out ELSE Append(out, [item |-> this, result |-> result])
  /\ UNCHANGED ended

(* A source that is used up: next returns None, for ever.                    *)
End ==
  /\ Uses(adaptor.kind) /\ adaptor.kind \notin {"keep_last", "batch", "group"}
  /\ IF adaptor.kind = "merge" THEN kept = {} ELSE ~More(1)
  /\ ended' = TRUE /\ UNCHANGED <<pos, kept, out>>

Next ==
  \/ JoinNext \/ MergeNext \/ RateLimitNext \/ KeepLastNext \/ KeepLastEnd \/ DedupeNext
  \/ BatchNext \/ BatchEnd \/ GroupPush \/ ValidatedNext \/ End

Spec == Init /\ [][Next]_vars

-----------------------------------------------------------------------------
Ordered(i) == \A a, b \in DOMAIN Source(i) : a < b => Ts(i, a) <= Ts(i, b)
AllOrdered == \A i \in DOMAIN adaptor.sources : Ordered(i)
Seen == 1..pos[1]
Positions(n) == [k \in 1..n |-> k]

(* A left item is joined with exactly the right items around it; when a side *)
(* is out of order some may be missing, but none is wrong.                   *)
JoinIsExact ==
  \A a \in DOMAIN out :
    LET near == SelectSeq(Positions(Len(Source(2))),
                          LAMBDA k : Ts(2, k) >= Ts(1, a) - adaptor.window /\ Ts(2, k) <= Ts(1, a) + adaptor.window)
    IN IF AllOrdered THEN out[a] = near ELSE ToSet(out[a]) \subseteq ToSet(near)

(* Merging interleaves the sources: each one's items in their order, none    *)
(* lost, and in time order if each source is.                                *)
MergeIsInterleaving ==
  /\ \A i \in DOMAIN adaptor.sources :
       LET mine == SelectSeq(out, LAMBDA e : e[1] = i)
       IN /\ mine = [k \in 1..Len(mine) |-> <<i, k>>]
          /\ ended => Len(mine) = Len(Source(i))
  /\ AllOrdered => \A a, b \in DOMAIN out : a < b => Ts(out[a][1], out[a][2]) <= Ts(out[b][1], out[b][2])

InOrderOnce == \A a, b \in DOMAIN out : a < b => out[a] < out[b]
Apart(S) == \A a, b \in S : a < b => Ts(1, out[b]) - Ts(1, out[a]) >= adaptor.window
\* An item that was returned stands for k if it is k or less than a window before.
Before(k, t) == t = k \/ (t < k /\ Ts(1, k) - Ts(1, t) < adaptor.window)

(* Rate limiting drops an item only within an interval of one it returned.   *)
LimitIsTight ==
  InOrderOnce /\ Apart(DOMAIN out) /\ \A k \in Seen : \E a \in DOMAIN out : Before(k, out[a])

(* Keeping the last: an item that is not returned is stood for by a newer    *)
(* one of the same interval, and the newest item is never lost.              *)
NewestIsKept ==
  /\ InOrderOnce
  /\ AllOrdered /\ ended =>
       /\ \A k \in Seen : \E a \in DOMAIN out : out[a] >= k /\ (out[a] = k \/ Ts(1, out[a]) - Ts(1, k) < adaptor.window)
       /\ Seen # {} => Last(out) = pos[1]

(* Deduplication drops an item exactly if its key was returned less than a   *)
(* window before; nothing is dropped for an item that was itself dropped.    *)
DuplicatesOnly ==
  /\ InOrderOnce
  /\ \A k \in Seen \ ToSet(out) : \E a \in DOMAIN out : Key(out[a]) = Key(k) /\ Before(k, out[a])
  /\ AllOrdered => \A key \in {Key(k) : k \in Seen} : Apart({a \in DOMAIN out : Key(out[a]) = key})

(* Batches cut the stream at the multiples of the interval and nowhere else  *)
(* (after the epoch: before it, two intervals meet at zero).                 *)
Bucket(k) == Ts(1, k) \div Interval
BatchesPartition ==
  /\ FlattenSeq(out) \o kept.batch = Positions(pos[1])
  /\ \A a \in DOMAIN out : out[a] # <<>> /\ \A k, m \in ToSet(out[a]) : Bucket(k) = Bucket(m)
  /\ \A a \in DOMAIN out : a < Len(out) => Bucket(Last(out[a])) # Bucket(out[a + 1][1])

GroupsPartition ==
  \A k \in {Key(m) : m \in Seen} : kept[k] = SelectSeq(Positions(pos[1]), LAMBDA m : Key(m) = k)

(* Validation answers for each record but those it filters; the records let  *)
(* into the graph form a chain without a step back or a gap, and a record is *)
(* refused only if it does not continue the chain.                           *)
ChainIsValid ==
  LET refused == {out[a].item : a \in {a \in DOMAIN out : out[a].result \in {"OutOfOrder", "GapExceeded"}}}
      entered == Seen \ refused
      Continues(k, m) == /\ adaptor.policy.sorted => Ts(1, k) <= Ts(1, m)
                         /\ adaptor.policy.max_gap # None => Ts(1, m) - Ts(1, k) <= adaptor.policy.max_gap
      Link(m) == {k \in entered : k < m /\ \A l \in entered : l < m => l <= k}
  IN /\ \A m \in Seen : \A k \in Link(m) : m \in entered <=> Continues(k, m)
     /\ \A m \in Seen : Link(m) = {} => m \in entered
     /\ \A m \in entered : Key(m) \in adaptor.policy.error =>
          \E a \in DOMAIN out : out[a] = [item |-> m, result |-> Key(m)]
     /\ \A m \in entered : Key(m) \notin adaptor.policy.error \cup adaptor.policy.reject =>
          \E a \in DOMAIN out : out[a] = [item |-> m, result |-> "Ok"]

(* Every adaptor returns what its definition over the whole input says,      *)
(* although it keeps only a little of it.                                    *)
AdaptorsMeanTheirDefinition ==
  CASE adaptor.kind = "join" -> JoinIsExact
    [] adaptor.kind = "merge" -> MergeIsInterleaving
    [] adaptor.kind = "rate_limit" -> LimitIsTight
    [] adaptor.kind = "keep_last" -> NewestIsKept
    [] adaptor.kind = "dedupe" -> DuplicatesOnly
    [] adaptor.kind = "batch" -> BatchesPartition
    [] adaptor.kind = "group" -> GroupsPartition
    [] adaptor.kind = "validated" -> ChainIsValid
=============================================================================

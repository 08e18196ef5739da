------------------------------- MODULE Batcher -------------------------------
(* tflo-sink-influx: the bounded accumulator of lines that several tasks push*)
(* into and flush.  The lock on the buffer is never held across an await, so *)
(* push, flush and tick are atomic up to the HTTP write, which is an action  *)
(* of its own: other tasks push and flush while it is under way.  It may     *)
(* succeed, fail, or be cancelled with the task that awaits it.              *)
EXTENDS Integers, Sequences, SequencesExt, FiniteSets

CONSTANTS Pushers,          \* the tasks that push and flush
          Ticker,           \* the task that calls tick periodically
          Sizes,            \* the lengths of lines, with their newline
          FlushAt, MaxBuffer,   \* flush_at_bytes and max_buffer_bytes
          MaxAge,           \* max_age: tick flushes a buffer this old
          MaxPushes         \* bound on the lines pushed
Tasks == Pushers \cup {Ticker}

VARIABLES buffered,         \* the lines in the buffer
          age,              \* how long ago the stamp was set, up to MaxAge
          writing,          \* the body that each task is writing
          flushes_total, dropped_total,
          pushed,           \* all lines so far, each with its real age
          written, failed, refused,     \* the lines that met with each end
          dropped           \* the batcher has been dropped
vars == <<buffered, age, writing, flushes_total, dropped_total, pushed, written, failed, refused, dropped>>
counters == <<flushes_total, dropped_total>>
ends == <<written, failed, refused>>

Init ==
  /\ buffered = <<>> /\ age = 0
  /\ writing = [t \in Tasks |-> <<>>]
  /\ flushes_total = 0 /\ dropped_total = 0
  /\ pushed = <<>>
  /\ written = {} /\ failed = {} /\ refused = {}
  /\ dropped = FALSE

\* The bytes of lines, and of those in the buffer.
Bytes(lines) == MapThenSumSet(LAMBDA i : pushed[i].size, lines)
BufLen == Bytes(ToSet(buffered))
Idle(t) == ~dropped /\ writing[t] = <<>>

WrongTake(t, body) ==
  /\ writing' = [writing EXCEPT ![t] = body]
  /\ UNCHANGED buffered
\* mem::take of the buffer; the write begins and the lock is released.
Take(t, body) ==
  /\ writing' = [writing EXCEPT ![t] = body]
  /\ buffered' = <<>>

Push(t, size) ==
  /\ Idle(t) /\ Len(pushed) < MaxPushes
  /\ LET line == Len(pushed) + 1
         old  == IF buffered = <<>> THEN 0 ELSE age
     IN /\ pushed' = Append(pushed, [size |-> size, age |-> 0])
        /\ IF BufLen + size > MaxBuffer
           THEN /\ refused' = refused \cup {line}
                /\ dropped_total' = dropped_total + size
                /\ UNCHANGED <<buffered, age, writing>>
           ELSE /\ age' = old
                /\ IF BufLen + size >= FlushAt \/ old >= MaxAge
                   THEN Take(t, Append(buffered, line))
                   ELSE buffered' = Append(buffered, line) /\ UNCHANGED writing
                /\ UNCHANGED <<refused, dropped_total>>
  /\ UNCHANGED <<flushes_total, written, failed, dropped>>

Flush(t) ==
  /\ Idle(t) /\ buffered # <<>>
  /\ Take(t, buffered)
  /\ UNCHANGED <<age, counters, pushed, ends, dropped>>

WrongTick ==
  /\ Idle(Ticker) /\ BufLen >= FlushAt
  /\ Take(Ticker, buffered)
  /\ UNCHANGED <<age, counters, pushed, ends, dropped>>
Tick ==
  /\ Idle(Ticker) /\ buffered # <<>> /\ age >= MaxAge
  /\ Take(Ticker, buffered)
  /\ UNCHANGED <<age, counters, pushed, ends, dropped>>

(* The end of a write: its body is written, or lost with an error, or with   *)
(* the task that is cancelled while it waits.                                *)
WriteReturns(t, ok) ==
  /\ writing[t] # <<>>
  /\ writing' = [writing EXCEPT ![t] = <<>>]
  /\ IF ok THEN written' = written \cup ToSet(writing[t]) /\ flushes_total' = flushes_total + 1 /\ UNCHANGED failed
           ELSE failed' = failed \cup ToSet(writing[t]) /\ UNCHANGED <<written, flushes_total>>
  /\ UNCHANGED <<buffered, age, dropped_total, pushed, refused, dropped>>

\* Drop: all tasks have let go of the batcher; what is buffered is counted.
DropBatcher ==
  /\ \A t \in Tasks : Idle(t)
  /\ dropped' = TRUE
  /\ dropped_total' = dropped_total + BufLen
  /\ UNCHANGED <<buffered, age, writing, flushes_total, pushed, ends>>

Elapse ==
  /\ \E i \in DOMAIN pushed : pushed[i].age < MaxAge
  /\ age' = IF age < MaxAge THEN age + 1 ELSE age
  /\ pushed' = [i \in DOMAIN pushed |-> [pushed[i] EXCEPT !.age = IF @ < MaxAge THEN @ + 1 ELSE @]]
  /\ UNCHANGED <<buffered, writing, counters, ends, dropped>>

Next ==
  \/ \E t \in Pushers : \E size \in Sizes : Push(t, size)
  \/ \E t \in Pushers : Flush(t)
  \/ Tick
  \/ \E t \in Tasks, ok \in BOOLEAN : WriteReturns(t, ok)
  \/ DropBatcher
  \/ Elapse

Spec == Init /\ [][Next]_vars

(* Fairness: time passes, the ticker of the module's documentation runs, and *)
(* the HTTP client answers it in the end, one way or the other.              *)
Fairness == /\ WF_vars(Elapse) /\ WF_vars(Tick) /\ WF_vars(\E ok \in BOOLEAN : WriteReturns(Ticker, ok))
FairSpec == Spec /\ Fairness

-----------------------------------------------------------------------------
InFlight == UNION {ToSet(writing[t]) : t \in Tasks}
Places == <<ToSet(buffered), InFlight, written, failed, refused>>

(* Every line pushed is buffered, being written by one task, written, lost   *)
(* with a failed write or refused, and only one of these: no task writes a   *)
(* line twice or takes one that another one took.  A body is a run of lines  *)
(* in the order of their pushes, but for those refused.  Dropped bytes are   *)
(* counted, except those of a failed write, and the age by which tick goes   *)
(* is that of the oldest line in the buffer.                                 *)
EveryLineAccountedFor ==
  /\ UNION {Places[i] : i \in DOMAIN Places} = DOMAIN pushed
  /\ \A i, k \in DOMAIN Places : i # k => Places[i] \cap Places[k] = {}
  /\ \A t, u \in Tasks : t # u => ToSet(writing[t]) \cap ToSet(writing[u]) = {}
  /\ \A s \in {buffered} \cup {writing[t] : t \in Tasks} :
       \A i \in 1..Len(s) - 1 : s[i] < s[i + 1] /\ (s[i] + 1)..(s[i + 1] - 1) \subseteq refused
  /\ dropped_total = Bytes(refused \cup IF dropped THEN ToSet(buffered) ELSE {})
  /\ BufLen <= MaxBuffer
  /\ buffered # <<>> => age = pushed[buffered[1]].age

(* A line does not stay in the buffer for ever, not even on a stream that    *)
(* has gone quiet below flush_at_bytes, as long as tick is called.           *)
BufferedLinesAreFlushed ==
  \A i \in 1..MaxPushes : (i \in ToSet(buffered) /\ ~dropped) ~> (i \notin ToSet(buffered) \/ dropped)
=============================================================================

------------------------------ MODULE LogSink ------------------------------
(***************************************************************************)
(* A logger over a buffered sink (packages/foundation/log/mod.ts), whose    *)
(* batches go to one sink, to two (fanoutSink) or to a second one when the  *)
(* first fails (failoverSink).  A line is its number; a sink is the lines it*)
(* has taken.  Batches of an asynchronous sink are under way until they     *)
(* settle, in any order, and a batch that fails comes back to the buffer.   *)
(***************************************************************************)
EXTENDS Naturals, SequencesExt

CONSTANTS
  Trees,       \* what bufferedSink wraps: "plain", "fanout", "failover"
  MaxRecords,  \* BufferedSinkOptions.maxRecords
  ErrorLines,  \* the lines of level error or above
  MaxLines,    \* bound: lines ever logged
  MaxFailures  \* bound: writes that fail

SinkAssumption ==
  /\ Trees \subseteq {"plain", "fanout", "failover"}
  /\ MaxRecords \in Nat \ {0} /\ MaxLines \in Nat /\ MaxFailures \in Nat

VARIABLES
  tree,      \* the sink below the buffer
  async,     \* its writes return promises
  logged,    \* how many lines bufferedSink.write has taken
  chunks,    \* the lines buffered
  flights,   \* the batches under way, in the order they began
  out,       \* the lines each leaf sink took
  closed,    \* bufferedSink is closed
  ended,     \* the sink below was closed
  crashed,   \* an interval's failure went unhandled
  failures,  \* how many writes failed
  disturbed  \* history: batches that overlapped failed or overtook each other

vars == <<tree, async, logged, chunks, flights, out, closed, ended, crashed, failures, disturbed>>

Leaves == {"first", "second"}
Lines == 1..MaxLines

TypeOK ==
  /\ tree \in Trees
  /\ async \in BOOLEAN
  /\ logged \in 0..MaxLines
  /\ chunks \in Seq(Lines)
  /\ flights \in Seq([batch: Seq(Lines), by: {"write", "flush", "interval", "close"}])
  /\ out \in [Leaves -> Seq(Lines)]
  /\ closed \in BOOLEAN /\ ended \in BOOLEAN /\ crashed \in BOOLEAN
  /\ failures \in 0..MaxFailures
  /\ disturbed \in BOOLEAN

Init ==
  /\ tree \in Trees /\ async \in BOOLEAN
  /\ logged = 0 /\ chunks = <<>> /\ flights = <<>>
  /\ out = [l \in Leaves |-> <<>>]
  /\ closed = FALSE /\ ended = FALSE /\ crashed = FALSE
  /\ failures = 0 /\ disturbed = FALSE

-----------------------------------------------------------------------------
(* The sinks below.  ok is the set of leaves whose write would succeed.     *)
FanoutTakes(ok) ==
  IF async \/ "first" \in ok THEN ok ELSE {}   \* a throw ends the loop over the sinks
FailoverTakes(ok) ==
  IF "first" \in ok THEN {"first"} ELSE ok

Takes(ok) ==
  CASE tree = "plain" -> ok \ {"second"}
    [] tree = "fanout" -> FanoutTakes(ok)
    [] tree = "failover" -> FailoverTakes(ok)

Succeeds(ok) ==
  CASE tree = "plain" -> "first" \in ok
    [] tree = "fanout" -> ok = Leaves
    [] tree = "failover" -> ok # {}

(* One write of batch to the sink below, as its leaves decide. *)
Deliver(batch, ok) ==
  /\ failures' = failures + (IF ok = Leaves THEN 0 ELSE 1)
  /\ failures' <= MaxFailures
  /\ out' = [l \in Leaves |-> IF l \in Takes(ok) THEN out[l] \o batch ELSE out[l]]

Mut_RestoreBehind(pending, buffer) == buffer \o pending

(* A batch that failed comes back in front of what was buffered since. *)
Restore(pending, buffer) == pending \o buffer

-----------------------------------------------------------------------------
(* flush() of buffer c: nothing to do, a batch under way, or a write that   *)
(* succeeds or throws here and now.                                         *)
FlushNothing(c) ==
  /\ c = <<>>
  /\ chunks' = c
  /\ UNCHANGED <<flights, out, failures>>

FlushBegins(c, by) ==
  /\ c # <<>> /\ async
  /\ chunks' = <<>>
  /\ flights' = Append(flights, [batch |-> c, by |-> by])
  /\ UNCHANGED <<out, failures>>

FlushWrites(c, ok) ==
  /\ c # <<>> /\ ~async
  /\ Deliver(c, ok)
  /\ chunks' = IF Succeeds(ok) THEN <<>> ELSE Restore(c, <<>>)
  /\ UNCHANGED flights

Flushes(c, by) ==
  \/ FlushNothing(c)
  \/ FlushBegins(c, by)
  \/ \E ok \in SUBSET Leaves : FlushWrites(c, ok)

(* write() takes a line, and flushes when the buffer is full or the line is *)
(* an error.  What the flush throws is the logger's write error: the line   *)
(* stays buffered although it is reported.                                  *)
MustFlush(c) == Len(c) >= MaxRecords \/ Last(c) \in ErrorLines

Log ==
  /\ ~crashed /\ ~closed /\ logged < MaxLines
  /\ logged' = logged + 1
  /\ LET c == Append(chunks, logged + 1) IN
       \/ MustFlush(c) /\ Flushes(c, "write")
       \/ ~MustFlush(c) /\ chunks' = c /\ UNCHANGED <<flights, out, failures>>
  /\ UNCHANGED <<tree, async, closed, ended, crashed, disturbed>>

Flush ==
  /\ ~crashed /\ chunks # <<>>
  /\ Flushes(chunks, "flush")
  /\ UNCHANGED <<tree, async, logged, closed, ended, crashed, disturbed>>

(* The interval's flush.  Nobody catches what it throws. *)
IntervalFires ==
  /\ ~crashed /\ ~closed /\ chunks # <<>>
  /\ Flushes(chunks, "interval")
  /\ crashed' = (~async /\ chunks' # <<>>)
  /\ UNCHANGED <<tree, async, logged, closed, ended, disturbed>>

(* close() stops the interval and flushes; the sink below is closed once    *)
(* that flush succeeded, at once when there is nothing to flush.            *)

Close ==
  /\ ~crashed /\ ~ended
  /\ closed' = TRUE
  /\ Flushes(chunks, "close")
  /\ ended' = (chunks' = <<>> /\ flights' = flights)
  /\ UNCHANGED <<tree, async, logged, crashed, disturbed>>

(* A batch under way settles. *)
Settle(i, ok) ==
  LET f == flights[i] IN
  /\ Deliver(f.batch, ok)
  /\ flights' = RemoveAt(flights, i)
  /\ chunks' = IF Succeeds(ok) THEN chunks ELSE Restore(f.batch, chunks)
  /\ ended' = (ended \/ (Succeeds(ok) /\ f.by = "close"))
  /\ crashed' = (~Succeeds(ok) /\ f.by = "interval")
  /\ disturbed' = (disturbed \/ i # 1 \/ (~Succeeds(ok) /\ Len(flights) > 1))
  /\ UNCHANGED <<tree, async, logged, closed>>

SomeBatchSettles ==
  /\ ~crashed
  /\ \E i \in DOMAIN flights, ok \in SUBSET Leaves : Settle(i, ok)

Next == Log \/ Flush \/ IntervalFires \/ Close \/ SomeBatchSettles

Spec == Init /\ [][Next]_vars

(* The interval keeps firing, and what was written settles. *)
Fairness == WF_vars(IntervalFires) /\ WF_vars(SomeBatchSettles)
FairSpec == Spec /\ Fairness

-----------------------------------------------------------------------------
Taken == UNION {ToSet(out[l]) : l \in Leaves}
UnderWay == UNION {ToSet(flights[i].batch) : i \in DOMAIN flights}

(* A line that write() took is never dropped: it waits in the buffer, is    *)
(* under way or was taken by a sink, whatever fails and in whatever order.  *)
NoLineLost == 1..logged = ToSet(chunks) \cup UnderWay \cup Taken

(* A single sink gets every line once and in the order it was logged, until *)
(* overlapping batches fail or overtake each other: it has the lines from   *)
(* the first on, and each batch and the buffer go on where the one before   *)
(* them ends.                                                               *)
GoesOn(lines, after) == \A k \in DOMAIN lines : lines[k] = after + k
EndOf(i) == IF i = 0 THEN Len(out["first"]) ELSE Last(flights[i].batch)

InOrder ==
  (tree = "plain" /\ ~disturbed) =>
    /\ GoesOn(out["first"], 0)
    /\ \A i \in DOMAIN flights : GoesOn(flights[i].batch, EndOf(i - 1))
    /\ GoesOn(chunks, EndOf(Len(flights)))
    /\ logged = EndOf(Len(flights)) + Len(chunks)

(* With the interval every line reaches a sink once writes succeed again,   *)
(* unless the buffer was closed or the interval's own failure ended the     *)
(* process.                                                                 *)
EveryLineWritten ==
  \A n \in Lines : (n <= logged) ~> (n \in Taken \/ closed \/ crashed)
=============================================================================

-------------------------- MODULE RateLimitCounter --------------------------
(***************************************************************************)
(* The hybrid fixed-window counter of common/rate-limit-counter.ts, for    *)
(* one key on one instance: hits are counted in memory and flushed, one    *)
(* flush at a time, to the key's row in PostgreSQL, to which the other     *)
(* instances add as well.  A flush is a query: it commits or not, and its  *)
(* answer arrives or is lost.                                              *)
(*                                                                         *)
(* Clocks are abstract.  The row's window ends at some moment (the next    *)
(* flush starts the next one); a bucket that has not heard of the row yet  *)
(* ends at some moment of its own; the flush interval passes at some       *)
(* moment.  A row that expired and one the maintenance job deleted behave  *)
(* alike.  Other keys matter only in that they may push this key's bucket  *)
(* out of the map.                                                         *)
(***************************************************************************)
EXTENDS Integers, Sequences, Functions

CONSTANTS Scheduled,    \* options.scheduleFlush
          Pinned,       \* hits carry fixedResetAt: a bucket's window is the row's
          Crowded,      \* more keys are in use than MAX_BUCKETS
          MaxHits,      \* bound: hits on this instance
          MaxOthers,    \* bound: flushes of the other instances
          MaxWindows,   \* bound: the last window does not end
          MaxReplays    \* bound: after that many replayed hits no answer is lost

ASSUME ModeAssumption == Scheduled \in BOOLEAN /\ Pinned \in BOOLEAN /\ Crowded \in BOOLEAN
ASSUME BoundsAssumption == /\ MaxHits \in Nat /\ MaxOthers \in Nat
                           /\ MaxWindows \in Nat \ {0} /\ MaxReplays \in Nat

VARIABLES row,            \* the row of rate_limits: [count, window, over]
          buckets,        \* every bucket made for the key
          held,           \* the last one is in the map
          flight,         \* flushInFlight
          awaiting,       \* who awaits it, and for which bucket
          timer,          \* the bucket the timer was set for, or 0
          status,         \* "serving", "draining" or "stopped"
          passes,         \* passes of drain() that flushed
          others,         \* history: the others' flushes, by window
          drainFailures,  \* history: flushes that failed during drain()
          replayed        \* history: hits committed without an acknowledgement

vars == <<row, buckets, held, flight, awaiting, timer, status, passes, others,
          drainFailures, replayed>>

\* `hits', `acked' and `dropped' are history: the hits the bucket counted, those
\* acknowledged in its present window, and those dropped with an ended window or
\* acknowledged in an earlier one.  Window 0: no flush was acknowledged yet.
Bucket == [pendingDelta : Nat, syncedCount : Nat, window : Nat, ended : BOOLEAN,
           stale : BOOLEAN, hits : Nat, acked : Nat, dropped : Nat]
NewBucket == [pendingDelta |-> 0, syncedCount |-> 0, window |-> 0, ended |-> FALSE,
              stale |-> TRUE, hits |-> 0, acked |-> 0, dropped |-> 0]

NoFlight == [phase |-> "none"]
Flights == [phase : {"none"}]
           \cup [phase : {"sent"}, bucket : Nat, delta : Nat]
           \cup [phase : {"committed"}, bucket : Nat, delta : Nat,
                 count : Nat, window : Nat]

TypeOK ==
    /\ row \in [count : Nat, window : Nat, over : BOOLEAN]
    /\ buckets \in Seq(Bucket)
    /\ held \in BOOLEAN
    /\ held => Len(buckets) > 0
    /\ flight \in Flights
    /\ flight.phase # "none" => flight.bucket \in 1..Len(buckets)
    /\ awaiting \subseteq {"hit", "timer"} \X (1..Len(buckets))
    /\ timer \in 0..Len(buckets)
    /\ status \in {"serving", "draining", "stopped"}
    /\ passes \in 0..3
    /\ others \in [1..MaxWindows -> Nat]
    /\ drainFailures \in Nat
    /\ replayed \in Nat

Init ==
    /\ row = [count |-> 0, window |-> 0, over |-> TRUE]
    /\ buckets = <<>>
    /\ held = FALSE
    /\ flight = NoFlight
    /\ awaiting = {}
    /\ timer = 0
    /\ status = "serving"
    /\ passes = 0
    /\ others = [w \in 1..MaxWindows |-> 0]
    /\ drainFailures = 0
    /\ replayed = 0

\* bucket.resetAt <= now
Over(b) == IF b.window = 0 THEN b.ended ELSE b.window < row.window \/ row.over

Current == Len(buckets)
InMap(n) == held /\ n = Current /\ n > 0
Bucketed == held /\ ~Over(buckets[Current])
Pending == held /\ buckets[Current].pendingDelta > 0
Hits == SumFunction([n \in 1..Current |-> buckets[n].hits])

-----------------------------------------------------------------------------
\* What happens to a bucket: a hit, the capture of its pending hits by a flush,
\* their return by one that failed, their end with the window.
Counted(b) == [b EXCEPT !.pendingDelta = @ + 1, !.hits = @ + 1]
Captured(b) == [b EXCEPT !.pendingDelta = 0, !.stale = FALSE]
Restored(b) == [b EXCEPT !.pendingDelta = @ + flight.delta]
Expired(b) == [b EXCEPT !.pendingDelta = 0, !.dropped = @ + b.pendingDelta]

\* flushBucket(): joins the flush in flight or captures the pending hits of
\* bucket n; `counted' are the buckets after what the caller did to them.

Flush(who, n, counted) ==
    /\ awaiting' = awaiting \cup {<<who, n>>}
    /\ IF flight # NoFlight
       THEN buckets' = counted /\ UNCHANGED flight
       ELSE /\ flight' = [phase |-> "sent", bucket |-> n, delta |-> counted[n].pendingDelta]
            /\ buckets' = [counted EXCEPT ![n] = Captured(@)]

\* scheduleFlush(): one timer per key, whichever bucket it was set for.
CanSchedule == Scheduled /\ status = "serving" /\ timer = 0

\* hit()
Hit ==
    LET found == IF Bucketed THEN buckets ELSE Append(buckets, NewBucket)
        n == Len(found)
        counted == [found EXCEPT ![n] = Counted(@)]
    IN /\ status = "serving"
       /\ Hits < MaxHits
       /\ held' = TRUE
       /\ IF counted[n].stale
          THEN Flush("hit", n, counted) /\ UNCHANGED timer
          ELSE /\ buckets' = counted
               /\ timer' = IF CanSchedule THEN n ELSE timer
               /\ UNCHANGED <<flight, awaiting>>
       /\ UNCHANGED <<row, status, passes, others, drainFailures, replayed>>

-----------------------------------------------------------------------------
\* The query.

\* Mutant: every flush overwrites the row's count.
CommittedOverwrites(delta) ==
    IF row.over THEN [count |-> delta, window |-> row.window + 1, over |-> FALSE]
                ELSE [row EXCEPT !.count = delta]

Committed(delta) ==
    IF row.over THEN [count |-> delta, window |-> row.window + 1, over |-> FALSE]
                ELSE [row EXCEPT !.count = @ + delta]

Commit ==
    /\ flight.phase = "sent"
    /\ row' = Committed(flight.delta)
    /\ flight' = [phase |-> "committed", bucket |-> flight.bucket, delta |-> flight.delta,
                  count |-> row'.count, window |-> row'.window]
    /\ UNCHANGED <<buckets, held, awaiting, timer, status, passes, others,
                   drainFailures, replayed>>

\* Another instance flushes a hit.
OthersFlush ==
    /\ SumFunction(others) < MaxOthers
    /\ row' = Committed(1)
    /\ others' = [others EXCEPT ![row'.window] = @ + 1]
    /\ UNCHANGED <<buckets, held, flight, awaiting, timer, status, passes,
                   drainFailures, replayed>>

\* Mutant: nobody sets a timer after a flush.
ResumeUnarmed ==
    /\ awaiting' = {}
    /\ flight' = NoFlight
    /\ UNCHANGED timer

\* Every hit that awaited the flush, and the timer's finally, may set a timer: in
\* the order in which they began to wait, so that an older bucket comes first.
Resume ==
    LET wants(w) == /\ buckets'[w[2]].pendingDelta > 0
                    /\ w[1] = "timer" => InMap(w[2]) /\ ~Over(buckets'[w[2]])
        wanting == {w[2] : w \in {x \in awaiting : wants(x)}}
    IN /\ awaiting' = {}
       /\ flight' = NoFlight
       /\ IF CanSchedule /\ wanting # {}
          THEN timer' \in {n \in wanting : \A m \in wanting : n <= m}
          ELSE UNCHANGED timer

\* Mutant: the acknowledgement, not the sending, zeroes pendingDelta.
AcknowledgedResets(b) ==
    LET before == IF flight.window = b.window THEN b.acked ELSE 0
    IN [b EXCEPT !.syncedCount = flight.count, !.window = flight.window,
                 !.pendingDelta = 0, !.acked = before + flight.delta,
                 !.dropped = @ + b.acked - before]

Acknowledged(b) ==
    LET before == IF flight.window = b.window THEN b.acked ELSE 0
    IN [b EXCEPT !.syncedCount = flight.count, !.window = flight.window,
                 !.acked = before + flight.delta, !.dropped = @ + b.acked - before]

Acknowledge ==
    /\ flight.phase = "committed"
    /\ buckets' = [buckets EXCEPT ![flight.bucket] = Acknowledged(@)]
    /\ Resume
    /\ UNCHANGED <<row, held, status, passes, others, drainFailures, replayed>>

\* The query fails, or its answer does after it committed: catch() restores.
Fail ==
    /\ flight.phase # "none"
    /\ flight.phase = "committed" => replayed < MaxReplays
    /\ replayed' = IF flight.phase = "committed" THEN replayed + flight.delta ELSE replayed
    /\ buckets' = [buckets EXCEPT ![flight.bucket] = Restored(@)]
    /\ drainFailures' = IF status = "draining" THEN drainFailures + 1 ELSE drainFailures
    /\ Resume
    /\ UNCHANGED <<row, held, status, passes, others>>

-----------------------------------------------------------------------------
\* The timer and drain(), by way of flushIfCurrent().

\* Mutant: the end of the window is not looked at.
FlushInAnyCase == Flush("timer", Current, buckets)

FlushIfCurrent ==
    IF Over(buckets[Current])
    THEN /\ buckets' = [buckets EXCEPT ![Current] = Expired(@)]
         /\ UNCHANGED <<flight, awaiting>>
    ELSE Flush("timer", Current, buckets)

TimerFires ==
    /\ timer # 0
    /\ timer' = 0
    /\ IF InMap(timer) /\ Pending THEN FlushIfCurrent
                                  ELSE UNCHANGED <<buckets, flight, awaiting>>
    /\ UNCHANGED <<row, held, status, passes, others, drainFailures, replayed>>

\* main.ts: the HTTP server has closed, so that no hit is left.  The owner of the
\* scheduled counter drains it (ApiKeysService), the owner of the other never does.
StartDrain ==
    /\ Scheduled
    /\ status = "serving"
    /\ \A w \in awaiting : w[1] = "timer"
    /\ status' = "draining"
    /\ timer' = 0
    /\ UNCHANGED <<row, buckets, held, flight, awaiting, passes, others,
                   drainFailures, replayed>>

\* Mutant: the flush in flight is not awaited.
DrainPassAtOnce ==
    /\ status = "draining"
    /\ IF Pending /\ passes < 3
       THEN passes' = passes + 1 /\ FlushIfCurrent /\ UNCHANGED status
       ELSE status' = "stopped" /\ UNCHANGED <<buckets, flight, awaiting, passes>>
    /\ UNCHANGED <<row, held, timer, others, drainFailures, replayed>>

\* A pass begins once the flush in flight has settled.
DrainPass ==
    /\ status = "draining"
    /\ flight = NoFlight
    /\ IF Pending /\ passes < 3
       THEN passes' = passes + 1 /\ FlushIfCurrent /\ UNCHANGED status
       ELSE status' = "stopped" /\ UNCHANGED <<buckets, flight, awaiting, passes>>
    /\ UNCHANGED <<row, held, timer, others, drainFailures, replayed>>

-----------------------------------------------------------------------------
\* Time, and other keys.

\* FLUSH_INTERVAL_MS have passed since lastFlushAt.
IntervalPasses ==
    /\ held /\ ~buckets[Current].stale
    /\ buckets' = [buckets EXCEPT ![Current] = [@ EXCEPT !.stale = TRUE]]
    /\ UNCHANGED <<row, held, flight, awaiting, timer, status, passes, others,
                   drainFailures, replayed>>

ProvisionalWindowEnds ==
    /\ ~Pinned
    /\ held
    /\ buckets[Current].window = 0 /\ ~buckets[Current].ended
    /\ buckets' = [buckets EXCEPT ![Current] = [@ EXCEPT !.ended = TRUE]]
    /\ UNCHANGED <<row, held, flight, awaiting, timer, status, passes, others,
                   drainFailures, replayed>>

RowWindowEnds ==
    /\ ~row.over /\ row.window < MaxWindows
    /\ row' = [row EXCEPT !.over = TRUE]
    /\ UNCHANGED <<buckets, held, flight, awaiting, timer, status, passes, others,
                   drainFailures, replayed>>

\* recordBucket() for another key.
Evict ==
    /\ Crowded /\ held
    /\ held' = FALSE
    /\ UNCHANGED <<row, buckets, flight, awaiting, timer, status, passes, others,
                   drainFailures, replayed>>

Next ==
    \/ Hit \/ Commit \/ OthersFlush \/ Acknowledge \/ Fail
    \/ TimerFires \/ StartDrain \/ DrainPass
    \/ IntervalPasses \/ ProvisionalWindowEnds \/ RowWindowEnds \/ Evict

Spec == Init /\ [][Next]_vars

\* Timers fire, a query ends, and PostgreSQL does not fail for ever.
Fairness ==
    /\ WF_vars(TimerFires) /\ WF_vars(DrainPass)
    /\ WF_vars(Commit \/ Fail) /\ SF_vars(Commit) /\ SF_vars(Acknowledge)

FairSpec == Spec /\ Fairness

-----------------------------------------------------------------------------
\* Properties.

InFlight(n) == IF flight.phase # "none" /\ flight.bucket = n THEN flight.delta ELSE 0

\* No hit is lost or counted twice on its way from the bucket to PostgreSQL,
\* whatever arrives while a flush is in flight and however often it fails: each
\* is pending, in flight, acknowledged, or was dropped with an ended window.
HitsAccounted ==
    \A n \in 1..Len(buckets) :
        LET b == buckets[n]
        IN b.hits = b.pendingDelta + InFlight(n) + b.acked + b.dropped

AckedNow == SumFunction([n \in 1..Current |-> IF buckets[n].window = row.window
                                              THEN buckets[n].acked ELSE 0])
OthersNow == IF row.window = 0 THEN 0 ELSE others[row.window]

\* PostgreSQL counts for all instances: the row has every hit that any of them
\* saw acknowledged in its window, and more than the hits there were only by
\* flushes whose acknowledgement was lost.
RowCountsEveryone ==
    /\ row.count >= AckedNow + OthersNow
    /\ row.count <= Hits + replayed + OthersNow

\* Hits of a window that has ended are never sent any more, not by a timer set
\* before it ended, not by a retry, not at shutdown: they would seed the next.
FlushesAreCurrent ==
    [][flight.phase = "none" /\ flight'.phase = "sent" => ~Over(buckets'[flight'.bucket])]_vars

\* At shutdown only a flush that failed in each of the three passes leaves
\* accepted hits of a current window unwritten.
DrainTriesThrice ==
    status = "stopped" /\ Pending /\ ~Over(buckets[Current]) => drainFailures >= 3

\* rate-limit-counter.ts:24: with scheduleFlush a bucket's pending hits are
\* flushed "even if no further request arrives" (unless their window ends or
\* the instance stops).
IdleUsagePersisted ==
    Pending ~> \/ ~Pending \/ Over(buckets[Current]) \/ status = "stopped"
=============================================================================

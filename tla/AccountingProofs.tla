-------------------------- MODULE AccountingProofs --------------------------
(***************************************************************************)
(* Proofs about the two counts that are kept beside what they count.       *)
(*                                                                         *)
(* RateLimitCounter, for any mode and any bounds: no hit is lost or        *)
(* counted twice on the way to PostgreSQL, what is sent belongs to a       *)
(* window that has not ended, the row counts every instance's hits, and    *)
(* shutdown leaves hits unwritten only after three failures.               *)
(*                                                                         *)
(* ResponseCache, for any requests, sizes and lifetimes: the byte count is *)
(* the sum of the bodies that are kept, and only complete bodies of        *)
(* successful scrapes are kept.                                            *)
(***************************************************************************)
EXTENDS RateLimitCounter, ResponseCache, SequenceTheorems, FiniteSetTheorems, TLAPS

\* The inductive invariant.  That a flush in flight points to a bucket there is,
\* which the accounts need, is a part of TypeOK.
CounterInv == TypeOK /\ HitsAccounted

\* The account of one bucket with `sent' hits in flight.
Balanced(b, sent) == b.hits = b.pendingDelta + sent + b.acked + b.dropped

-----------------------------------------------------------------------------
\* What happens to one bucket.

\* The types of a bucket's fields.
LEMMA BucketFields ==
    ASSUME NEW b \in Bucket
    PROVE  /\ b.pendingDelta \in Nat /\ b.window \in Nat
           /\ b.hits \in Nat /\ b.acked \in Nat /\ b.dropped \in Nat
BY DEF Bucket

\* Updates of a bucket that keep its type.
LEMMA BucketUpdates ==
    ASSUME NEW b \in Bucket, NEW x \in Nat, NEW y \in Nat
    PROVE  /\ [b EXCEPT !.pendingDelta = x] \in Bucket
           /\ [b EXCEPT !.pendingDelta = x, !.hits = y] \in Bucket
           /\ [b EXCEPT !.pendingDelta = x, !.dropped = y] \in Bucket
BY DEF Bucket

\* A change that keeps the difference between a bucket's hits and the rest.
LEMMA SameDifference ==
    ASSUME NEW b \in Bucket, NEW c \in Bucket, NEW sent \in Nat, Balanced(c, sent),
           b.hits - b.pendingDelta - b.acked - b.dropped
           = c.hits - c.pendingDelta - c.acked - c.dropped
    PROVE  Balanced(b, sent)
BY BucketFields DEF Balanced

\* A hit adds to both sides of the account.
LEMMA CountedBucket ==
    ASSUME NEW b \in Bucket
    PROVE  /\ Counted(b) \in Bucket
           /\ Counted(b).hits - Counted(b).pendingDelta - Counted(b).acked - Counted(b).dropped
              = b.hits - b.pendingDelta - b.acked - b.dropped
<1>1. b.pendingDelta + 1 \in Nat /\ b.hits + 1 \in Nat
  BY BucketFields
<1>2. Counted(b) \in Bucket
  BY <1>1, BucketUpdates DEF Counted
<1>3. /\ Counted(b).pendingDelta = b.pendingDelta + 1 /\ Counted(b).hits = b.hits + 1
      /\ Counted(b).acked = b.acked /\ Counted(b).dropped = b.dropped
  BY DEF Counted, Bucket
<1> QED
  BY <1>2, <1>3, BucketFields

\* A flush takes the pending hits.
LEMMA CapturedBucket ==
    ASSUME NEW b \in Bucket, Balanced(b, 0)
    PROVE  Captured(b) \in Bucket /\ Balanced(Captured(b), b.pendingDelta)
<1>1. /\ Captured(b) \in Bucket
      /\ Captured(b).pendingDelta = 0 /\ Captured(b).hits = b.hits
      /\ Captured(b).acked = b.acked /\ Captured(b).dropped = b.dropped
  BY DEF Captured, Bucket
<1> QED
  BY <1>1, BucketFields DEF Balanced

\* An ended window takes the pending hits.
LEMMA ExpiredBucket ==
    ASSUME NEW b \in Bucket
    PROVE  /\ Expired(b) \in Bucket
           /\ Expired(b).hits - Expired(b).pendingDelta - Expired(b).acked - Expired(b).dropped
              = b.hits - b.pendingDelta - b.acked - b.dropped
<1>1. b.dropped + b.pendingDelta \in Nat /\ 0 \in Nat
  BY BucketFields
<1>2. Expired(b) \in Bucket
  BY <1>1, BucketUpdates DEF Expired
<1>3. /\ Expired(b).pendingDelta = 0 /\ Expired(b).dropped = b.dropped + b.pendingDelta
      /\ Expired(b).hits = b.hits /\ Expired(b).acked = b.acked
  BY DEF Expired, Bucket
<1> QED
  BY <1>2, <1>3, BucketFields

\* A failed flush gives back what it took.
LEMMA RestoredBucket ==
    ASSUME NEW b \in Bucket, flight.delta \in Nat, Balanced(b, flight.delta)
    PROVE  Restored(b) \in Bucket /\ Balanced(Restored(b), 0)
<1>1. b.pendingDelta + flight.delta \in Nat
  BY BucketFields
<1>2. Restored(b) \in Bucket
  BY <1>1, BucketUpdates DEF Restored
<1>3. /\ Restored(b).pendingDelta = b.pendingDelta + flight.delta
      /\ Restored(b).hits = b.hits /\ Restored(b).acked = b.acked
      /\ Restored(b).dropped = b.dropped
  BY DEF Restored, Bucket
<1> QED
  BY <1>2, <1>3, BucketFields DEF Balanced

\* An acknowledged flush adds to what was acknowledged in its window.
LEMMA AcknowledgedBucket ==
    ASSUME NEW b \in Bucket, Balanced(b, flight.delta),
           flight.delta \in Nat, flight.count \in Nat, flight.window \in Nat
    PROVE  Acknowledged(b) \in Bucket /\ Balanced(Acknowledged(b), 0)
<1> DEFINE before == IF flight.window = b.window THEN b.acked ELSE 0
           gone == b.dropped + b.acked - before
           c == [b EXCEPT !.syncedCount = flight.count, !.window = flight.window,
                          !.acked = before + flight.delta, !.dropped = gone]
<1>1. before \in Nat /\ before + flight.delta \in Nat /\ gone \in Nat
  BY BucketFields
<1>2. before + flight.delta + gone = b.acked + b.dropped + flight.delta
  BY <1>1, BucketFields
<1>3. Acknowledged(b) = c
  BY DEF Acknowledged
<1> HIDE DEF before, gone
<1>4. /\ c \in Bucket
      /\ c.hits = b.hits /\ c.pendingDelta = b.pendingDelta
      /\ c.acked = before + flight.delta /\ c.dropped = gone
  BY <1>1 DEF Bucket
<1> HIDE DEF c
<1> QED
  BY <1>1, <1>2, <1>3, <1>4, BucketFields DEF Balanced

-----------------------------------------------------------------------------
\* What happens to the buckets.

\* What keeps the invariant: `bs' are buckets of which the account of each is
\* even, given `fl' in flight.
Sound(bs, fl) ==
    /\ bs \in Seq(Bucket)
    /\ fl \in Flights
    /\ fl.phase # "none" => fl.bucket \in 1..Len(bs)
    /\ \A n \in 1..Len(bs) :
          Balanced(bs[n], IF fl.phase # "none" /\ fl.bucket = n THEN fl.delta ELSE 0)

\* The invariant is soundness of the buckets and types of the rest.
LEMMA InvIsSound == CounterInv => Sound(buckets, flight)
BY DEF CounterInv, TypeOK, HitsAccounted, Sound, Balanced, InFlight

\* In a sound state the accounts are even: the converse, for the next state.
LEMMA SoundIsInv == TypeOK' /\ Sound(buckets, flight)' => CounterInv'
BY DEF CounterInv, TypeOK, HitsAccounted, Sound, Balanced, InFlight

\* Replacing a bucket by one whose account is even with what is then in flight.
LEMMA ReplaceSound ==
    ASSUME NEW bs, NEW fl, Sound(bs, fl), NEW n \in 1..Len(bs), NEW b \in Bucket,
           NEW gl \in Flights,
           gl.phase # "none" => gl.bucket \in 1..Len(bs),
           Balanced(b, IF gl.phase # "none" /\ gl.bucket = n THEN gl.delta ELSE 0),
           \A m \in 1..Len(bs) \ {n} :
              (IF gl.phase # "none" /\ gl.bucket = m THEN gl.delta ELSE 0)
              = (IF fl.phase # "none" /\ fl.bucket = m THEN fl.delta ELSE 0)
    PROVE  /\ Sound([bs EXCEPT ![n] = b], gl)
           /\ Len([bs EXCEPT ![n] = b]) = Len(bs)
           /\ [bs EXCEPT ![n] = b][n] = b
<1> DEFINE cs == [bs EXCEPT ![n] = b]
<1>1. bs \in Seq(Bucket)
  BY DEF Sound
<1>2. /\ cs \in Seq(Bucket)
      /\ Len(cs) = Len(bs)
      /\ \A m \in 1..Len(bs) : cs[m] = IF m = n THEN b ELSE bs[m]
  BY <1>1, ExceptSeq
<1>3. ASSUME NEW m \in 1..Len(cs)
      PROVE  Balanced(cs[m], IF gl.phase # "none" /\ gl.bucket = m THEN gl.delta ELSE 0)
  BY <1>2, <1>3 DEF Sound
<1> QED
  BY <1>2, <1>3 DEF Sound

\* A new bucket is even.
LEMMA AppendSound ==
    ASSUME NEW bs, NEW fl, Sound(bs, fl)
    PROVE  /\ Sound(Append(bs, NewBucket), fl)
           /\ Len(Append(bs, NewBucket)) = Len(bs) + 1
           /\ Append(bs, NewBucket)[Len(bs) + 1] = NewBucket
<1> DEFINE cs == Append(bs, NewBucket)
<1>1. bs \in Seq(Bucket) /\ Len(bs) \in Nat
  BY DEF Sound
<1>2. NewBucket \in Bucket
  BY DEF NewBucket, Bucket
<1>3. /\ cs \in Seq(Bucket)
      /\ Len(cs) = Len(bs) + 1
      /\ \A m \in 1..Len(bs) : cs[m] = bs[m]
      /\ cs[Len(bs) + 1] = NewBucket
  BY <1>1, <1>2, AppendProperties
<1>4. ASSUME NEW m \in 1..Len(cs)
      PROVE  Balanced(cs[m], IF fl.phase # "none" /\ fl.bucket = m THEN fl.delta ELSE 0)
  <2>1. CASE m \in 1..Len(bs)
    BY <2>1, <1>3 DEF Sound
  <2>2. CASE m = Len(bs) + 1
    <3>1. ~(fl.phase # "none" /\ fl.bucket = m)
      BY <1>1, <2>2 DEF Sound
    <3> QED
      BY <3>1, <2>2, <1>3 DEF Balanced, NewBucket
  <2> QED
    BY <2>1, <2>2, <1>1, <1>3
<1> QED
  BY <1>1, <1>3, <1>4 DEF Sound

\* Bucket n changes, with what is in flight for it unchanged.
LEMMA ChangeSound ==
    ASSUME NEW bs, NEW fl, Sound(bs, fl), NEW n \in 1..Len(bs), NEW b \in Bucket,
           b.hits - b.pendingDelta - b.acked - b.dropped
           = bs[n].hits - bs[n].pendingDelta - bs[n].acked - bs[n].dropped
    PROVE  /\ Sound([bs EXCEPT ![n] = b], fl)
           /\ Len([bs EXCEPT ![n] = b]) = Len(bs)
           /\ [bs EXCEPT ![n] = b][n] = b
<1> DEFINE sent == IF fl.phase # "none" /\ fl.bucket = n THEN fl.delta ELSE 0
<1>1. bs[n] \in Bucket /\ fl \in Flights /\ Balanced(bs[n], sent)
  BY ElementOfSeq DEF Sound
<1>2. sent \in Nat
  BY <1>1 DEF Flights
<1> HIDE DEF sent
<1>3. Balanced(b, sent)
  BY <1>1, <1>2, SameDifference
<1>4. fl.phase # "none" => fl.bucket \in 1..Len(bs)
  BY DEF Sound
<1> QED
  BY <1>1, <1>3, <1>4, ReplaceSound DEF sent

\* flushBucket() moves the pending hits into flight, or leaves the buckets alone.
LEMMA FlushSound ==
    ASSUME NEW who, NEW counted, NEW n \in 1..Len(counted),
           Sound(counted, flight), Flush(who, n, counted)
    PROVE  /\ Sound(buckets, flight)'
           /\ Len(buckets') = Len(counted)
           /\ awaiting' = awaiting \cup {<<who, n>>}
<1>1. CASE flight # NoFlight
  BY <1>1 DEF Flush
<1>2. CASE flight = NoFlight
  <2> DEFINE b == counted[n]
             gl == [phase |-> "sent", bucket |-> n, delta |-> b.pendingDelta]
  <2>1. flight' = gl /\ buckets' = [counted EXCEPT ![n] = Captured(b)]
    BY <1>2 DEF Flush
  <2>2. b \in Bucket /\ Len(counted) \in Nat
    BY ElementOfSeq DEF Sound
  <2>3. b.pendingDelta \in Nat /\ n \in Nat
    BY <2>2, BucketFields
  <2>4. gl \in Flights
    BY <2>3 DEF Flights
  <2>5. Captured(b) \in Bucket /\ Balanced(Captured(b), b.pendingDelta)
    BY <1>2, <2>2, CapturedBucket DEF Sound, NoFlight
  <2>6. Sound([counted EXCEPT ![n] = Captured(b)], gl)
        /\ Len([counted EXCEPT ![n] = Captured(b)]) = Len(counted)
    BY <1>2, <2>4, <2>5, ReplaceSound DEF NoFlight
  <2> QED
    BY <2>1, <2>6 DEF Flush
<1> QED
  BY <1>1, <1>2

\* A hit is counted once, in the bucket there is or in a new one.
LEMMA HitInv == CounterInv /\ Hit => CounterInv'
<1> SUFFICES ASSUME CounterInv, Hit PROVE CounterInv'
  OBVIOUS
<1> DEFINE found == IF Bucketed THEN buckets ELSE Append(buckets, NewBucket)
           n == Len(found)
           counted == [found EXCEPT ![n] = Counted(found[n])]
<1>1. TypeOK /\ Sound(buckets, flight)
  BY InvIsSound DEF CounterInv
<1>2. Len(buckets) \in Nat
  BY <1>1 DEF TypeOK
<1>3. Sound(found, flight) /\ n \in 1..Len(found) /\ Len(buckets) <= n
  <2>1. CASE Bucketed
    BY <2>1, <1>1, <1>2 DEF Bucketed, TypeOK
  <2>2. CASE ~Bucketed
    BY <2>2, <1>1, <1>2, AppendSound
  <2> QED
    BY <2>1, <2>2
<1>4. found[n] \in Bucket
  BY <1>3, ElementOfSeq DEF Sound
<1>5. /\ Counted(found[n]) \in Bucket
      /\ Counted(found[n]).hits - Counted(found[n]).pendingDelta
         - Counted(found[n]).acked - Counted(found[n]).dropped
         = found[n].hits - found[n].pendingDelta - found[n].acked - found[n].dropped
  BY <1>4, CountedBucket
<1>7. Sound(counted, flight) /\ Len(counted) = n
  <2> HIDE DEF found
  <2> QED
    BY <1>3, <1>5, ChangeSound
<1>8. /\ IF counted[n].stale
         THEN Flush("hit", n, counted) /\ UNCHANGED timer
         ELSE /\ buckets' = counted
              /\ timer' = IF CanSchedule THEN n ELSE timer
              /\ UNCHANGED <<flight, awaiting>>
      /\ held' = TRUE
      /\ UNCHANGED <<row, status, passes, others, drainFailures, replayed>>
  BY DEF Hit
<1> HIDE DEF counted, found
<1>9. /\ Sound(buckets, flight)' /\ Len(buckets') = n
      /\ awaiting' \subseteq awaiting \cup {<<"hit", n>>}
      /\ timer' \in {timer, n}
  <2>1. CASE counted[n].stale
    BY <2>1, <1>3, <1>7, <1>8, FlushSound
  <2>2. CASE ~counted[n].stale
    BY <2>2, <1>7, <1>8
  <2> QED
    BY <2>1, <2>2
<1>10. TypeOK'
  <2>1. 1..Len(buckets) \subseteq 1..n /\ n \in 1..n /\ n \in Nat \ {0}
    BY <1>2, <1>3, <1>9
  <2>2. awaiting' \subseteq {"hit", "timer"} \X (1..Len(buckets'))
    BY <1>1, <1>9, <2>1 DEF TypeOK
  <2>3. timer' \in 0..Len(buckets')
    BY <1>1, <1>9, <2>1 DEF TypeOK
  <2> QED
    BY <1>1, <1>8, <1>9, <2>1, <2>2, <2>3 DEF TypeOK, Sound
<1> QED
  BY <1>9, <1>10, SoundIsInv

\* What is left to type when a flush has settled.
LEMMA ResumeTypes ==
    ASSUME TypeOK, Resume, buckets' \in Seq(Bucket), Len(buckets') = Len(buckets)
    PROVE  /\ flight' = NoFlight
           /\ awaiting' = {}
           /\ timer' \in 0..Len(buckets')
<1> DEFINE wants(w) == /\ buckets'[w[2]].pendingDelta > 0
                       /\ w[1] = "timer" => InMap(w[2]) /\ ~Over(buckets'[w[2]])
           wanting == {w[2] : w \in {x \in awaiting : wants(x)}}
<1>1. /\ awaiting' = {}
      /\ flight' = NoFlight
      /\ IF CanSchedule /\ wanting # {}
         THEN timer' \in {n \in wanting : \A m \in wanting : n <= m}
         ELSE UNCHANGED timer
  BY DEF Resume
<1>2. awaiting \subseteq {"hit", "timer"} \X (1..Len(buckets)) /\ timer \in 0..Len(buckets)
  BY DEF TypeOK
<1>3. ASSUME NEW n \in wanting PROVE n \in 1..Len(buckets)
  <2>1. PICK w \in awaiting : n = w[2]
    OBVIOUS
  <2> QED
    BY <1>2, <2>1
<1> HIDE DEF wanting
<1> QED
  BY <1>1, <1>2, <1>3

\* An acknowledged flush moves its hits from the flight to the acknowledged ones.
LEMMA AcknowledgeInv == CounterInv /\ Acknowledge => CounterInv'
<1> SUFFICES ASSUME CounterInv, Acknowledge PROVE CounterInv'
  OBVIOUS
<1> DEFINE n == flight.bucket
           b == buckets[n]
<1>1. TypeOK /\ Sound(buckets, flight)
  BY InvIsSound DEF CounterInv
<1>2. n \in 1..Len(buckets) /\ flight.phase = "committed"
  BY <1>1 DEF Acknowledge, TypeOK
<1>3. b \in Bucket /\ Balanced(b, flight.delta)
  BY <1>1, <1>2, ElementOfSeq DEF Sound
<1>4. flight.delta \in Nat /\ flight.count \in Nat /\ flight.window \in Nat
  BY <1>1, <1>2 DEF TypeOK, Flights
<1>5. Acknowledged(b) \in Bucket /\ Balanced(Acknowledged(b), 0)
  BY <1>3, <1>4, AcknowledgedBucket
<1>6. NoFlight \in Flights /\ NoFlight.phase = "none"
  BY DEF NoFlight, Flights
<1>7. /\ Sound([buckets EXCEPT ![n] = Acknowledged(b)], NoFlight)
      /\ Len([buckets EXCEPT ![n] = Acknowledged(b)]) = Len(buckets)
  <2> HIDE DEF n
  <2> QED
    BY <1>1, <1>2, <1>5, <1>6, ReplaceSound DEF n
<1>8. buckets' = [buckets EXCEPT ![n] = Acknowledged(b)]
      /\ Resume /\ UNCHANGED <<row, held, status, passes, others, drainFailures, replayed>>
  BY DEF Acknowledge
<1>9. flight' = NoFlight /\ awaiting' = {} /\ timer' \in 0..Len(buckets')
  BY <1>1, <1>7, <1>8, ResumeTypes DEF Sound
<1>10. TypeOK'
  BY <1>1, <1>6, <1>7, <1>8, <1>9 DEF TypeOK, Sound
<1> QED
  BY <1>7, <1>8, <1>9, <1>10, SoundIsInv

\* A failed flush gives its hits back.
LEMMA FailInv == CounterInv /\ Fail => CounterInv'
<1> SUFFICES ASSUME CounterInv, Fail PROVE CounterInv'
  OBVIOUS
<1> DEFINE n == flight.bucket
           b == buckets[n]
<1>1. TypeOK /\ Sound(buckets, flight)
  BY InvIsSound DEF CounterInv
<1>2. n \in 1..Len(buckets) /\ flight.phase # "none"
  BY <1>1 DEF Fail, TypeOK
<1>3. b \in Bucket /\ Balanced(b, flight.delta)
  BY <1>1, <1>2, ElementOfSeq DEF Sound
<1>4. flight.delta \in Nat
  BY <1>1, <1>2 DEF TypeOK, Flights
<1>5. Restored(b) \in Bucket /\ Balanced(Restored(b), 0)
  BY <1>3, <1>4, RestoredBucket
<1>6. NoFlight \in Flights /\ NoFlight.phase = "none"
  BY DEF NoFlight, Flights
<1>7. /\ Sound([buckets EXCEPT ![n] = Restored(b)], NoFlight)
      /\ Len([buckets EXCEPT ![n] = Restored(b)]) = Len(buckets)
  <2> HIDE DEF n
  <2> QED
    BY <1>1, <1>2, <1>5, <1>6, ReplaceSound DEF n
<1>8. /\ buckets' = [buckets EXCEPT ![n] = Restored(b)]
      /\ Resume /\ UNCHANGED <<row, held, status, passes, others>>
      /\ replayed' \in {replayed, replayed + flight.delta}
      /\ drainFailures' \in {drainFailures, drainFailures + 1}
  BY DEF Fail
<1>9. flight' = NoFlight /\ awaiting' = {} /\ timer' \in 0..Len(buckets')
  BY <1>1, <1>7, <1>8, ResumeTypes DEF Sound
<1>10. replayed' \in Nat /\ drainFailures' \in Nat
  BY <1>1, <1>4, <1>8 DEF TypeOK
<1>11. TypeOK'
  BY <1>1, <1>6, <1>7, <1>8, <1>9, <1>10 DEF TypeOK, Sound
<1> QED
  BY <1>7, <1>8, <1>9, <1>11, SoundIsInv

\* flushIfCurrent() drops the pending hits of an ended window or flushes them.
LEMMA FlushIfCurrentSound ==
    ASSUME CounterInv, Current > 0, FlushIfCurrent
    PROVE  /\ Sound(buckets, flight)'
           /\ Len(buckets') = Len(buckets)
           /\ awaiting' \subseteq {"hit", "timer"} \X (1..Len(buckets'))
<1> DEFINE n == Current
           b == buckets[n]
<1>1. TypeOK /\ Sound(buckets, flight)
  BY InvIsSound DEF CounterInv
<1>2. n \in 1..Len(buckets)
  BY <1>1 DEF TypeOK, Current
<1>3. b \in Bucket
  BY <1>1, <1>2, ElementOfSeq DEF Sound
<1>4. CASE Over(b)
  <2>1. buckets' = [buckets EXCEPT ![n] = Expired(b)] /\ UNCHANGED <<flight, awaiting>>
    BY <1>4 DEF FlushIfCurrent
  <2>2. /\ Expired(b) \in Bucket
        /\ Expired(b).hits - Expired(b).pendingDelta - Expired(b).acked - Expired(b).dropped
           = b.hits - b.pendingDelta - b.acked - b.dropped
    BY <1>3, ExpiredBucket
  <2>4. /\ Sound([buckets EXCEPT ![n] = Expired(b)], flight)
        /\ Len([buckets EXCEPT ![n] = Expired(b)]) = Len(buckets)
    <3> HIDE DEF n
    <3> QED
      BY <1>1, <1>2, <2>2, ChangeSound
  <2> QED
    BY <1>1, <2>1, <2>4 DEF TypeOK
<1>5. CASE ~Over(b)
  <2>1. Flush("timer", n, buckets)
    BY <1>5 DEF FlushIfCurrent
  <2>2. /\ Sound(buckets, flight)' /\ Len(buckets') = Len(buckets)
        /\ awaiting' = awaiting \cup {<<"timer", n>>}
    BY <1>1, <1>2, <2>1, FlushSound
  <2> QED
    BY <1>1, <1>2, <2>2 DEF TypeOK
<1> QED
  BY <1>4, <1>5

\* A timer that fires.
LEMMA TimerFiresInv == CounterInv /\ TimerFires => CounterInv'
<1> SUFFICES ASSUME CounterInv, TimerFires PROVE CounterInv'
  OBVIOUS
<1>1. TypeOK /\ Sound(buckets, flight)
  BY InvIsSound DEF CounterInv
<1>2. timer' = 0 /\ UNCHANGED <<row, held, status, passes, others, drainFailures, replayed>>
  BY DEF TimerFires
<1>3. CASE InMap(timer) /\ Pending
  <2>1. FlushIfCurrent /\ Current > 0
    BY <1>3 DEF TimerFires, InMap
  <2>2. /\ Sound(buckets, flight)' /\ Len(buckets') = Len(buckets)
        /\ awaiting' \subseteq {"hit", "timer"} \X (1..Len(buckets'))
    BY <2>1, FlushIfCurrentSound
  <2>3. TypeOK'
    BY <1>1, <1>2, <2>2 DEF TypeOK, Sound
  <2> QED
    BY <2>2, <2>3, SoundIsInv
<1>4. CASE ~(InMap(timer) /\ Pending)
  <2>1. UNCHANGED <<buckets, flight, awaiting>>
    BY <1>4 DEF TimerFires
  <2>2. TypeOK'
    BY <1>1, <1>2, <2>1 DEF TypeOK
  <2> QED
    BY <1>1, <2>1, <2>2, SoundIsInv
<1> QED
  BY <1>3, <1>4

\* A pass of drain(), or its end.
LEMMA DrainPassInv == CounterInv /\ DrainPass => CounterInv'
<1> SUFFICES ASSUME CounterInv, DrainPass PROVE CounterInv'
  OBVIOUS
<1>1. TypeOK /\ Sound(buckets, flight)
  BY InvIsSound DEF CounterInv
<1>2. UNCHANGED <<row, held, timer, others, drainFailures, replayed>>
  BY DEF DrainPass
<1>3. CASE Pending /\ passes < 3
  <2>1. FlushIfCurrent /\ passes' = passes + 1 /\ UNCHANGED status
    BY <1>3 DEF DrainPass
  <2>2. Current > 0
    BY <1>1, <1>3 DEF Pending, TypeOK, Current
  <2>3. /\ Sound(buckets, flight)' /\ Len(buckets') = Len(buckets)
        /\ awaiting' \subseteq {"hit", "timer"} \X (1..Len(buckets'))
    BY <2>1, <2>2, FlushIfCurrentSound
  <2>4. TypeOK'
    BY <1>1, <1>2, <1>3, <2>1, <2>3 DEF TypeOK, Sound
  <2> QED
    BY <2>3, <2>4, SoundIsInv
<1>4. CASE ~(Pending /\ passes < 3)
  <2>1. status' = "stopped" /\ UNCHANGED <<buckets, flight, awaiting, passes>>
    BY <1>4 DEF DrainPass
  <2>2. TypeOK'
    BY <1>1, <1>2, <2>1 DEF TypeOK
  <2> QED
    BY <1>1, <2>1, <2>2, SoundIsInv
<1> QED
  BY <1>3, <1>4

\* The row changes hands, and the flight learns what it held.
LEMMA CommitInv == CounterInv /\ Commit => CounterInv'
<1> SUFFICES ASSUME CounterInv, Commit PROVE CounterInv'
  OBVIOUS
<1>1. TypeOK /\ Sound(buckets, flight)
  BY InvIsSound DEF CounterInv
<1>2. /\ flight.phase = "sent" /\ row' = Committed(flight.delta)
      /\ flight' = [phase |-> "committed", bucket |-> flight.bucket, delta |-> flight.delta,
                    count |-> row'.count, window |-> row'.window]
      /\ UNCHANGED <<buckets, held, awaiting, timer, status, passes, others,
                     drainFailures, replayed>>
  BY DEF Commit
<1>3. flight.delta \in Nat /\ flight.bucket \in 1..Len(buckets) /\ flight.bucket \in Nat
  BY <1>1, <1>2 DEF TypeOK, Flights
<1>4. row' \in [count : Nat, window : Nat, over : BOOLEAN]
  BY <1>1, <1>2, <1>3 DEF TypeOK, Committed
<1>5. /\ flight' \in Flights /\ flight'.phase = "committed"
      /\ flight'.bucket = flight.bucket /\ flight'.delta = flight.delta
  BY <1>2, <1>3, <1>4 DEF Flights
<1>6. Sound(buckets, flight)'
  BY <1>1, <1>2, <1>5 DEF Sound
<1>7. TypeOK'
  BY <1>1, <1>2, <1>3, <1>4, <1>5 DEF TypeOK
<1> QED
  BY <1>6, <1>7, SoundIsInv

\* Another instance's flush changes the row only.
LEMMA OthersFlushInv == CounterInv /\ OthersFlush => CounterInv'
<1> SUFFICES ASSUME CounterInv, OthersFlush PROVE CounterInv'
  OBVIOUS
<1>1. TypeOK /\ Sound(buckets, flight)
  BY InvIsSound DEF CounterInv
<1>2. /\ row' = Committed(1) /\ others' = [others EXCEPT ![row'.window] = others[row'.window] + 1]
      /\ UNCHANGED <<buckets, held, flight, awaiting, timer, status, passes,
                     drainFailures, replayed>>
  BY DEF OthersFlush
<1>3. row' \in [count : Nat, window : Nat, over : BOOLEAN]
  BY <1>1, <1>2 DEF TypeOK, Committed
<1>4. others' \in [1..MaxWindows -> Nat]
  <2>1. others \in [1..MaxWindows -> Nat]
    BY <1>1 DEF TypeOK
  <2>2. CASE row'.window \in 1..MaxWindows
    BY <1>2, <2>1, <2>2
  <2>3. CASE row'.window \notin 1..MaxWindows
    BY <1>2, <2>1, <2>3
  <2> QED
    BY <2>2, <2>3
<1>5. TypeOK'
  BY <1>1, <1>2, <1>3, <1>4 DEF TypeOK
<1> QED
  BY <1>1, <1>2, <1>5, SoundIsInv

\* Time passes for a bucket: none of its hits is touched.
LEMMA ClockInv ==
    ASSUME CounterInv, IntervalPasses \/ ProvisionalWindowEnds
    PROVE  CounterInv'
<1> DEFINE n == Current
<1>1. TypeOK /\ Sound(buckets, flight)
  BY InvIsSound DEF CounterInv
<1>2. n \in 1..Len(buckets) /\ buckets[n] \in Bucket
  BY <1>1, ElementOfSeq DEF TypeOK, Current, IntervalPasses, ProvisionalWindowEnds
<1>3. PICK b \in Bucket :
         /\ buckets' = [buckets EXCEPT ![n] = b]
         /\ b.hits = buckets[n].hits /\ b.pendingDelta = buckets[n].pendingDelta
         /\ b.acked = buckets[n].acked /\ b.dropped = buckets[n].dropped
  <2>1. CASE IntervalPasses
    <3> DEFINE b == [buckets[n] EXCEPT !.stale = TRUE]
    <3>1. buckets' = [buckets EXCEPT ![n] = b]
      BY <2>1 DEF IntervalPasses
    <3>2. b \in Bucket /\ b.hits = buckets[n].hits /\ b.pendingDelta = buckets[n].pendingDelta
          /\ b.acked = buckets[n].acked /\ b.dropped = buckets[n].dropped
      BY <1>2 DEF Bucket
    <3> QED
      BY <3>1, <3>2
  <2>2. CASE ProvisionalWindowEnds
    <3> DEFINE b == [buckets[n] EXCEPT !.ended = TRUE]
    <3>1. buckets' = [buckets EXCEPT ![n] = b]
      BY <2>2 DEF ProvisionalWindowEnds
    <3>2. b \in Bucket /\ b.hits = buckets[n].hits /\ b.pendingDelta = buckets[n].pendingDelta
          /\ b.acked = buckets[n].acked /\ b.dropped = buckets[n].dropped
      BY <1>2 DEF Bucket
    <3> QED
      BY <3>1, <3>2
  <2> QED
    BY <2>1, <2>2
<1>4. UNCHANGED <<row, held, flight, awaiting, timer, status, passes, others,
                  drainFailures, replayed>>
  BY DEF IntervalPasses, ProvisionalWindowEnds
<1>5. Sound(buckets', flight) /\ Len(buckets') = Len(buckets)
  <2> HIDE DEF n
  <2> QED
    BY <1>1, <1>2, <1>3, ChangeSound
<1>6. TypeOK'
  BY <1>1, <1>4, <1>5 DEF TypeOK, Sound
<1> QED
  BY <1>4, <1>5, <1>6, SoundIsInv

\* The other steps leave buckets and flight alone.
LEMMA OtherInv ==
    ASSUME CounterInv, StartDrain \/ RowWindowEnds \/ Evict \/ UNCHANGED vars
    PROVE  CounterInv'
<1>1. TypeOK /\ Sound(buckets, flight)
  BY InvIsSound DEF CounterInv
<1>2. UNCHANGED <<buckets, flight, awaiting, others>>
  BY DEF StartDrain, RowWindowEnds, Evict, vars
<1>3. ASSUME StartDrain PROVE TypeOK'
  BY <1>1, <1>2, <1>3 DEF TypeOK, StartDrain
<1>4. ASSUME RowWindowEnds PROVE TypeOK'
  <2>1. row' \in [count : Nat, window : Nat, over : BOOLEAN]
    BY <1>1, <1>4 DEF TypeOK, RowWindowEnds
  <2> QED
    BY <1>1, <1>2, <1>4, <2>1 DEF TypeOK, RowWindowEnds
<1>5. ASSUME Evict PROVE TypeOK'
  BY <1>1, <1>2, <1>5 DEF TypeOK, Evict
<1>6. ASSUME UNCHANGED vars PROVE TypeOK'
  BY <1>1, <1>6 DEF TypeOK, vars
<1>7. TypeOK' /\ Sound(buckets, flight)'
  BY <1>1, <1>2, <1>3, <1>4, <1>5, <1>6
<1> QED
  BY <1>7, SoundIsInv

\* Every step keeps the invariant.
LEMMA NextInv == CounterInv /\ [Next]_vars => CounterInv'
BY HitInv, CommitInv, OthersFlushInv, AcknowledgeInv, FailInv, TimerFiresInv,
   DrainPassInv, ClockInv, OtherInv DEF Next

\* It holds of a counter that has seen no request.
LEMMA InitInv == Init => CounterInv
<1> SUFFICES ASSUME Init PROVE CounterInv
  OBVIOUS
<1>1. buckets \in Seq(Bucket) /\ Len(buckets) = 0
  BY EmptySeq DEF Init
<1>2. TypeOK
  <2>1. NoFlight \in Flights /\ NoFlight.phase = "none"
    BY DEF Flights, NoFlight
  <2>2. others \in [1..MaxWindows -> Nat]
    BY DEF Init
  <2>3. row \in [count : Nat, window : Nat, over : BOOLEAN]
    BY DEF Init
  <2>4. /\ awaiting = {} /\ timer = 0 /\ held = FALSE /\ status = "serving"
        /\ passes = 0 /\ drainFailures = 0 /\ replayed = 0 /\ flight = NoFlight
    BY DEF Init
  <2>5. timer \in 0..Len(buckets) /\ passes \in 0..3
    BY <1>1, <2>4
  <2>6. flight \in Flights /\ flight.phase = "none"
    BY <2>1, <2>4
  <2>7. awaiting \subseteq {"hit", "timer"} \X (1..Len(buckets))
    BY <2>4
  <2> QED
    BY <1>1, <2>2, <2>3, <2>4, <2>5, <2>6, <2>7 DEF TypeOK
<1>3. HitsAccounted
  BY <1>1 DEF HitsAccounted
<1> QED
  BY <1>2, <1>3 DEF CounterInv

\* The variables of the counter keep their types.
THEOREM CounterTypeCorrect == Spec => []TypeOK
<1>1. CounterInv => TypeOK
  BY DEF CounterInv
<1> QED
  BY <1>1, InitInv, NextInv, PTL DEF Spec

\* flushBucket() and its callers lose no hit and count none twice.
THEOREM NoHitLost == Spec => []HitsAccounted
<1>1. CounterInv => HitsAccounted
  BY DEF CounterInv
<1> QED
  BY <1>1, InitInv, NextInv, PTL DEF Spec

-----------------------------------------------------------------------------
\* What is sent belongs to a window that has not ended.

\* A flush that starts sends what bucket n had pending; n does not end by that.
LEMMA FlushSends ==
    ASSUME NEW who, NEW counted \in Seq(Bucket), NEW n \in 1..Len(counted),
           ~Over(counted[n]), flight.phase = "none", flight \in Flights,
           Flush(who, n, counted)
    PROVE  flight'.bucket = n /\ ~Over(buckets'[n])
<1> DEFINE b == counted[n]
<1>1. flight = NoFlight
  BY DEF Flights, NoFlight
<1>2. /\ flight' = [phase |-> "sent", bucket |-> n, delta |-> b.pendingDelta]
      /\ buckets' = [counted EXCEPT ![n] = Captured(b)]
  BY <1>1 DEF Flush
<1>3. b \in Bucket
  BY ElementOfSeq
<1>4. Captured(b) \in Bucket /\ Captured(b).window = b.window /\ Captured(b).ended = b.ended
  BY <1>3 DEF Captured, Bucket
<1>5. buckets'[n] = Captured(b)
  BY <1>2, <1>4, ExceptSeq
<1> QED
  BY <1>2, <1>4, <1>5 DEF Over

\* A hit is flushed with the bucket it was counted in, which has not ended.
LEMMA HitSends ==
    ASSUME CounterInv, Hit, flight.phase = "none", flight'.phase = "sent"
    PROVE  ~Over(buckets'[flight'.bucket])
<1> DEFINE found == IF Bucketed THEN buckets ELSE Append(buckets, NewBucket)
           n == Len(found)
           counted == [found EXCEPT ![n] = Counted(found[n])]
<1>1. buckets \in Seq(Bucket) /\ Len(buckets) \in Nat /\ flight \in Flights
      /\ (held => Len(buckets) > 0)
  BY DEF CounterInv, TypeOK
<1>2. found \in Seq(Bucket) /\ n \in 1..Len(found) /\ ~Over(found[n])
  <2>1. CASE Bucketed
    BY <2>1, <1>1 DEF Bucketed, Current
  <2>2. CASE ~Bucketed
    <3>1. NewBucket \in Bucket
      BY DEF NewBucket, Bucket
    <3>2. found \in Seq(Bucket) /\ n = Len(buckets) + 1 /\ found[n] = NewBucket
      BY <2>2, <1>1, <3>1, AppendProperties
    <3>3. ~Over(NewBucket)
      BY DEF Over, NewBucket
    <3> QED
      BY <1>1, <3>2, <3>3
  <2> QED
    BY <2>1, <2>2
<1>3. found[n] \in Bucket
  BY <1>2, ElementOfSeq
<1>4. /\ Counted(found[n]) \in Bucket
      /\ Counted(found[n]).window = found[n].window
      /\ Counted(found[n]).ended = found[n].ended
  <2>1. ASSUME NEW b \in Bucket
        PROVE  Counted(b).window = b.window /\ Counted(b).ended = b.ended
    BY DEF Counted, Bucket
  <2> QED
    BY <1>3, <2>1, CountedBucket
<1>5. IF counted[n].stale
      THEN Flush("hit", n, counted)
      ELSE UNCHANGED flight
  BY DEF Hit
<1> HIDE DEF found
<1>6. counted \in Seq(Bucket) /\ Len(counted) = Len(found) /\ counted[n] = Counted(found[n])
  BY <1>2, <1>4, ExceptSeq
<1>7. ~Over(counted[n])
  BY <1>2, <1>4, <1>6 DEF Over
<1>8. Flush("hit", n, counted)
  BY <1>5
<1> QED
  BY <1>1, <1>2, <1>6, <1>7, <1>8, FlushSends

\* flushIfCurrent() looks at the window before it sends.
LEMMA FlushIfCurrentSends ==
    ASSUME CounterInv, Current > 0, FlushIfCurrent,
           flight.phase = "none", flight'.phase = "sent"
    PROVE  ~Over(buckets'[flight'.bucket])
<1>1. buckets \in Seq(Bucket) /\ Current \in 1..Len(buckets) /\ flight \in Flights
  BY DEF CounterInv, TypeOK, Current
<1>2. ~Over(buckets[Current]) /\ Flush("timer", Current, buckets)
  BY DEF FlushIfCurrent
<1> QED
  BY <1>1, <1>2, FlushSends

\* Hits of a window that has ended are not sent by a hit, a timer, a retry or the
\* drain: flushIfCurrent() and hit() check the window in the step that sends.
THEOREM NothingLateIsSent == Spec => FlushesAreCurrent
<1> DEFINE Timely == flight.phase = "none" /\ flight'.phase = "sent"
                     => ~Over(buckets'[flight'.bucket])
<1>1. CounterInv /\ [Next]_vars => [Timely]_vars
  <2> SUFFICES ASSUME CounterInv, Next, flight.phase = "none", flight'.phase = "sent"
               PROVE  ~Over(buckets'[flight'.bucket])
    OBVIOUS
  <2>1. CASE Hit
    BY <2>1, HitSends
  <2>2. CASE TimerFires
    <3>1. FlushIfCurrent /\ Current > 0
      BY <2>2 DEF TimerFires, InMap
    <3> QED
      BY <3>1, FlushIfCurrentSends
  <2>3. CASE DrainPass
    <3>1. FlushIfCurrent /\ Current > 0
      BY <2>3 DEF DrainPass, Pending, Current, CounterInv, TypeOK
    <3> QED
      BY <3>1, FlushIfCurrentSends
  <2>4. CASE Commit \/ Acknowledge \/ Fail
    <3>1. flight'.phase # "sent"
      BY <2>4 DEF Commit, Acknowledge, Fail, Resume, NoFlight
    <3> QED
      BY <3>1
  <2>5. CASE OthersFlush \/ StartDrain \/ IntervalPasses \/ ProvisionalWindowEnds
             \/ RowWindowEnds \/ Evict
    <3>1. flight' = flight
      BY <2>5 DEF OthersFlush, StartDrain, IntervalPasses, ProvisionalWindowEnds,
                  RowWindowEnds, Evict
    <3> QED
      BY <3>1
  <2> QED
    BY <2>1, <2>2, <2>3, <2>4, <2>5 DEF Next
<1> QED
  BY <1>1, InitInv, NextInv, PTL DEF Spec, FlushesAreCurrent

-----------------------------------------------------------------------------
\* Sums.  What SumFunctionOnSet computes follows from its definition by the
\* smallest set for which it would not.

\* A set of subsets has a smallest member.
LEMMA SmallestSubset ==
    ASSUME NEW S, IsFiniteSet(S), NEW B \in SUBSET (SUBSET S), B # {}
    PROVE  \E T \in B : \A U \in B : U \subseteq T => U = T
<1>1. IsWellFoundedOn(StrictSubsetOrdering(S), SUBSET S)
  BY FS_StrictSubsetOrderingWellFounded, FS_FiniteSubsetsOfFinite
<1>2. PICK T \in B : \A U \in B : <<U, T>> \notin StrictSubsetOrdering(S)
  BY <1>1, WFMin
<1> QED
  BY <1>2 DEF StrictSubsetOrdering

\* The element that a fold takes first.
First(S) == CHOOSE x \in S : TRUE

\* g has the sums of f over the subsets of S.
HasSums(g, f, S) ==
    g = [s \in SUBSET S |-> IF s = {} THEN 0 ELSE f[First(s)] + g[s \ {First(s)}]]

LEMMA SumDef == \A f, S : SumFunctionOnSet(f, S) = (CHOOSE g : HasSums(g, f, S))[S]
BY DEF SumFunctionOnSet, FoldFunctionOnSet, MapThenFoldSet, HasSums, First

LEMMA FirstIsIn == \A S : S # {} => First(S) \in S
BY DEF First

\* Sums are the same, of whichever set they are taken as subsets.
LEMMA SumsAgree ==
    ASSUME NEW f, NEW S, NEW T, NEW g, NEW h, IsFiniteSet(S),
           HasSums(g, f, S), HasSums(h, f, T), NEW V, V \subseteq S, V \subseteq T
    PROVE  g[V] = h[V]
<1> DEFINE Bad == {s \in SUBSET S : s \subseteq T /\ g[s] # h[s]}
<1>1. ASSUME Bad # {} PROVE FALSE
  <2>1. PICK s \in Bad : \A u \in Bad : u \subseteq s => u = s
    <3>1. Bad \in SUBSET (SUBSET S)
      OBVIOUS
    <3> HIDE DEF Bad
    <3> QED
      BY <1>1, <3>1, SmallestSubset
  <2>2. s # {}
    BY DEF HasSums
  <2>3. s \ {First(s)} \notin Bad
    BY <2>1, <2>2, FirstIsIn
  <2>4. g[s] = f[First(s)] + g[s \ {First(s)}] /\ h[s] = f[First(s)] + h[s \ {First(s)}]
    BY <2>2 DEF HasSums
  <2> QED
    BY <2>3, <2>4
<1> QED
  BY <1>1

\* There are sums.
LEMMA SumsExist ==
    ASSUME NEW f, NEW S, IsFiniteSet(S)
    PROVE  \E g : HasSums(g, f, S)
<1> DEFINE Bad == {s \in SUBSET S : ~ \E g : HasSums(g, f, s)}
<1>1. ASSUME Bad # {} PROVE FALSE
  <2>1. PICK s \in Bad : \A u \in Bad : u \subseteq s => u = s
    <3>1. Bad \in SUBSET (SUBSET S)
      OBVIOUS
    <3> HIDE DEF Bad
    <3> QED
      BY <1>1, <3>1, SmallestSubset
  <2> DEFINE G(u) == CHOOSE g : HasSums(g, f, u)
             g == [u \in SUBSET s |-> IF u = {} THEN 0
                                      ELSE f[First(u)] + G(u \ {First(u)})[u \ {First(u)}]]
  <2>2. ASSUME NEW u \in SUBSET s, u # s PROVE HasSums(G(u), f, u)
    BY <2>1, <2>2
  <2>3. ASSUME NEW u \in SUBSET s, u # {} PROVE g[u \ {First(u)}] = G(u \ {First(u)})[u \ {First(u)}]
    <3> DEFINE v == u \ {First(u)}
               w == v \ {First(v)}
    <3>1. v \subseteq s /\ v # s
      BY <2>3, FirstIsIn
    <3>2. HasSums(G(v), f, v)
      BY <3>1, <2>2
    <3>3. CASE v = {}
      BY <3>2, <3>3 DEF HasSums
    <3>4. CASE v # {}
      <4>1. g[v] = f[First(v)] + G(w)[w]
        BY <3>1, <3>4
      <4>2. G(v)[v] = f[First(v)] + G(v)[w]
        BY <3>2, <3>4 DEF HasSums
      <4>3. w \subseteq v /\ w \subseteq s /\ w # s
        BY <3>1
      <4>4. HasSums(G(w), f, w) /\ IsFiniteSet(w)
        BY <4>3, <2>2, FS_Subset
      <4>5. G(w)[w] = G(v)[w]
        <5> HIDE DEF G, w, v
        <5> QED BY <3>2, <4>3, <4>4, SumsAgree
      <4> QED BY <4>1, <4>2, <4>5
    <3> QED BY <3>3, <3>4
  <2>4. HasSums(g, f, s)
    <3> DEFINE h == [u \in SUBSET s |-> IF u = {} THEN 0
                                        ELSE f[First(u)] + g[u \ {First(u)}]]
    <3>1. ASSUME NEW u \in SUBSET s PROVE g[u] = h[u]
      <4>1. CASE u = {}
        BY <4>1
      <4>2. CASE u # {}
        <5>1. g[u] = f[First(u)] + G(u \ {First(u)})[u \ {First(u)}]
          BY <4>2
        <5>2. h[u] = f[First(u)] + g[u \ {First(u)}]
          BY <4>2
        <5> QED
          BY <4>2, <5>1, <5>2, <2>3
      <4> QED
        BY <4>1, <4>2
    <3>2. g = h
      BY <3>1
    <3> QED
      BY <3>2 DEF HasSums
  <2> QED
    BY <2>1, <2>4
<1> QED
  BY <1>1

\* A sum begins with the element that is chosen first.
LEMMA SumFirst ==
    ASSUME NEW f, NEW S, IsFiniteSet(S)
    PROVE  SumFunctionOnSet(f, S) = IF S = {} THEN 0 ELSE f[First(S)] + SumFunctionOnSet(f, S \ {First(S)})
<1> DEFINE G(u) == CHOOSE g : HasSums(g, f, u)
           T == S \ {First(S)}
<1>1. T \subseteq S /\ IsFiniteSet(T)
  BY FS_Subset
<1>2. HasSums(G(S), f, S) /\ HasSums(G(T), f, T)
  BY <1>1, SumsExist
<1>3. G(S)[T] = G(T)[T]
  <2> HIDE DEF G, T
  <2> QED BY <1>1, <1>2, SumsAgree
<1>4. G(S)[S] = IF S = {} THEN 0 ELSE f[First(S)] + G(S)[T]
  BY <1>2 DEF HasSums
<1>5. SumFunctionOnSet(f, S) = G(S)[S] /\ SumFunctionOnSet(f, T) = G(T)[T]
  BY SumDef
<1> HIDE DEF G
<1> QED
  BY <1>3, <1>4, <1>5

\* A sum of natural numbers is one, and begins with whichever element one likes.
LEMMA SumStep ==
    ASSUME NEW f, NEW S, IsFiniteSet(S), \A y \in S : f[y] \in Nat
    PROVE  /\ SumFunctionOnSet(f, S) \in Nat
           /\ \A x \in S : SumFunctionOnSet(f, S) = f[x] + SumFunctionOnSet(f, S \ {x})
<1> DEFINE Good(T) == /\ SumFunctionOnSet(f, T) \in Nat
                      /\ \A x \in T : SumFunctionOnSet(f, T) = f[x] + SumFunctionOnSet(f, T \ {x})
           Bad == {T \in SUBSET S : ~Good(T)}
<1>1. ASSUME Bad # {} PROVE FALSE
  <2>1. PICK T \in Bad : \A U \in Bad : U \subseteq T => U = T
    <3>1. Bad \in SUBSET (SUBSET S)
      OBVIOUS
    <3> HIDE DEF Bad
    <3> QED
      BY <1>1, <3>1, SmallestSubset
  <2>2. \A U \in SUBSET T : U # T => Good(U)
    BY <2>1
  <2>3. \A U \in SUBSET T : IsFiniteSet(U)
    BY FS_Subset
  <2>4. T # {}
    <3>1. SumFunctionOnSet(f, {}) = 0
      BY FS_EmptySet, SumFirst
    <3>2. Good({})
      BY <3>1
    <3> HIDE DEF Good
    <3> QED
      BY <3>2
  <2> DEFINE c == First(T)
  <2>5. c \in T /\ f[c] \in Nat
    BY <2>4, FirstIsIn
  <2> HIDE DEF c
  <2>6. SumFunctionOnSet(f, T) = f[c] + SumFunctionOnSet(f, T \ {c})
    BY <2>3, <2>4, SumFirst DEF c
  <2>7. SumFunctionOnSet(f, T \ {c}) \in Nat
    BY <2>2, <2>5
  <2>8. ASSUME NEW x \in T, x # c PROVE SumFunctionOnSet(f, T) = f[x] + SumFunctionOnSet(f, T \ {x})
    <3> DEFINE rest == SumFunctionOnSet(f, (T \ {c}) \ {x})
    <3>1. SumFunctionOnSet(f, T \ {c}) = f[x] + rest
      BY <2>2, <2>5, <2>8
    <3>2. SumFunctionOnSet(f, T \ {x}) = f[c] + SumFunctionOnSet(f, (T \ {x}) \ {c})
      BY <2>2, <2>5, <2>8
    <3>3. (T \ {c}) \ {x} = (T \ {x}) \ {c}
      OBVIOUS
    <3>4. SumFunctionOnSet(f, T \ {x}) = f[c] + rest
      BY <3>2, <3>3
    <3>5. rest \in Nat /\ f[x] \in Nat
      BY <2>2, <2>5
    <3> HIDE DEF rest
    <3> QED
      BY <2>5, <2>6, <3>1, <3>4, <3>5
  <2>9. Good(T)
    BY <2>5, <2>6, <2>7, <2>8
  <2> QED
    BY <2>9
<1> QED
  <2>1. Good(S)
    BY <1>1
  <2> QED
    BY <2>1

\* Zeros add up to zero.
LEMMA SumOfZeros ==
    ASSUME NEW f, NEW S, IsFiniteSet(S), \A x \in S : f[x] = 0
    PROVE  SumFunctionOnSet(f, S) = 0
<1> DEFINE Bad == {T \in SUBSET S : SumFunctionOnSet(f, T) # 0}
<1>1. ASSUME Bad # {} PROVE FALSE
  <2>1. PICK T \in Bad : \A U \in Bad : U \subseteq T => U = T
    <3>1. Bad \in SUBSET (SUBSET S)
      OBVIOUS
    <3> HIDE DEF Bad
    <3> QED
      BY <1>1, <3>1, SmallestSubset
  <2>2. T # {}
    <3>1. SumFunctionOnSet(f, {}) = 0
      BY FS_EmptySet, SumFirst
    <3> QED
      BY <3>1
  <2>3. SumFunctionOnSet(f, T) = f[First(T)] + SumFunctionOnSet(f, T \ {First(T)})
    BY <2>2, FS_Subset, SumFirst
  <2>4. First(T) \in T /\ T \ {First(T)} \notin Bad
    BY <2>1, <2>2, FirstIsIn
  <2> QED
    BY <2>3, <2>4
<1> QED
  <2>1. S \in SUBSET S
    OBVIOUS
  <2> QED
    BY <1>1, <2>1

\* A sum does not grow when none of its terms does.
LEMMA SumAtMost ==
    ASSUME NEW f, NEW h, NEW S, IsFiniteSet(S),
           \A x \in S : f[x] \in Nat /\ h[x] \in Nat /\ f[x] <= h[x]
    PROVE  SumFunctionOnSet(f, S) <= SumFunctionOnSet(h, S)
<1> DEFINE Bad == {T \in SUBSET S : ~(SumFunctionOnSet(f, T) <= SumFunctionOnSet(h, T))}
<1>1. ASSUME Bad # {} PROVE FALSE
  <2>1. PICK T \in Bad : \A U \in Bad : U \subseteq T => U = T
    <3>1. Bad \in SUBSET (SUBSET S)
      OBVIOUS
    <3> HIDE DEF Bad
    <3> QED
      BY <1>1, <3>1, SmallestSubset
  <2>2. IsFiniteSet(T)
    BY FS_Subset
  <2>3. T # {}
    <3>1. SumFunctionOnSet(f, {}) = 0 /\ SumFunctionOnSet(h, {}) = 0
      BY FS_EmptySet, SumFirst
    <3> QED
      BY <3>1
  <2>4. PICK x \in T : TRUE
    BY <2>3
  <2> DEFINE U == T \ {x}
  <2>5. SumFunctionOnSet(f, U) <= SumFunctionOnSet(h, U)
    BY <2>1
  <2>6. IsFiniteSet(U)
    BY <2>2, FS_Subset
  <2>7. SumFunctionOnSet(f, U) \in Nat /\ SumFunctionOnSet(h, U) \in Nat
    BY <2>6, SumStep
  <2>8. /\ SumFunctionOnSet(f, T) = f[x] + SumFunctionOnSet(f, U)
        /\ SumFunctionOnSet(h, T) = h[x] + SumFunctionOnSet(h, U)
    BY <2>2, SumStep
  <2> HIDE DEF U
  <2>9. SumFunctionOnSet(f, T) <= SumFunctionOnSet(h, T)
    BY <2>5, <2>7, <2>8
  <2> QED
    BY <2>9
<1> QED
  <2>1. S \in SUBSET S
    OBVIOUS
  <2> QED
    BY <1>1, <2>1

\* The terms alone make the sum.
LEMMA SumSame ==
    ASSUME NEW f, NEW h, NEW S, IsFiniteSet(S), \A x \in S : f[x] \in Nat /\ f[x] = h[x]
    PROVE  SumFunctionOnSet(f, S) = SumFunctionOnSet(h, S)
<1>1. SumFunctionOnSet(f, S) \in Nat /\ SumFunctionOnSet(h, S) \in Nat
  BY SumStep
<1>2. SumFunctionOnSet(f, S) <= SumFunctionOnSet(h, S)
      /\ SumFunctionOnSet(h, S) <= SumFunctionOnSet(f, S)
  BY SumAtMost
<1> QED
  BY <1>1, <1>2

\* A sum changes by as much as one of its terms does.
LEMMA SumChange ==
    ASSUME NEW f, NEW h, NEW S, IsFiniteSet(S), NEW x \in S,
           \A y \in S : f[y] \in Nat /\ h[y] \in Nat, \A y \in S \ {x} : f[y] = h[y]
    PROVE  SumFunctionOnSet(h, S) = SumFunctionOnSet(f, S) + h[x] - f[x]
<1> DEFINE U == S \ {x}
<1>1. IsFiniteSet(U)
  BY FS_Subset
<1>2. SumFunctionOnSet(f, U) \in Nat /\ SumFunctionOnSet(f, U) = SumFunctionOnSet(h, U)
  BY <1>1, SumStep, SumSame
<1>3. /\ SumFunctionOnSet(f, S) = f[x] + SumFunctionOnSet(f, U)
      /\ SumFunctionOnSet(h, S) = h[x] + SumFunctionOnSet(h, U)
  BY SumStep
<1> HIDE DEF U
<1> QED
  BY <1>2, <1>3

\* A sequence that grows by one element.
LEMMA SumGrows ==
    ASSUME NEW f, NEW h, NEW n \in Nat, \A i \in 1..n : f[i] = h[i],
           \A i \in 1..(n + 1) : h[i] \in Nat
    PROVE  SumFunctionOnSet(h, 1..(n + 1)) = SumFunctionOnSet(f, 1..n) + h[n + 1]
<1>1. (1..(n + 1)) \ {n + 1} = 1..n /\ n + 1 \in 1..(n + 1)
  OBVIOUS
<1>2. IsFiniteSet(1..n) /\ IsFiniteSet(1..(n + 1))
  BY FS_Interval
<1>3. SumFunctionOnSet(h, 1..(n + 1)) = h[n + 1] + SumFunctionOnSet(h, 1..n)
  BY <1>1, <1>2, SumStep
<1>4. SumFunctionOnSet(f, 1..n) = SumFunctionOnSet(h, 1..n)
  <2>1. \A i \in 1..n : f[i] \in Nat
    OBVIOUS
  <2> QED
    BY <2>1, <1>2, SumSame
<1>5. SumFunctionOnSet(h, 1..n) \in Nat
  BY <1>2, SumStep
<1> QED
  BY <1>3, <1>4, <1>5

-----------------------------------------------------------------------------
\* The row.

\* What of the buckets was acknowledged in window w, bucket by bucket.
AckedIn(bs, w) == [n \in 1..Len(bs) |-> IF bs[n].window = w THEN bs[n].acked ELSE 0]

\* What of flight fl is in the row's window but not acknowledged yet.
Unacknowledged(fl, w) == IF fl.phase = "committed" /\ fl.window = w THEN fl.delta ELSE 0

OthersIn(os, w) == IF w = 0 THEN 0 ELSE os[w]

\* No window is ahead of the row's, and a flush learned of the latest there was.
WindowsOrdered ==
    /\ row.window <= MaxWindows
    /\ row.over => row.window < MaxWindows
    /\ ~row.over => row.window > 0
    /\ \A w \in 1..MaxWindows : w > row.window => others[w] = 0
    /\ \A n \in 1..Len(buckets) : buckets[n].window <= row.window
    /\ flight.phase = "committed" =>
          /\ flight.window <= row.window
          /\ \A n \in 1..Len(buckets) : buckets[n].window <= flight.window

\* The row's count is what was acknowledged in its window, here and elsewhere, and
\* what is on the way back, and beyond that at most what was replayed.
RowAccount ==
    LET known == SumFunction(AckedIn(buckets, row.window))
                 + Unacknowledged(flight, row.window) + OthersIn(others, row.window)
    IN known <= row.count /\ row.count <= known + replayed

RowInv == WindowsOrdered /\ RowAccount

\* bs become cs, with a new bucket perhaps, and nothing is acknowledged.
SameAcks(bs, cs) ==
    /\ cs \in Seq(Bucket)
    /\ Len(cs) \in {Len(bs), Len(bs) + 1}
    /\ \A n \in 1..Len(bs) : cs[n].window = bs[n].window /\ cs[n].acked = bs[n].acked
    /\ \A n \in 1..Len(cs) : n > Len(bs) => cs[n].window = 0 /\ cs[n].acked = 0

\* The sums of what was acknowledged are sums of natural numbers.
LEMMA AckedType ==
    ASSUME NEW bs \in Seq(Bucket), NEW w
    PROVE  /\ \A n \in 1..Len(bs) : AckedIn(bs, w)[n] \in Nat
           /\ SumFunction(AckedIn(bs, w)) = SumFunctionOnSet(AckedIn(bs, w), 1..Len(bs))
           /\ SumFunction(AckedIn(bs, w)) \in Nat
           /\ IsFiniteSet(1..Len(bs)) /\ Len(bs) \in Nat
<1>1. Len(bs) \in Nat /\ IsFiniteSet(1..Len(bs))
  BY FS_Interval
<1>2. ASSUME NEW n \in 1..Len(bs) PROVE AckedIn(bs, w)[n] \in Nat
  <2>1. bs[n] \in Bucket
    BY ElementOfSeq
  <2> QED
    BY <2>1, BucketFields DEF AckedIn
<1>3. DOMAIN AckedIn(bs, w) = 1..Len(bs)
  BY DEF AckedIn
<1>4. SumFunctionOnSet(AckedIn(bs, w), 1..Len(bs)) \in Nat
  BY <1>1, <1>2, SumStep
<1> QED
  BY <1>1, <1>2, <1>3, <1>4 DEF SumFunction

\* What was acknowledged in any window stays the same.
LEMMA AckedKept ==
    ASSUME NEW bs \in Seq(Bucket), NEW cs, SameAcks(bs, cs), NEW w
    PROVE  SumFunction(AckedIn(cs, w)) = SumFunction(AckedIn(bs, w))
<1> DEFINE f == AckedIn(bs, w)
           h == AckedIn(cs, w)
           n == Len(bs)
<1>1. cs \in Seq(Bucket)
  BY DEF SameAcks
<1>2. n \in Nat /\ IsFiniteSet(1..n)
      /\ (\A i \in 1..n : f[i] \in Nat) /\ SumFunction(f) = SumFunctionOnSet(f, 1..n)
      /\ SumFunction(f) \in Nat
  BY AckedType
<1>3. (\A i \in 1..Len(cs) : h[i] \in Nat) /\ SumFunction(h) = SumFunctionOnSet(h, 1..Len(cs))
  BY <1>1, AckedType
<1>4. ASSUME NEW i \in 1..n PROVE f[i] = h[i]
  BY <1>2 DEF SameAcks, AckedIn
<1>5. ASSUME Len(cs) = n PROVE SumFunction(h) = SumFunction(f)
  <2> HIDE DEF f, h, n
  <2> QED
    BY <1>2, <1>3, <1>4, <1>5, SumSame
<1>6. ASSUME Len(cs) = n + 1 PROVE SumFunction(h) = SumFunction(f)
  <2>1. h[n + 1] = 0
    BY <1>2, <1>6 DEF SameAcks, AckedIn
  <2> HIDE DEF f, h, n
  <2>2. SumFunctionOnSet(h, 1..(n + 1)) = SumFunctionOnSet(f, 1..n) + h[n + 1]
    BY <1>2, <1>3, <1>4, <1>6, SumGrows
  <2> QED
    BY <1>2, <1>3, <1>6, <2>1, <2>2
<1> QED
  BY <1>5, <1>6 DEF SameAcks

\* Nothing was acknowledged yet in a window beyond those of the buckets.
LEMMA NothingAckedYet ==
    ASSUME NEW bs \in Seq(Bucket), NEW w \in Nat, \A n \in 1..Len(bs) : bs[n].window < w
    PROVE  SumFunction(AckedIn(bs, w)) = 0
<1> DEFINE f == AckedIn(bs, w)
<1>1. IsFiniteSet(1..Len(bs)) /\ SumFunction(f) = SumFunctionOnSet(f, 1..Len(bs))
      /\ SumFunction(f) \in Nat
  BY AckedType
<1>2. \A n \in 1..Len(bs) : f[n] = 0
  <2> TAKE n \in 1..Len(bs)
  <2>1. bs[n].window \in Nat
    BY ElementOfSeq, BucketFields
  <2> QED
    BY <2>1 DEF AckedIn
<1>3. SumFunctionOnSet(f, 1..Len(bs)) = 0
  <2> HIDE DEF f
  <2> QED
    BY <1>1, <1>2, SumOfZeros
<1> QED
  BY <1>1, <1>3

\* Buckets that change otherwise, one by one or by a new one.
LEMMA SameAcksUpdated ==
    ASSUME NEW bs \in Seq(Bucket), NEW cs, SameAcks(bs, cs), NEW n \in 1..Len(cs),
           NEW b \in Bucket, b.window = cs[n].window, b.acked = cs[n].acked
    PROVE  SameAcks(bs, [cs EXCEPT ![n] = b])
<1> DEFINE ds == [cs EXCEPT ![n] = b]
<1>1. cs \in Seq(Bucket)
  BY DEF SameAcks
<1>2. /\ ds \in Seq(Bucket) /\ Len(ds) = Len(cs)
      /\ \A m \in 1..Len(cs) : ds[m] = IF m = n THEN b ELSE cs[m]
  BY <1>1, ExceptSeq
<1>3. \A m \in 1..Len(cs) : ds[m].window = cs[m].window /\ ds[m].acked = cs[m].acked
  BY <1>2
<1>4. 1..Len(bs) \subseteq 1..Len(cs)
  <2>1. Len(bs) \in Nat
    OBVIOUS
  <2> QED
    BY <2>1 DEF SameAcks
<1> HIDE DEF ds
<1> QED
  BY <1>2, <1>3, <1>4 DEF SameAcks, ds

LEMMA SameAcksAppended ==
    ASSUME NEW bs \in Seq(Bucket)
    PROVE  SameAcks(bs, bs) /\ SameAcks(bs, Append(bs, NewBucket))
<1> DEFINE cs == Append(bs, NewBucket)
<1>1. NewBucket \in Bucket /\ NewBucket.window = 0 /\ NewBucket.acked = 0
  BY DEF NewBucket, Bucket
<1>2. Len(bs) \in Nat
  OBVIOUS
<1>3. /\ cs \in Seq(Bucket) /\ Len(cs) = Len(bs) + 1
      /\ \A m \in 1..Len(bs) : cs[m] = bs[m]
      /\ cs[Len(bs) + 1] = NewBucket
  BY <1>1, AppendProperties
<1>4. \A m \in 1..Len(cs) : m > Len(bs) => cs[m].window = 0 /\ cs[m].acked = 0
  BY <1>1, <1>2, <1>3
<1> HIDE DEF cs
<1>5. SameAcks(bs, cs)
  BY <1>3, <1>4 DEF SameAcks
<1>6. SameAcks(bs, bs)
  BY <1>2 DEF SameAcks
<1> QED
  BY <1>5, <1>6 DEF cs

\* A flight stays, or takes off.
SameFlight == flight' = flight \/ (flight = NoFlight /\ flight'.phase = "sent")

LEMMA FlushKeepsAcks ==
    ASSUME buckets \in Seq(Bucket), NEW who, NEW counted, SameAcks(buckets, counted),
           NEW n \in 1..Len(counted), Flush(who, n, counted)
    PROVE  SameAcks(buckets, buckets') /\ SameFlight
<1>1. CASE flight # NoFlight
  BY <1>1 DEF Flush, SameFlight
<1>2. CASE flight = NoFlight
  <2> DEFINE b == counted[n]
  <2>1. /\ flight' = [phase |-> "sent", bucket |-> n, delta |-> b.pendingDelta]
        /\ buckets' = [counted EXCEPT ![n] = Captured(b)]
    BY <1>2 DEF Flush
  <2>2. b \in Bucket
    BY ElementOfSeq DEF SameAcks
  <2>3. Captured(b) \in Bucket /\ Captured(b).window = b.window /\ Captured(b).acked = b.acked
    BY <2>2 DEF Captured, Bucket
  <2>4. SameAcks(buckets, [counted EXCEPT ![n] = Captured(b)])
    BY <2>3, SameAcksUpdated
  <2> QED
    BY <1>2, <2>1, <2>4 DEF SameFlight
<1> QED
  BY <1>1, <1>2

LEMMA FlushIfCurrentKeepsAcks ==
    ASSUME buckets \in Seq(Bucket), Current > 0, FlushIfCurrent
    PROVE  SameAcks(buckets, buckets') /\ SameFlight
<1> DEFINE n == Current
           b == buckets[n]
<1>1. n \in 1..Len(buckets)
  BY DEF Current
<1>2. b \in Bucket /\ SameAcks(buckets, buckets)
  BY <1>1, ElementOfSeq, SameAcksAppended
<1>3. CASE Over(b)
  <2>1. buckets' = [buckets EXCEPT ![n] = Expired(b)] /\ flight' = flight
    BY <1>3 DEF FlushIfCurrent
  <2>2. Expired(b) \in Bucket /\ Expired(b).window = b.window /\ Expired(b).acked = b.acked
    <3>1. Expired(b) \in Bucket
      BY <1>2, ExpiredBucket
    <3> QED
      BY <3>1, <1>2 DEF Expired, Bucket
  <2>3. SameAcks(buckets, [buckets EXCEPT ![n] = Expired(b)])
    <3> HIDE DEF n
    <3> QED
      BY <1>1, <1>2, <2>2, SameAcksUpdated
  <2> QED
    BY <2>1, <2>3 DEF SameFlight
<1>4. CASE ~Over(b)
  <2>1. Flush("timer", n, buckets)
    BY <1>4 DEF FlushIfCurrent
  <2> QED
    BY <1>1, <1>2, <2>1, FlushKeepsAcks
<1> QED
  BY <1>3, <1>4

\* A flight that fails after it committed moves its hits to the replayed ones.
LEMMA AccountKept ==
    ASSUME NEW a \in Nat, NEW b \in Nat, NEW c \in Nat, NEW d \in Nat, NEW e \in Nat,
           NEW r \in Nat, NEW s \in Nat, d <= b, b - d <= s - r,
           a + b + e <= c, c <= a + b + e + r
    PROVE  a + d + e <= c /\ c <= a + d + e + s
OBVIOUS

\* A step that leaves the row alone, and ends a flight at most by a failure.
LEMMA RowKept ==
    ASSUME CounterInv, CounterInv', RowInv, SameAcks(buckets, buckets'), UNCHANGED <<row, others>>,
           \/ SameFlight /\ UNCHANGED replayed
           \/ /\ flight' = NoFlight
              /\ replayed' = IF flight.phase = "committed" THEN replayed + flight.delta
                             ELSE replayed
    PROVE  RowInv'
<1> DEFINE w == row.window
           acked == SumFunction(AckedIn(buckets, w))
           back == Unacknowledged(flight, w)
           elsewhere == OthersIn(others, w)
<1>1. buckets \in Seq(Bucket) /\ Len(buckets) \in Nat /\ w \in Nat /\ row.count \in Nat
      /\ flight \in Flights /\ replayed \in Nat
  BY DEF CounterInv, TypeOK
<1>2. acked \in Nat /\ acked' = acked
  <2>1. row' = row
    OBVIOUS
  <2> QED
    BY <1>1, <2>1, AckedType, AckedKept
<1>3. /\ back \in Nat /\ back' \in Nat /\ replayed' \in Nat /\ replayed <= replayed'
      /\ back' <= back /\ back - back' <= replayed' - replayed
      /\ flight'.phase = "committed" => flight' = flight
  BY <1>1 DEF Unacknowledged, SameFlight, NoFlight, Flights
<1>4. elsewhere \in Nat /\ elsewhere' = elsewhere
  <2>1. w # 0 => others[w] \in Nat
    BY <1>1 DEF CounterInv, TypeOK, RowInv, WindowsOrdered
  <2> QED
    BY <2>1 DEF OthersIn
<1>5. acked + back + elsewhere <= row.count /\ row.count <= acked + back + elsewhere + replayed
  BY DEF RowInv, RowAccount
<1>6. RowAccount'
  <2>1. acked + back' + elsewhere <= row.count
        /\ row.count <= acked + back' + elsewhere + replayed'
    BY <1>1, <1>2, <1>3, <1>4, <1>5, AccountKept
  <2>2. RowAccount' = (/\ acked' + back' + elsewhere' <= row'.count
                       /\ row'.count <= acked' + back' + elsewhere' + replayed')
    BY DEF RowAccount
  <2> QED
    BY <1>2, <1>4, <2>1, <2>2, row' = row
<1>7. WindowsOrdered'
  <2>1. ASSUME NEW n \in 1..Len(buckets')
        PROVE  \/ n \in 1..Len(buckets) /\ buckets'[n].window = buckets[n].window
               \/ buckets'[n].window = 0
    BY <1>1 DEF SameAcks
  <2>2. flight.phase = "committed" => flight.window \in Nat
    BY <1>1 DEF Flights
  <2>3. row' = row /\ others' = others
    OBVIOUS
  <2>4. WindowsOrdered
    BY DEF RowInv
  <2>5. ASSUME NEW n \in 1..Len(buckets') PROVE buckets'[n].window <= row.window
    BY <1>1, <2>1, <2>4 DEF WindowsOrdered
  <2>6. ASSUME flight'.phase = "committed", NEW n \in 1..Len(buckets')
        PROVE  flight'.window <= row.window /\ buckets'[n].window <= flight'.window
    BY <1>3, <2>1, <2>2, <2>4, <2>6 DEF WindowsOrdered
  <2>7. flight'.phase = "committed" => flight'.window <= row.window
    BY <1>3, <2>4 DEF WindowsOrdered
  <2> QED
    BY <2>3, <2>4, <2>5, <2>6, <2>7 DEF WindowsOrdered
<1> QED
  BY <1>6, <1>7 DEF RowInv

\* The steps that touch neither row nor others.
LEMMA HitKeepsAcks ==
    ASSUME CounterInv, Hit
    PROVE  SameAcks(buckets, buckets') /\ SameFlight
<1> DEFINE found == IF Bucketed THEN buckets ELSE Append(buckets, NewBucket)
           n == Len(found)
           counted == [found EXCEPT ![n] = Counted(found[n])]
<1>1. buckets \in Seq(Bucket) /\ Len(buckets) \in Nat /\ (held => Len(buckets) > 0)
  BY DEF CounterInv, TypeOK
<1>2. SameAcks(buckets, found)
  BY <1>1, SameAcksAppended
<1>3. found \in Seq(Bucket) /\ n \in 1..Len(found)
  <2>1. CASE Bucketed
    BY <1>1, <2>1 DEF Bucketed
  <2>2. CASE ~Bucketed
    <3>1. found = Append(buckets, NewBucket) /\ NewBucket \in Bucket
      BY <2>2 DEF NewBucket, Bucket
    <3> QED
      BY <1>1, <3>1, AppendProperties
  <2> QED
    BY <2>1, <2>2
<1>4. /\ IF counted[n].stale THEN Flush("hit", n, counted)
                             ELSE buckets' = counted /\ UNCHANGED flight
  BY DEF Hit
<1> HIDE DEF found, n
<1>5. found[n] \in Bucket
  BY <1>3, ElementOfSeq
<1>6. /\ Counted(found[n]) \in Bucket
      /\ Counted(found[n]).window = found[n].window /\ Counted(found[n]).acked = found[n].acked
  <2>1. Counted(found[n]) \in Bucket
    BY <1>5, CountedBucket
  <2> QED
    BY <1>5, <2>1 DEF Counted, Bucket
<1>7. SameAcks(buckets, counted) /\ n \in 1..Len(counted)
  <2>1. SameAcks(buckets, counted)
    BY <1>1, <1>2, <1>3, <1>6, SameAcksUpdated
  <2> QED
    BY <1>3, <2>1, ExceptSeq, <1>6
<1> HIDE DEF counted
<1> QED
  BY <1>1, <1>4, <1>7, FlushKeepsAcks DEF SameFlight

LEMMA TimerKeepsAcks ==
    ASSUME CounterInv, TimerFires \/ DrainPass
    PROVE  SameAcks(buckets, buckets') /\ SameFlight
<1>1. buckets \in Seq(Bucket) /\ (held => Len(buckets) > 0)
  BY DEF CounterInv, TypeOK
<1>2. (FlushIfCurrent /\ Current > 0) \/ UNCHANGED <<buckets, flight>>
  BY <1>1 DEF TimerFires, DrainPass, Pending, Current
<1>3. CASE UNCHANGED <<buckets, flight>>
  BY <1>1, <1>3, SameAcksAppended DEF SameFlight
<1> QED
  BY <1>1, <1>2, <1>3, FlushIfCurrentKeepsAcks

LEMMA ClockKeepsAcks ==
    ASSUME CounterInv, IntervalPasses \/ ProvisionalWindowEnds
    PROVE  SameAcks(buckets, buckets') /\ SameFlight
<1> DEFINE n == Current
<1>1. buckets \in Seq(Bucket) /\ n \in 1..Len(buckets)
  BY DEF CounterInv, TypeOK, Current, IntervalPasses, ProvisionalWindowEnds
<1>2. buckets[n] \in Bucket /\ SameAcks(buckets, buckets)
  BY <1>1, ElementOfSeq, SameAcksAppended
<1>3. PICK b \in Bucket :
         /\ buckets' = [buckets EXCEPT ![n] = b]
         /\ b.window = buckets[n].window /\ b.acked = buckets[n].acked
  <2>1. ASSUME NEW b \in {[buckets[n] EXCEPT !.stale = TRUE], [buckets[n] EXCEPT !.ended = TRUE]}
        PROVE  b \in Bucket /\ b.window = buckets[n].window /\ b.acked = buckets[n].acked
    BY <1>2 DEF Bucket
  <2> QED
    BY <2>1 DEF IntervalPasses, ProvisionalWindowEnds
<1>4. flight' = flight
  BY DEF IntervalPasses, ProvisionalWindowEnds
<1> HIDE DEF n
<1> QED
  BY <1>1, <1>2, <1>3, <1>4, SameAcksUpdated DEF SameFlight

LEMMA FailKeepsAcks ==
    ASSUME CounterInv, Fail
    PROVE  /\ SameAcks(buckets, buckets')
           /\ flight' = NoFlight
           /\ replayed' = IF flight.phase = "committed" THEN replayed + flight.delta
                          ELSE replayed
<1> DEFINE n == flight.bucket
           b == Restored(buckets[n])
<1>1. buckets \in Seq(Bucket) /\ n \in 1..Len(buckets) /\ flight.delta \in Nat
  BY DEF CounterInv, TypeOK, Flights, Fail
<1>2. buckets[n] \in Bucket /\ SameAcks(buckets, buckets)
  BY <1>1, ElementOfSeq, SameAcksAppended
<1>3. b \in Bucket /\ b.window = buckets[n].window /\ b.acked = buckets[n].acked
  <2>1. buckets[n].pendingDelta + flight.delta \in Nat
    BY <1>1, <1>2, BucketFields
  <2>2. b \in Bucket
    BY <1>2, <2>1, BucketUpdates DEF Restored
  <2> QED
    BY <1>2, <2>2 DEF Restored, Bucket
<1>4. /\ buckets' = [buckets EXCEPT ![n] = b]
      /\ flight' = NoFlight
      /\ replayed' = IF flight.phase = "committed" THEN replayed + flight.delta ELSE replayed
  BY DEF Fail, Resume
<1> HIDE DEF n, b
<1> QED
  BY <1>1, <1>2, <1>3, <1>4, SameAcksUpdated

\* The row's account survives whatever leaves row and others alone.
LEMMA QuietRow ==
    ASSUME CounterInv, CounterInv', RowInv,
           \/ Hit \/ Fail \/ TimerFires \/ DrainPass \/ IntervalPasses
           \/ ProvisionalWindowEnds \/ StartDrain \/ Evict \/ UNCHANGED vars
    PROVE  RowInv'
<1>1. CASE Hit
  BY <1>1, HitKeepsAcks, RowKept DEF Hit
<1>2. CASE Fail
  BY <1>2, FailKeepsAcks, RowKept DEF Fail
<1>3. CASE TimerFires \/ DrainPass
  BY <1>3, TimerKeepsAcks, RowKept DEF TimerFires, DrainPass
<1>4. CASE IntervalPasses \/ ProvisionalWindowEnds
  BY <1>4, ClockKeepsAcks, RowKept DEF IntervalPasses, ProvisionalWindowEnds
<1>5. CASE StartDrain \/ Evict \/ UNCHANGED vars
  <2>1. UNCHANGED <<row, others, buckets, flight, replayed>>
    BY <1>5 DEF StartDrain, Evict, vars
  <2>2. SameAcks(buckets, buckets')
    BY <2>1, SameAcksAppended DEF CounterInv, TypeOK
  <2> QED
    BY <2>1, <2>2, RowKept DEF SameFlight
<1> QED
  BY <1>1, <1>2, <1>3, <1>4, <1>5

\* The end of the row's window does not touch the count.
LEMMA RowWindowEndsRow ==
    ASSUME CounterInv, RowInv, RowWindowEnds
    PROVE  RowInv'
<1>1. /\ row' = [row EXCEPT !.over = TRUE] /\ row.window < MaxWindows
      /\ UNCHANGED <<buckets, flight, others, replayed>>
  BY DEF RowWindowEnds
<1>2. row \in [count : Nat, window : Nat, over : BOOLEAN]
  BY DEF CounterInv, TypeOK
<1>3. row'.count = row.count /\ row'.window = row.window
  BY <1>1, <1>2
<1>4. RowAccount'
  BY <1>1, <1>3 DEF RowInv, RowAccount
<1>5. WindowsOrdered'
  BY <1>1, <1>2, <1>3 DEF RowInv, WindowsOrdered
<1> QED
  BY <1>4, <1>5 DEF RowInv

\* A commit adds its hits to the count, of the window there is or of the next,
\* of which nobody knows yet.
LEMMA CommittedRow ==
    ASSUME CounterInv, RowInv, NEW delta \in Nat,
           NEW r, r = Committed(delta)
    PROVE  /\ r.window \in 1..MaxWindows /\ ~r.over /\ row.window <= r.window
           /\ r.count \in Nat
           /\ SumFunction(AckedIn(buckets, r.window)) \in Nat
           /\ Unacknowledged(flight, r.window) \in Nat
           /\ others[r.window] \in Nat
           /\ (\A w \in 1..MaxWindows : w > r.window => others[w] = 0)
           /\ LET known == SumFunction(AckedIn(buckets, r.window))
                           + Unacknowledged(flight, r.window) + others[r.window]
              IN known + delta <= r.count /\ r.count <= known + delta + replayed
<1>1. /\ row \in [count : Nat, window : Nat, over : BOOLEAN]
      /\ buckets \in Seq(Bucket) /\ flight \in Flights
      /\ others \in [1..MaxWindows -> Nat] /\ replayed \in Nat
      /\ Len(buckets) \in Nat
  BY DEF CounterInv, TypeOK
<1>2. MaxWindows \in Nat
  BY BoundsAssumption
<1>3. WindowsOrdered /\ RowAccount
  BY DEF RowInv
<1>4. \A w : SumFunction(AckedIn(buckets, w)) \in Nat
  BY <1>1, AckedType
<1>5. \A w : Unacknowledged(flight, w) \in Nat
  BY <1>1 DEF Unacknowledged, Flights
<1>6. CASE row.over
  <2>1. r = [count |-> delta, window |-> row.window + 1, over |-> FALSE]
    BY <1>6 DEF Committed
  <2>2. row.window + 1 \in 1..MaxWindows
    BY <1>1, <1>2, <1>3, <1>6 DEF WindowsOrdered
  <2>3. others[row.window + 1] = 0 /\ \A w \in 1..MaxWindows : w > row.window + 1 => others[w] = 0
    BY <1>1, <1>3, <2>2 DEF WindowsOrdered
  <2>4. SumFunction(AckedIn(buckets, row.window + 1)) = 0
    <3>1. \A n \in 1..Len(buckets) : buckets[n].window < row.window + 1
      <4> TAKE n \in 1..Len(buckets)
      <4>1. buckets[n].window \in Nat
        BY <1>1, ElementOfSeq, BucketFields
      <4> QED
        BY <1>1, <1>3, <4>1 DEF WindowsOrdered
    <3> QED
      BY <1>1, <3>1, <2>2, NothingAckedYet
  <2>5. Unacknowledged(flight, row.window + 1) = 0
    <3>1. flight.phase = "committed" => flight.window \in Nat /\ flight.window <= row.window
      BY <1>1, <1>3 DEF WindowsOrdered, Flights
    <3> QED
      BY <1>1, <3>1 DEF Unacknowledged
  <2> QED
    BY <1>1, <2>1, <2>2, <2>3, <2>4, <2>5
<1>7. CASE ~row.over
  <2>1. r.count = row.count + delta /\ r.window = row.window /\ ~r.over
    BY <1>1, <1>7 DEF Committed
  <2>2. row.window \in 1..MaxWindows
    BY <1>1, <1>2, <1>3, <1>7 DEF WindowsOrdered
  <2>3. OthersIn(others, row.window) = others[row.window] /\ others[row.window] \in Nat
    BY <1>1, <2>2 DEF OthersIn
  <2>4. \A w \in 1..MaxWindows : w > row.window => others[w] = 0
    BY <1>3 DEF WindowsOrdered
  <2> DEFINE acked == SumFunction(AckedIn(buckets, row.window))
             back == Unacknowledged(flight, row.window)
  <2>5. acked \in Nat /\ back \in Nat /\ row.count \in Nat
    BY <1>1, <1>4, <1>5
  <2>6. acked + back + others[row.window] <= row.count
        /\ row.count <= acked + back + others[row.window] + replayed
    BY <1>3, <2>3 DEF RowAccount
  <2> HIDE DEF acked, back
  <2>7. /\ row.count + delta \in Nat
        /\ acked + back + others[row.window] + delta <= row.count + delta
        /\ row.count + delta <= acked + back + others[row.window] + delta + replayed
    BY <1>1, <2>3, <2>5, <2>6
  <2> QED
    BY <1>1, <2>1, <2>2, <2>3, <2>4, <2>5, <2>7 DEF acked, back
<1> QED
  BY <1>6, <1>7

LEMMA CommitRow ==
    ASSUME CounterInv, RowInv, Commit
    PROVE  RowInv'
<1> DEFINE w == row'.window
           acked == SumFunction(AckedIn(buckets, w))
<1>1. /\ flight.phase = "sent" /\ row' = Committed(flight.delta)
      /\ flight' = [phase |-> "committed", bucket |-> flight.bucket, delta |-> flight.delta,
                    count |-> row'.count, window |-> row'.window]
      /\ UNCHANGED <<buckets, others, replayed>>
  BY DEF Commit
<1>2. flight.delta \in Nat /\ row.window \in Nat /\ buckets \in Seq(Bucket) /\ replayed \in Nat
  BY <1>1 DEF CounterInv, TypeOK, Flights
<1>3. /\ w \in 1..MaxWindows /\ ~row'.over /\ row.window <= w
      /\ row'.count \in Nat /\ acked \in Nat /\ others[w] \in Nat
      /\ \A v \in 1..MaxWindows : v > w => others[v] = 0
      /\ acked + Unacknowledged(flight, w) + others[w] + flight.delta <= row'.count
      /\ row'.count <= acked + Unacknowledged(flight, w) + others[w] + flight.delta + replayed
  BY <1>1, <1>2, CommittedRow
<1>4. Unacknowledged(flight, w) = 0 /\ Unacknowledged(flight', w) = flight.delta
  BY <1>1 DEF Unacknowledged
<1>5. OthersIn(others, w) = others[w]
  BY <1>3 DEF OthersIn
<1>6. RowAccount'
  <2>1. RowAccount' = (/\ acked + Unacknowledged(flight', w) + OthersIn(others, w) <= row'.count
                       /\ row'.count <= acked + Unacknowledged(flight', w)
                                        + OthersIn(others, w) + replayed)
    BY <1>1 DEF RowAccount
  <2> HIDE DEF acked
  <2>2. /\ acked + flight.delta + others[w] <= row'.count
        /\ row'.count <= acked + flight.delta + others[w] + replayed
    BY <1>2, <1>3, <1>4
  <2> QED
    BY <1>4, <1>5, <2>1, <2>2
<1>7. WindowsOrdered'
  <2>1. MaxWindows \in Nat
    BY BoundsAssumption
  <2>2. \A n \in 1..Len(buckets) : buckets[n].window <= w
    <3> TAKE n \in 1..Len(buckets)
    <3>1. buckets[n].window \in Nat
      BY <1>2, ElementOfSeq, BucketFields
    <3> QED
      BY <1>2, <1>3, <2>1, <3>1 DEF RowInv, WindowsOrdered
  <2>3. flight'.window = w
    BY <1>1
  <2> QED
    BY <1>1, <1>3, <2>1, <2>2, <2>3 DEF WindowsOrdered
<1> QED
  BY <1>6, <1>7 DEF RowInv

LEMMA OthersFlushRow ==
    ASSUME CounterInv, RowInv, OthersFlush
    PROVE  RowInv'
<1> DEFINE w == row'.window
           acked == SumFunction(AckedIn(buckets, w))
           back == Unacknowledged(flight, w)
<1>1. /\ row' = Committed(1)
      /\ others' = [others EXCEPT ![w] = others[w] + 1]
      /\ UNCHANGED <<buckets, flight, replayed>>
  BY DEF OthersFlush
<1>2. /\ row.window \in Nat /\ buckets \in Seq(Bucket) /\ replayed \in Nat
      /\ others \in [1..MaxWindows -> Nat] /\ flight \in Flights
  BY DEF CounterInv, TypeOK
<1>3. /\ w \in 1..MaxWindows /\ ~row'.over /\ row.window <= w
      /\ row'.count \in Nat /\ acked \in Nat /\ back \in Nat /\ others[w] \in Nat
      /\ \A v \in 1..MaxWindows : v > w => others[v] = 0
      /\ acked + back + others[w] + 1 <= row'.count
      /\ row'.count <= acked + back + others[w] + 1 + replayed
  BY <1>1, CommittedRow
<1>4. /\ OthersIn(others', w) = others[w] + 1
      /\ \A v \in 1..MaxWindows : v > w => others'[v] = 0
  BY <1>1, <1>2, <1>3 DEF OthersIn
<1>5. RowAccount'
  <2>1. RowAccount' = (/\ acked + back + OthersIn(others', w) <= row'.count
                       /\ row'.count <= acked + back + OthersIn(others', w) + replayed)
    BY <1>1 DEF RowAccount
  <2> HIDE DEF acked, back
  <2>2. /\ acked + back + (others[w] + 1) <= row'.count
        /\ row'.count <= acked + back + (others[w] + 1) + replayed
    BY <1>2, <1>3
  <2> QED
    BY <1>4, <2>1, <2>2
<1>6. WindowsOrdered'
  <2>1. MaxWindows \in Nat
    BY BoundsAssumption
  <2>2. \A n \in 1..Len(buckets) : buckets[n].window <= w
    <3> TAKE n \in 1..Len(buckets)
    <3>1. buckets[n].window \in Nat /\ buckets[n].window <= row.window
      BY <1>2, ElementOfSeq, BucketFields DEF RowInv, WindowsOrdered
    <3> HIDE DEF w
    <3> QED
      BY <1>2, <1>3, <2>1, <3>1
  <2>3. flight.phase = "committed" => flight.window <= w
    <3>1. flight.phase = "committed" => flight.window \in Nat
      BY <1>2 DEF Flights
    <3>2. flight.phase = "committed" => flight.window <= row.window
      BY DEF RowInv, WindowsOrdered
    <3>3. row.window \in Nat /\ row.window <= w /\ w \in Nat
      BY <1>2, <1>3, <2>1
    <3> HIDE DEF w
    <3> QED
      BY ONLY <3>1, <3>2, <3>3
  <2> QED
    BY <1>1, <1>3, <1>4, <2>1, <2>2, <2>3 DEF RowInv, WindowsOrdered
<1> QED
  BY <1>5, <1>6 DEF RowInv

\* What an acknowledgement brings was on the way to the bucket before.
LEMMA AcknowledgeRow ==
    ASSUME CounterInv, CounterInv', RowInv, Acknowledge
    PROVE  RowInv'
<1> DEFINE w == row.window
           n == flight.bucket
           b == buckets[n]
           c == Acknowledged(b)
           f == AckedIn(buckets, w)
           h == AckedIn(buckets', w)
           S == 1..Len(buckets)
<1>1. /\ flight.phase = "committed"
      /\ buckets' = [buckets EXCEPT ![n] = c] /\ flight' = NoFlight
      /\ UNCHANGED <<row, others, replayed>>
  BY DEF Acknowledge, Resume
<1>2. /\ buckets \in Seq(Bucket) /\ n \in S /\ w \in Nat /\ row.count \in Nat /\ replayed \in Nat
      /\ flight.delta \in Nat /\ flight.window \in Nat
      /\ buckets' \in Seq(Bucket)
  BY <1>1 DEF CounterInv, TypeOK, Flights
<1>3. b \in Bucket /\ b.window \in Nat /\ b.acked \in Nat
  BY <1>2, ElementOfSeq, BucketFields
<1>4. /\ c.window = flight.window
      /\ c.acked = (IF flight.window = b.window THEN b.acked ELSE 0) + flight.delta
  BY <1>3 DEF Acknowledged, Bucket
<1>5. /\ Len(buckets') = Len(buckets) /\ buckets'[n] = c
      /\ \A m \in S : m # n => buckets'[m] = buckets[m]
  BY <1>1, <1>2, ExceptSeq
<1>6. b.window <= flight.window /\ flight.window <= w
  BY <1>1, <1>2 DEF RowInv, WindowsOrdered
<1>7. /\ IsFiniteSet(S)
      /\ (\A m \in S : f[m] \in Nat) /\ SumFunction(f) = SumFunctionOnSet(f, S)
      /\ SumFunction(f) \in Nat
  BY <1>2, AckedType
<1>8. /\ (\A m \in S : h[m] \in Nat) /\ SumFunction(h) = SumFunctionOnSet(h, S)
      /\ SumFunction(h) \in Nat
  BY <1>2, <1>5, AckedType
<1>9. \A m \in S \ {n} : f[m] = h[m]
  BY <1>5 DEF AckedIn
<1>10. h[n] - f[n] = Unacknowledged(flight, w)
  <2>1. h[n] = IF c.window = w THEN c.acked ELSE 0
    BY <1>2, <1>5 DEF AckedIn
  <2>2. f[n] = IF b.window = w THEN b.acked ELSE 0
    BY <1>2 DEF AckedIn
  <2>3. Unacknowledged(flight, w) = IF flight.window = w THEN flight.delta ELSE 0
    BY <1>1 DEF Unacknowledged
  <2> HIDE DEF b, c, f, h, n, w
  <2> QED
    BY <1>2, <1>3, <1>4, <1>6, <2>1, <2>2, <2>3
<1>11. SumFunction(h) = SumFunction(f) + Unacknowledged(flight, w)
  <2>1. Unacknowledged(flight, w) \in Nat
    BY <1>2 DEF Unacknowledged
  <2>2. h[n] \in Nat /\ f[n] \in Nat
    BY <1>2, <1>7, <1>8
  <2>4. IsFiniteSet(S) /\ n \in S
    BY <1>2, <1>7
  <2>5. \A m \in S : f[m] \in Nat /\ h[m] \in Nat
    BY <1>7, <1>8
  <2> HIDE DEF f, h, n, S
  <2>3. SumFunctionOnSet(h, S) = SumFunctionOnSet(f, S) + h[n] - f[n]
    BY ONLY <1>9, <2>4, <2>5, SumChange
  <2> QED
    BY <1>7, <1>8, <1>10, <2>1, <2>2, <2>3
<1>12. RowAccount'
  <2>1. RowAccount' = (/\ SumFunction(h) + Unacknowledged(NoFlight, w) + OthersIn(others, w)
                          <= row.count
                       /\ row.count <= SumFunction(h) + Unacknowledged(NoFlight, w)
                                       + OthersIn(others, w) + replayed)
    BY <1>1 DEF RowAccount
  <2>2. Unacknowledged(NoFlight, w) = 0
    BY DEF Unacknowledged, NoFlight
  <2>3. OthersIn(others, w) \in Nat
    BY <1>2, BoundsAssumption DEF OthersIn, CounterInv, TypeOK, RowInv, WindowsOrdered
  <2>4. /\ SumFunction(f) + Unacknowledged(flight, w) + OthersIn(others, w) <= row.count
        /\ row.count <= SumFunction(f) + Unacknowledged(flight, w) + OthersIn(others, w) + replayed
    BY DEF RowInv, RowAccount
  <2> QED
    BY <1>2, <1>8, <1>11, <2>1, <2>2, <2>3, <2>4
<1>13. WindowsOrdered'
  <2>1. \A m \in 1..Len(buckets') : buckets'[m].window <= row.window
    <3> TAKE m \in 1..Len(buckets')
    <3>1. m # n => buckets'[m].window <= row.window
      BY <1>2, <1>5 DEF RowInv, WindowsOrdered
    <3>2. m = n => buckets'[m].window <= row.window
      BY <1>4, <1>5, <1>6
    <3> QED
      BY <3>1, <3>2
  <2>2. flight'.phase = "none"
    BY <1>1 DEF NoFlight
  <2> QED
    BY <1>1, <2>1, <2>2 DEF RowInv, WindowsOrdered
<1> QED
  BY <1>12, <1>13 DEF RowInv

LEMMA RowNext == CounterInv /\ CounterInv' /\ RowInv /\ [Next]_vars => RowInv'
BY QuietRow, RowWindowEndsRow, CommitRow, OthersFlushRow, AcknowledgeRow DEF Next

LEMMA RowInit == Init => RowInv
<1> SUFFICES ASSUME Init PROVE RowInv
  OBVIOUS
<1>1. MaxWindows \in Nat \ {0}
  BY BoundsAssumption
<1>2. /\ row = [count |-> 0, window |-> 0, over |-> TRUE] /\ buckets = <<>>
      /\ flight.phase = "none" /\ others = [w \in 1..MaxWindows |-> 0] /\ replayed = 0
  BY DEF Init, NoFlight
<1>3. Len(buckets) = 0 /\ buckets \in Seq(Bucket)
  BY <1>2
<1>4. SumFunction(AckedIn(buckets, 0)) = 0
  <2>1. IsFiniteSet({})
    BY FS_EmptySet
  <2>2. SumFunctionOnSet(AckedIn(buckets, 0), {}) = 0
    BY <2>1, SumOfZeros
  <2>3. DOMAIN AckedIn(buckets, 0) = {}
    BY <1>3 DEF AckedIn
  <2> QED
    BY <2>2, <2>3 DEF SumFunction
<1>5. RowAccount
  BY <1>2, <1>4 DEF RowAccount, Unacknowledged, OthersIn
<1>6. WindowsOrdered
  BY <1>1, <1>2, <1>3 DEF WindowsOrdered
<1> QED
  BY <1>5, <1>6 DEF RowInv

\* What is acknowledged in a window, and what of it is on its way back, was hit here.
LEMMA RowWithinHits ==
    ASSUME CounterInv, RowInv
    PROVE  SumFunction(AckedIn(buckets, row.window)) + Unacknowledged(flight, row.window) <= Hits
<1> DEFINE w == row.window
           n == flight.bucket
           back == Unacknowledged(flight, w)
           f == AckedIn(buckets, w)
           more == [m \in 1..Len(buckets) |-> f[m] + IF m = n THEN back ELSE 0]
           hits == [m \in 1..Len(buckets) |-> buckets[m].hits]
           S == 1..Len(buckets)
<1>1. buckets \in Seq(Bucket) /\ flight \in Flights
      /\ (flight.phase # "none" => n \in S)
  BY DEF CounterInv, TypeOK
<1>2. IsFiniteSet(S) /\ (\A m \in S : f[m] \in Nat)
      /\ SumFunction(f) = SumFunctionOnSet(f, S) /\ SumFunction(f) \in Nat
  BY <1>1, AckedType
<1>3. back \in Nat /\ (back # 0 => flight.phase # "none" /\ back = flight.delta)
  BY <1>1 DEF Unacknowledged, Flights
<1>4. ASSUME NEW m \in S
      PROVE  more[m] \in Nat /\ hits[m] \in Nat /\ more[m] <= hits[m]
  <2> DEFINE b == buckets[m]
             extra == IF m = n THEN back ELSE 0
  <2>1. b.pendingDelta \in Nat /\ b.hits \in Nat /\ b.acked \in Nat /\ b.dropped \in Nat
    BY <1>1, ElementOfSeq, BucketFields
  <2>2. b.hits = b.pendingDelta + InFlight(m) + b.acked + b.dropped
    BY DEF CounterInv, HitsAccounted
  <2>3. more[m] = f[m] + extra /\ hits[m] = b.hits
    OBVIOUS
  <2>4. f[m] = 0 \/ f[m] = b.acked
    BY DEF AckedIn
  <2>5. extra \in Nat /\ InFlight(m) \in Nat /\ extra <= InFlight(m)
    BY <1>1, <1>3 DEF InFlight, Flights
  <2> HIDE DEF more, hits, f, extra, b
  <2>6. f[m] \in Nat /\ f[m] <= b.acked
    BY <2>1, <2>4
  <2> DEFINE flying == InFlight(m)
  <2>8. flying \in Nat /\ extra <= flying /\ b.hits = b.pendingDelta + flying + b.acked + b.dropped
    BY <2>2, <2>5
  <2> DEFINE acked == f[m]
  <2>9. acked \in Nat /\ extra \in Nat /\ acked <= b.acked
    BY <2>5, <2>6
  <2> HIDE DEF flying, acked
  <2>10. acked + extra <= b.hits
    BY ONLY <2>1, <2>8, <2>9
  <2>7. f[m] + extra <= b.hits
    BY <2>10 DEF acked
  <2> QED
    BY <2>1, <2>3, <2>5, <2>6, <2>7
<1>5. Hits = SumFunctionOnSet(hits, S) /\ SumFunctionOnSet(hits, S) \in Nat
  <2>1. Hits = SumFunctionOnSet(hits, S)
    BY DEF Hits, SumFunction, Current
  <2> HIDE DEF hits, more
  <2> QED
    BY <1>2, <1>4, <2>1, SumStep
<1>6. SumFunctionOnSet(more, S) \in Nat /\ SumFunctionOnSet(more, S) <= SumFunctionOnSet(hits, S)
  <2> HIDE DEF hits, more
  <2> QED
    BY <1>2, <1>4, SumStep, SumAtMost
<1>7. SumFunction(f) + back = SumFunctionOnSet(more, S)
  <2>1. CASE n \in S
    <3>1. /\ more[n] = f[n] + back
          /\ \A m \in S \ {n} : more[m] = f[m]
      BY <1>2, <2>1
    <3>2. f[n] \in Nat /\ more[n] \in Nat
      BY <1>2, <1>4, <2>1
    <3> HIDE DEF more, f, n, back, S
    <3>4. IsFiniteSet(S) /\ n \in S /\ \A m \in S : f[m] \in Nat /\ more[m] \in Nat
      BY <1>2, <1>4, <2>1
    <3>5. \A m \in S \ {n} : f[m] = more[m]
      BY <3>1
    <3>3. SumFunctionOnSet(more, S) = SumFunctionOnSet(f, S) + more[n] - f[n]
      BY ONLY <3>4, <3>5, SumChange
    <3> QED
      BY <1>2, <1>3, <3>1, <3>2, <3>3
  <2>2. CASE n \notin S
    <3>1. back = 0 /\ \A m \in S : more[m] = f[m]
      BY <1>1, <1>2, <1>3, <2>2
    <3> HIDE DEF more, f, n, back, S
    <3>2. SumFunctionOnSet(f, S) = SumFunctionOnSet(more, S)
      BY <1>2, <3>1, SumSame
    <3> QED
      BY <1>2, <3>1, <3>2
  <2> QED
    BY <2>1, <2>2
<1> HIDE DEF f, more, hits, back, S
<1> QED
  BY <1>2, <1>3, <1>5, <1>6, <1>7 DEF f, back

\* RowCountsEveryone follows from the row's account.
LEMMA RowInvCounts ==
    ASSUME CounterInv, RowInv
    PROVE  RowCountsEveryone
<1> DEFINE acked == SumFunction(AckedIn(buckets, row.window))
           back == Unacknowledged(flight, row.window)
<1>1. AckedNow = acked /\ OthersNow = OthersIn(others, row.window)
  BY DEF AckedNow, AckedIn, OthersNow, OthersIn, Current
<1>2. acked \in Nat /\ back \in Nat
  <2>1. buckets \in Seq(Bucket) /\ flight \in Flights
    BY DEF CounterInv, TypeOK
  <2> QED
    BY <2>1, AckedType DEF Unacknowledged, Flights
<1>3. OthersNow \in Nat /\ row.count \in Nat /\ replayed \in Nat
  BY BoundsAssumption DEF OthersNow, CounterInv, TypeOK, RowInv, WindowsOrdered
<1>4. Hits \in Nat
  <2> DEFINE hits == [m \in 1..Len(buckets) |-> buckets[m].hits]
  <2>1. Len(buckets) \in Nat /\ IsFiniteSet(1..Len(buckets))
    BY FS_Interval DEF CounterInv, TypeOK
  <2>2. \A m \in 1..Len(buckets) : hits[m] \in Nat
    BY ElementOfSeq, BucketFields DEF CounterInv, TypeOK
  <2>3. Hits = SumFunctionOnSet(hits, 1..Len(buckets))
    BY DEF Hits, SumFunction, Current
  <2> HIDE DEF hits
  <2> QED
    BY <2>1, <2>2, <2>3, SumStep
<1>5. acked + back <= Hits
  BY RowWithinHits
<1>6. acked + back + OthersNow <= row.count /\ row.count <= acked + back + OthersNow + replayed
  BY <1>1 DEF RowInv, RowAccount
<1> HIDE DEF acked, back
<1> QED
  BY <1>1, <1>2, <1>3, <1>4, <1>5, <1>6 DEF RowCountsEveryone

\* PostgreSQL counts for all instances: the row of rate_limits has every hit that
\* was acknowledged in its window, here or elsewhere, and beyond the hits there
\* were only those of flushes whose acknowledgement was lost.
THEOREM RowIsComplete == Spec => []RowCountsEveryone
<1>1. CounterInv /\ RowInv /\ [Next]_vars => (CounterInv /\ RowInv)'
  BY NextInv, RowNext
<1>2. Init => CounterInv /\ RowInv
  BY InitInv, RowInit
<1>3. CounterInv /\ RowInv => RowCountsEveryone
  BY RowInvCounts
<1> QED
  BY <1>1, <1>2, <1>3, PTL DEF Spec

-----------------------------------------------------------------------------
\* Shutdown.

\* Hits that are pending while nothing is in flight have seen every pass fail, and
\* what a pass has in flight left nothing behind.
DrainInv ==
    /\ status = "serving" => passes = 0
    /\ status # "serving" => timer = 0
    /\ status = "draining" =>
          /\ flight.phase = "none" /\ Pending => drainFailures >= passes
          /\ flight.phase # "none" /\ passes > 0 => ~Pending /\ drainFailures + 1 >= passes
    /\ status = "stopped" => flight.phase = "none" /\ (Pending => drainFailures >= 3)

\* A bucket that keeps its pending hits.
LEMMA PendingKept ==
    ASSUME TypeOK, NEW n \in 1..Len(buckets), NEW b,
           buckets' = [buckets EXCEPT ![n] = b], b.pendingDelta = buckets[n].pendingDelta,
           held' = held
    PROVE  Pending' = Pending
<1>1. /\ Len(buckets') = Len(buckets)
      /\ \A m \in 1..Len(buckets) : buckets'[m].pendingDelta = buckets[m].pendingDelta
  BY DEF TypeOK
<1>2. held => Len(buckets) \in 1..Len(buckets)
  BY DEF TypeOK
<1>3. CASE held
  <2>1. buckets'[Len(buckets)].pendingDelta = buckets[Len(buckets)].pendingDelta
    BY <1>1, <1>2, <1>3
  <2> QED
    BY <1>1, <2>1 DEF Pending, Current
<1>4. CASE ~held
  BY <1>4 DEF Pending
<1> QED
  BY <1>3, <1>4 DEF TypeOK

\* A pass leaves nothing pending: it was dropped or is in flight.
LEMMA PassTakesAll ==
    ASSUME TypeOK, Pending, flight = NoFlight, FlushIfCurrent
    PROVE  ~Pending'
<1> DEFINE n == Current
           b == buckets[n]
<1>1. n \in 1..Len(buckets) /\ buckets \in Seq(Bucket)
  BY DEF TypeOK, Pending, Current
<1>2. b \in Bucket
  BY <1>1, ElementOfSeq
<1>3. PICK c : buckets' = [buckets EXCEPT ![n] = c] /\ c.pendingDelta = 0
  <2>1. Expired(b).pendingDelta = 0 /\ Captured(b).pendingDelta = 0
    BY <1>2 DEF Expired, Captured, Bucket
  <2>2. \/ buckets' = [buckets EXCEPT ![n] = Expired(b)]
        \/ buckets' = [buckets EXCEPT ![n] = Captured(b)]
    BY DEF FlushIfCurrent, Flush
  <2> QED
    BY <2>1, <2>2
<1>4. Len(buckets') = n /\ buckets'[n] = c
  BY <1>1, <1>3 DEF Current
<1> HIDE DEF n
<1> QED
  BY <1>3, <1>4 DEF Pending, Current

\* A flight that settles.
LEMMA SettledDrain ==
    ASSUME CounterInv, DrainInv, Acknowledge \/ Fail
    PROVE  DrainInv'
<1> DEFINE n == flight.bucket
<1>1. /\ TypeOK /\ flight.phase # "none" /\ n \in 1..Len(buckets)
      /\ buckets[n] \in Bucket
  <2>1. TypeOK /\ flight.phase # "none"
    BY DEF CounterInv, Acknowledge, Fail
  <2>2. n \in 1..Len(buckets) /\ buckets \in Seq(Bucket)
    BY <2>1 DEF TypeOK
  <2> QED
    BY <2>1, <2>2, ElementOfSeq
<1>2. /\ flight'.phase = "none" /\ UNCHANGED <<status, passes, held>>
      /\ status # "serving" => UNCHANGED timer
  BY DEF Acknowledge, Fail, Resume, CanSchedule, NoFlight
<1>3. /\ status \in {"serving", "draining"}
      /\ passes \in 0..3 /\ drainFailures \in Nat
      /\ status = "draining" /\ passes > 0 => ~Pending /\ drainFailures + 1 >= passes
  BY <1>1 DEF DrainInv, TypeOK
<1>4. ASSUME status = "draining", Pending' PROVE drainFailures' >= passes
  <2>1. CASE Acknowledge
    <3> DEFINE b == Acknowledged(buckets[n])
    <3>1. b.pendingDelta = buckets[n].pendingDelta
      BY <1>1 DEF Acknowledged, Bucket
    <3>2. buckets' = [buckets EXCEPT ![n] = b] /\ drainFailures' = drainFailures
      BY <2>1 DEF Acknowledge
    <3> HIDE DEF b, n
    <3>3. Pending
      BY <1>1, <1>2, <1>4, <3>1, <3>2, PendingKept
    <3> QED
      BY <1>3, <1>4, <3>2, <3>3
  <2>2. CASE Fail
    <3>1. drainFailures' = drainFailures + 1
      BY <1>4, <2>2 DEF Fail
    <3> QED
      BY <1>3, <1>4, <3>1
  <2> QED
    BY <2>1, <2>2
<1> QED
  BY <1>2, <1>3, <1>4 DEF DrainInv

\* A pass of drain(), or its end.
LEMMA DrainPassDrain ==
    ASSUME CounterInv, DrainInv, DrainPass
    PROVE  DrainInv'
<1>1. TypeOK /\ passes \in 0..3 /\ drainFailures \in Nat /\ status = "draining"
      /\ flight = NoFlight /\ flight.phase = "none" /\ timer = 0
      /\ UNCHANGED <<timer, held, drainFailures>>
  BY DEF CounterInv, TypeOK, DrainPass, DrainInv, NoFlight
<1>2. Pending => drainFailures >= passes
  BY <1>1 DEF DrainInv
<1>3. CASE Pending /\ passes < 3
  <2>1. passes' = passes + 1 /\ status' = status /\ FlushIfCurrent
    BY <1>3 DEF DrainPass
  <2>2. ~Pending'
    BY <1>1, <1>3, <2>1, PassTakesAll
  <2> QED
    BY <1>1, <1>2, <1>3, <2>1, <2>2 DEF DrainInv
<1>4. CASE ~(Pending /\ passes < 3)
  <2>1. status' = "stopped" /\ UNCHANGED <<buckets, flight, passes>>
    BY <1>4 DEF DrainPass
  <2>2. Pending' = Pending
    BY <1>1, <2>1 DEF Pending, Current
  <2> QED
    BY <1>1, <1>2, <1>4, <2>1, <2>2 DEF DrainInv
<1> QED
  BY <1>3, <1>4

\* Hits, timers and the beginning of drain() come before its first pass.
LEMMA ServingDrain ==
    ASSUME CounterInv, DrainInv, Hit \/ TimerFires \/ StartDrain
    PROVE  DrainInv'
<1>1. passes = 0 /\ passes' = 0 /\ drainFailures \in Nat /\ drainFailures' = drainFailures
  BY DEF DrainInv, CounterInv, TypeOK, Hit, TimerFires, StartDrain
<1>2. \/ status' = "serving"
      \/ status' = "draining" /\ timer' = 0
  BY DEF DrainInv, CounterInv, TypeOK, Hit, TimerFires, StartDrain
<1> QED
  BY <1>1, <1>2 DEF DrainInv

\* The other steps leave the pending hits where they are, or take the bucket away.
LEMMA OtherDrain ==
    ASSUME CounterInv, DrainInv,
           \/ Commit \/ OthersFlush \/ IntervalPasses \/ ProvisionalWindowEnds
           \/ RowWindowEnds \/ Evict \/ UNCHANGED vars
    PROVE  DrainInv'
<1>1. TypeOK
  BY DEF CounterInv
<1>2. /\ UNCHANGED <<status, passes, timer, drainFailures>>
      /\ flight' = flight \/ (flight.phase # "none" /\ flight'.phase # "none")
  BY DEF Commit, OthersFlush, IntervalPasses, ProvisionalWindowEnds, RowWindowEnds, Evict, vars
<1>3. Pending' => Pending
  <2>1. CASE Commit \/ OthersFlush \/ RowWindowEnds \/ Evict \/ UNCHANGED vars
    BY <2>1 DEF Commit, OthersFlush, RowWindowEnds, Evict, vars, Pending, Current
  <2>2. CASE IntervalPasses \/ ProvisionalWindowEnds
    <3> DEFINE n == Current
    <3>1. n \in 1..Len(buckets) /\ buckets \in Seq(Bucket) /\ held' = held
      BY <1>1, <2>2 DEF TypeOK, Current, IntervalPasses, ProvisionalWindowEnds
    <3>2. buckets[n] \in Bucket
      BY <3>1, ElementOfSeq
    <3>3. PICK b : /\ buckets' = [buckets EXCEPT ![n] = b]
                   /\ b.pendingDelta = buckets[n].pendingDelta
      <4>1. ASSUME NEW b \in {[buckets[n] EXCEPT !.stale = TRUE],
                              [buckets[n] EXCEPT !.ended = TRUE]}
            PROVE  b.pendingDelta = buckets[n].pendingDelta
        BY <3>2 DEF Bucket
      <4> QED
        BY <2>2, <4>1 DEF IntervalPasses, ProvisionalWindowEnds
    <3> HIDE DEF n
    <3> QED
      BY <1>1, <3>1, <3>3, PendingKept
  <2> QED
    BY <2>1, <2>2
<1> QED
  BY <1>2, <1>3 DEF DrainInv

LEMMA DrainNext == CounterInv /\ DrainInv /\ [Next]_vars => DrainInv'
BY SettledDrain, DrainPassDrain, ServingDrain, OtherDrain DEF Next

\* At shutdown only a flush that failed in each of the three passes of drain()
\* leaves accepted hits of a current window unwritten.
THEOREM DrainIsThorough == Spec => []DrainTriesThrice
<1>1. CounterInv /\ DrainInv /\ [Next]_vars => (CounterInv /\ DrainInv)'
  BY NextInv, DrainNext
<1>2. Init => CounterInv /\ DrainInv
  <2>1. Init => DrainInv
    BY DEF Init, DrainInv, NoFlight
  <2> QED
    BY <2>1, InitInv
<1>3. DrainInv => DrainTriesThrice
  BY DEF DrainInv, DrainTriesThrice
<1> QED
  BY <1>1, <1>2, <1>3, PTL DEF Spec

-----------------------------------------------------------------------------
\* The response cache: bytes.

\* The entries that the cache keeps: whole bodies that say success: true.
Wholes == {e \in Entry : e.size = e.body.length /\ e.body.success}
KeyedOnce(es) == \A i, j \in DOMAIN es : es[i].key = es[j].key => i = j
Cache(es) == [entries |-> es, bytes |-> Bytes(es)]

\* A set of numbers has a least element.
LEMMA LeastNumber ==
    ASSUME NEW S \in SUBSET Nat, S # {}
    PROVE  \E m \in S : \A x \in S : m <= x
<1>1. PICK m \in S : \A x \in S : <<x, m>> \notin OpToRel(<, Nat)
  BY NatLessThanWellFounded, WFMin
<1>2. ASSUME NEW x \in S, x < m PROVE FALSE
  <2>1. <<x, m>> \in OpToRel(<, Nat)
    BY <1>2 DEF OpToRel
  <2> QED
    BY <1>1, <2>1
<1> QED
  BY <1>2

LEMMA FieldsOfWhole ==
    ASSUME NEW e \in Wholes
    PROVE  /\ e.key \in CacheKeys /\ e.size \in 1..MaxEntry /\ e.size \in Nat
           /\ e.age \in 0..Longest
<1>1. e \in Entry
  BY DEF Wholes
<1>2. e.key \in CacheKeys /\ e.size \in 1..MaxEntry /\ e.age \in 0..Longest
  BY <1>1, Zenon DEF Entry
<1>3. e.size \in Nat
  <2>1. MaxEntry \in Nat /\ e.size \in 1..MaxEntry
    BY <1>2, SizesAssumption
  <2> QED
    BY <2>1
<1> QED
  BY <1>2, <1>3, Zenon

\* An entry that only grows older stays whole.
LEMMA OlderIsWhole ==
    ASSUME NEW e \in Wholes, NEW n \in 0..Longest
    PROVE  /\ [e EXCEPT !.age = n] \in Wholes
           /\ [e EXCEPT !.age = n].key = e.key
           /\ [e EXCEPT !.age = n].size = e.size
<1>1. e \in Entry /\ e.size = e.body.length /\ e.body.success
  BY DEF Wholes
<1>2. /\ [e EXCEPT !.age = n] \in Entry
      /\ [e EXCEPT !.age = n].key = e.key
      /\ [e EXCEPT !.age = n].size = e.size
      /\ [e EXCEPT !.age = n].body = e.body
  BY <1>1 DEF Entry
<1> QED
  BY <1>1, <1>2 DEF Wholes

LEMMA BytesDef ==
    ASSUME NEW es \in Seq(Wholes)
    PROVE  /\ Bytes(es) = SumFunctionOnSet([i \in DOMAIN es |-> es[i].size], 1..Len(es))
           /\ Bytes(es) \in Nat
           /\ \A i \in 1..Len(es) : es[i] \in Wholes /\ es[i].size \in Nat
<1>1. DOMAIN es = 1..Len(es) /\ Len(es) \in Nat /\ \A i \in 1..Len(es) : es[i] \in Wholes
  BY LenProperties, ElementOfSeq
<1>2. \A i \in 1..Len(es) : es[i].size \in Nat
  BY <1>1, FieldsOfWhole
<1> DEFINE f == [i \in DOMAIN es |-> es[i].size]
<1>3. \A i \in 1..Len(es) : f[i] \in Nat
  BY <1>1, <1>2
<1>4. Bytes(es) = SumFunctionOnSet(f, 1..Len(es))
  BY <1>1 DEF Bytes, SumFunction
<1> HIDE DEF f
<1>5. IsFiniteSet(1..Len(es))
  BY <1>1, FS_Interval
<1>6. Bytes(es) \in Nat
  BY <1>3, <1>4, <1>5, SumStep
<1> QED
  BY <1>1, <1>2, <1>4, <1>6 DEF f

LEMMA BytesOfNone == Bytes(<<>>) = 0
<1>1. DOMAIN <<>> = {} /\ IsFiniteSet({})
  BY FS_EmptySet
<1> QED
  BY <1>1, SumOfZeros DEF Bytes, SumFunction

LEMMA BytesAppend ==
    ASSUME NEW es \in Seq(Wholes), NEW e \in Wholes
    PROVE  Bytes(Append(es, e)) = Bytes(es) + e.size
<1> DEFINE fs == Append(es, e)
           n == Len(es)
           f == [i \in DOMAIN es |-> es[i].size]
           h == [i \in DOMAIN fs |-> fs[i].size]
<1>1. fs \in Seq(Wholes) /\ Len(fs) = n + 1 /\ n \in Nat /\ fs[n + 1] = e
      /\ \A i \in 1..n : fs[i] = es[i]
  BY AppendProperties, LenProperties
<1>2. DOMAIN es = 1..n /\ DOMAIN fs = 1..(n + 1)
  BY <1>1, LenProperties
<1> HIDE DEF fs, n
<1>3. /\ \A i \in 1..n : f[i] = h[i]
      /\ h[n + 1] = e.size
  BY <1>1, <1>2
<1>4. \A i \in 1..(n + 1) : h[i] \in Nat
  BY <1>1, <1>2, BytesDef
<1>5. Bytes(es) = SumFunctionOnSet(f, 1..n) /\ Bytes(fs) = SumFunctionOnSet(h, 1..(n + 1))
  BY <1>1, BytesDef DEF n
<1> HIDE DEF f, h
<1>6. SumFunctionOnSet(h, 1..(n + 1)) = SumFunctionOnSet(f, 1..n) + h[n + 1]
  BY <1>1, <1>3, <1>4, SumGrows
<1> QED
  BY <1>3, <1>5, <1>6 DEF fs

LEMMA BytesConcat ==
    ASSUME NEW s \in Seq(Wholes), NEW t \in Seq(Wholes)
    PROVE  Bytes(s \o t) = Bytes(s) + Bytes(t)
<1> DEFINE u(m) == SubSeq(t, 1, m)
           Wrong == {m \in 0..Len(t) : Bytes(s \o u(m)) # Bytes(s) + Bytes(u(m))}
<1>1. Len(t) \in Nat
  BY LenProperties
<1>2. ASSUME NEW m \in 0..Len(t) PROVE u(m) \in Seq(Wholes)
  <2>1. \A i \in 1..m : t[i] \in Wholes
    BY <1>1, ElementOfSeq
  <2> QED
    BY <1>1, <2>1, SubSeqProperties
<1>3. ASSUME Wrong # {} PROVE FALSE
  <2>1. PICK m \in Wrong : \A x \in Wrong : m <= x
    <3>1. Wrong \in SUBSET Nat
      BY <1>1
    <3> HIDE DEF Wrong
    <3> QED
      BY <1>3, <3>1, LeastNumber
  <2>2. m # 0
    <3>1. SubSeq(t, 1, 0) = <<>> /\ s \o <<>> = s
      BY SubSeqEmpty, ConcatEmptySeq
    <3>2. Bytes(s) + Bytes(<<>>) = Bytes(s)
      <4>1. Bytes(s) \in Nat
        BY BytesDef
      <4> QED
        BY ONLY <4>1, BytesOfNone
    <3>3. 0 \notin Wrong
      BY <3>1, <3>2
    <3> QED
      BY <2>1, <3>3
  <2>3. m \in 1..Len(t) /\ m - 1 \in 0..Len(t) /\ m - 1 \notin Wrong
    BY <1>1, <2>1, <2>2
  <2>4. Bytes(s \o u(m - 1)) = Bytes(s) + Bytes(u(m - 1))
    BY <2>3
  <2>5. t[m] \in Wholes /\ u(m - 1) \in Seq(Wholes) /\ s \o u(m - 1) \in Seq(Wholes)
    BY <1>2, <2>3, ElementOfSeq, ConcatProperties
  <2>6. u(m) = u(m - 1) \o <<t[m]>>
    BY <1>1, <2>3, SubSeqRecursiveSecond
  <2>7. u(m) = Append(u(m - 1), t[m])
    BY <2>5, <2>6, AppendIsConcat
  <2>8. s \o u(m) = Append(s \o u(m - 1), t[m])
    <3>1. <<t[m]>> \in Seq(Wholes)
      BY <2>5
    <3>2. s \o (u(m - 1) \o <<t[m]>>) = (s \o u(m - 1)) \o <<t[m]>>
      BY <2>5, <3>1, ConcatAssociative
    <3> QED
      BY <2>5, <2>6, <3>2, AppendIsConcat
  <2> DEFINE before == u(m - 1)
  <2> HIDE DEF u
  <2>9. Bytes(u(m)) = Bytes(before) + t[m].size /\ Bytes(s \o u(m)) = Bytes(s \o before) + t[m].size
    BY <2>5, <2>7, <2>8, BytesAppend
  <2>10. Bytes(before) \in Nat /\ Bytes(s) \in Nat /\ t[m].size \in Nat
    BY <2>3, <2>5, BytesDef
  <2>11. Bytes(s \o u(m)) # Bytes(s) + Bytes(u(m))
    BY <2>1
  <2> QED
    BY <2>4, <2>9, <2>10, <2>11
<1>4. Len(t) \notin Wrong /\ u(Len(t)) = t
  BY <1>3, SubSeqFull
<1>5. Bytes(s \o u(Len(t))) = Bytes(s) + Bytes(u(Len(t)))
  BY <1>1, <1>4
<1> HIDE DEF u
<1> QED
  BY <1>4, <1>5

\* What is left of some entries when one goes, or the first few.
LEMMA BytesSplit ==
    ASSUME NEW es \in Seq(Wholes), NEW n \in 0..Len(es)
    PROVE  /\ SubSeq(es, 1, n) \in Seq(Wholes) /\ SubSeq(es, n + 1, Len(es)) \in Seq(Wholes)
           /\ Bytes(es) = Bytes(SubSeq(es, 1, n)) + Bytes(SubSeq(es, n + 1, Len(es)))
<1>1. Len(es) \in Nat /\ \A i \in 1..Len(es) : es[i] \in Wholes
  BY LenProperties, ElementOfSeq
<1>2. SubSeq(es, 1, n) \in Seq(Wholes) /\ SubSeq(es, n + 1, Len(es)) \in Seq(Wholes)
  <2>1. (\A i \in 1..n : es[i] \in Wholes) /\ \A i \in (n + 1)..Len(es) : es[i] \in Wholes
    BY <1>1
  <2> QED
    BY <1>1, <2>1, SubSeqProperties
<1>3. SubSeq(es, 1, n) \o SubSeq(es, n + 1, Len(es)) = es
  <2>1. /\ 1 \in 1..(Len(es) + 1) /\ n \in (1 - 1)..Len(es)
        /\ Len(es) \in n..Len(es)
    BY <1>1
  <2>2. SubSeq(es, 1, n) \o SubSeq(es, n + 1, Len(es)) = SubSeq(es, 1, Len(es))
    BY <2>1, ConcatAdjacentSubSeq
  <2> QED
    BY <2>2, SubSeqFull
<1> QED
  BY <1>2, <1>3, BytesConcat

LEMMA BytesRemoved ==
    ASSUME NEW es \in Seq(Wholes), NEW i \in 1..Len(es)
    PROVE  /\ RemoveAt(es, i) \in Seq(Wholes)
           /\ Bytes(es) = Bytes(RemoveAt(es, i)) + es[i].size
<1> DEFINE front == SubSeq(es, 1, i - 1)
           back == SubSeq(es, i + 1, Len(es))
<1>1. Len(es) \in Nat /\ i - 1 \in 0..Len(es) /\ i \in 0..Len(es)
  BY LenProperties
<1>2. front \in Seq(Wholes) /\ back \in Seq(Wholes) /\ SubSeq(es, 1, i) \in Seq(Wholes)
      /\ Bytes(es) = Bytes(SubSeq(es, 1, i)) + Bytes(back)
  BY <1>1, BytesSplit
<1>3. es[i] \in Wholes /\ es[i].size \in Nat
  BY BytesDef
<1>4. SubSeq(es, 1, i) = front \o <<es[i]>>
  BY <1>1, SubSeqRecursiveSecond
<1>5. RemoveAt(es, i) = front \o back
  BY DEF RemoveAt
<1> HIDE DEF front, back
<1>6. Bytes(SubSeq(es, 1, i)) = Bytes(front) + es[i].size
  <2>1. Append(front, es[i]) = front \o <<es[i]>>
    BY <1>2, <1>3, AppendIsConcat
  <2> QED
    BY <1>2, <1>3, <1>4, <2>1, BytesAppend
<1>7. Bytes(front \o back) = Bytes(front) + Bytes(back) /\ front \o back \in Seq(Wholes)
  BY <1>2, BytesConcat, ConcatProperties
<1>8. Bytes(front) \in Nat /\ Bytes(back) \in Nat
  BY <1>2, BytesDef
<1> QED
  BY <1>2, <1>3, <1>5, <1>6, <1>7, <1>8

-----------------------------------------------------------------------------
\* The response cache: its operations keep the entries and their count.

GoodEntries == {es \in Seq(Wholes) : KeyedOnce(es)}

LEMMA RemoveAtProperties ==
    ASSUME NEW S, NEW s \in Seq(S), NEW i \in DOMAIN s
    PROVE  /\ RemoveAt(s, i) \in Seq(S) /\ Len(RemoveAt(s, i)) = Len(s) - 1
           /\ DOMAIN RemoveAt(s, i) = 1..(Len(s) - 1)
           /\ \A j \in 1..(Len(s) - 1) :
                 RemoveAt(s, i)[j] = IF j < i THEN s[j] ELSE s[j + 1]
<1> DEFINE front == SubSeq(s, 1, i - 1)
           back == SubSeq(s, i + 1, Len(s))
<1>1. Len(s) \in Nat /\ DOMAIN s = 1..Len(s) /\ i \in 1..Len(s)
      /\ \A j \in 1..Len(s) : s[j] \in S
  BY LenProperties, ElementOfSeq
<1>2. front \in Seq(S) /\ Len(front) = i - 1 /\ \A j \in 1..(i - 1) : front[j] = s[j]
  <2>1. \A j \in 1..(i - 1) : s[j] \in S
    BY <1>1
  <2>2. /\ front \in Seq(S)
        /\ Len(front) = IF 1 <= i - 1 THEN i - 1 - 1 + 1 ELSE 0
        /\ \A j \in 1..(i - 1 - 1 + 1) : front[j] = s[1 + j - 1]
    BY <1>1, <2>1, SubSeqProperties
  <2> HIDE DEF front
  <2>3. Len(front) = i - 1
    BY <1>1, <2>2
  <2>4. ASSUME NEW j \in 1..(i - 1) PROVE front[j] = s[j]
    <3>1. j \in 1..(i - 1 - 1 + 1) /\ 1 + j - 1 = j
      BY <1>1
    <3> QED
      BY <2>2, <3>1
  <2> QED
    BY <2>2, <2>3, <2>4
<1>3. /\ back \in Seq(S) /\ Len(back) = Len(s) - i
      /\ \A j \in 1..(Len(s) - i) : back[j] = s[i + j]
  <2>1. \A j \in (i + 1)..Len(s) : s[j] \in S
    BY <1>1
  <2>2. /\ back \in Seq(S)
        /\ Len(back) = IF i + 1 <= Len(s) THEN Len(s) - (i + 1) + 1 ELSE 0
        /\ \A j \in 1..(Len(s) - (i + 1) + 1) : back[j] = s[i + 1 + j - 1]
    BY <1>1, <2>1, SubSeqProperties
  <2> HIDE DEF back
  <2>3. Len(back) = Len(s) - i
    BY <1>1, <2>2
  <2>4. ASSUME NEW j \in 1..(Len(s) - i) PROVE back[j] = s[i + j]
    <3>1. j \in 1..(Len(s) - (i + 1) + 1) /\ i + 1 + j - 1 = i + j
      BY <1>1
    <3> QED
      BY <2>2, <3>1
  <2> QED
    BY <2>2, <2>3, <2>4
<1>4. RemoveAt(s, i) = front \o back
  BY DEF RemoveAt
<1> HIDE DEF front, back
<1>5. /\ front \o back \in Seq(S) /\ Len(front \o back) = Len(front) + Len(back)
      /\ \A j \in 1..(Len(front) + Len(back)) :
            (front \o back)[j] = IF j <= Len(front) THEN front[j] ELSE back[j - Len(front)]
  BY <1>2, <1>3, ConcatProperties
<1>6. Len(front) + Len(back) = Len(s) - 1
  BY <1>1, <1>2, <1>3
<1>7. ASSUME NEW j \in 1..(Len(s) - 1)
      PROVE  (front \o back)[j] = IF j < i THEN s[j] ELSE s[j + 1]
  <2>1. CASE j < i
    BY <1>1, <1>2, <1>5, <1>6, <2>1
  <2>2. CASE ~(j < i)
    <3>1. j - (i - 1) \in 1..(Len(s) - i) /\ i + (j - (i - 1)) = j + 1 /\ ~(j <= i - 1)
      BY <1>1, <2>2
    <3>2. back[j - (i - 1)] = s[j + 1]
      BY <1>3, <3>1
    <3> QED
      BY <1>2, <1>5, <1>6, <2>2, <3>1, <3>2
  <2> QED
    BY <2>1, <2>2
<1> QED
  BY <1>4, <1>5, <1>6, <1>7, LenProperties

\* remove() takes the entry, its bytes and the only use of its key.
LEMMA RemovedKeeps ==
    ASSUME NEW es \in GoodEntries, NEW i \in DOMAIN es
    PROVE  /\ RemoveAt(es, i) \in GoodEntries
           /\ \A j \in DOMAIN RemoveAt(es, i) : RemoveAt(es, i)[j].key # es[i].key
           /\ Removed(Cache(es), i) = Cache(RemoveAt(es, i))
           /\ Bytes(RemoveAt(es, i)) + es[i].size = Bytes(es)
<1> DEFINE rest == RemoveAt(es, i)
<1>1. es \in Seq(Wholes) /\ KeyedOnce(es) /\ Len(es) \in Nat /\ DOMAIN es = 1..Len(es)
  BY LenProperties DEF GoodEntries
<1>2. /\ rest \in Seq(Wholes) /\ DOMAIN rest = 1..(Len(es) - 1)
      /\ \A j \in 1..(Len(es) - 1) : rest[j] = IF j < i THEN es[j] ELSE es[j + 1]
  BY <1>1, RemoveAtProperties
<1>3. rest \in Seq(Wholes) /\ Bytes(es) = Bytes(rest) + es[i].size
  BY <1>1, BytesRemoved
<1>4. Bytes(rest) \in Nat /\ es[i].size \in Nat /\ Bytes(es) \in Nat
  BY <1>1, <1>3, BytesDef
<1>5. Removed(Cache(es), i) = Cache(rest)
  <2>1. Bytes(es) - es[i].size = Bytes(rest)
    BY <1>3, <1>4
  <2> QED
    BY <2>1 DEF Removed, Cache
<1> HIDE DEF rest
<1> DEFINE was(j) == IF j < i THEN j ELSE j + 1
<1>6. ASSUME NEW j \in DOMAIN rest PROVE was(j) \in DOMAIN es /\ was(j) # i /\ rest[j] = es[was(j)]
  BY <1>1, <1>2
<1>7. KeyedOnce(rest)
  <2> SUFFICES ASSUME NEW j \in DOMAIN rest, NEW m \in DOMAIN rest, rest[j].key = rest[m].key
               PROVE  j = m
    BY DEF KeyedOnce
  <2>1. was(j) = was(m)
    <3> HIDE DEF was
    <3> QED
      BY <1>1, <1>6 DEF KeyedOnce
  <2> QED
    BY <1>1, <1>2, <2>1
<1>8. \A j \in DOMAIN rest : rest[j].key # es[i].key
  <2> HIDE DEF was
  <2> QED
    BY <1>1, <1>6 DEF KeyedOnce
<1> QED
  BY <1>2, <1>3, <1>5, <1>7, <1>8 DEF rest, GoodEntries

\* An entry whose key is not used yet goes to the end.
LEMMA AppendKeeps ==
    ASSUME NEW es \in GoodEntries, NEW e \in Wholes, \A j \in DOMAIN es : es[j].key # e.key
    PROVE  Append(es, e) \in GoodEntries /\ Bytes(Append(es, e)) = Bytes(es) + e.size
<1> DEFINE more == Append(es, e)
<1>1. es \in Seq(Wholes) /\ KeyedOnce(es) /\ Len(es) \in Nat /\ DOMAIN es = 1..Len(es)
  BY LenProperties DEF GoodEntries
<1>2. /\ more \in Seq(Wholes) /\ Len(more) = Len(es) + 1
      /\ \A j \in 1..Len(es) : more[j] = es[j]
      /\ more[Len(es) + 1] = e
  BY <1>1, AppendProperties
<1>3. Bytes(more) = Bytes(es) + e.size
  BY <1>1, BytesAppend
<1> HIDE DEF more
<1>4. DOMAIN more = 1..(Len(es) + 1)
  BY <1>2, LenProperties
<1>5. KeyedOnce(more)
  <2> SUFFICES ASSUME NEW j \in DOMAIN more, NEW m \in DOMAIN more, more[j].key = more[m].key
               PROVE  j = m
    BY DEF KeyedOnce
  <2>1. CASE j \in DOMAIN es /\ m \in DOMAIN es
    BY <1>1, <1>2, <2>1 DEF KeyedOnce
  <2>2. CASE ~(j \in DOMAIN es /\ m \in DOMAIN es)
    <3>1. j = Len(es) + 1 \/ j \in DOMAIN es
      BY <1>1, <1>4
    <3>2. m = Len(es) + 1 \/ m \in DOMAIN es
      BY <1>1, <1>4
    <3> QED
      BY <1>1, <1>2, <2>2, <3>1, <3>2
  <2> QED
    BY <2>1, <2>2
<1> QED
  BY <1>2, <1>3, <1>5 DEF more, GoodEntries

LEMMA RefreshedKeeps ==
    ASSUME NEW es \in GoodEntries, NEW i \in DOMAIN es
    PROVE  \E fs \in GoodEntries : Refreshed(Cache(es), i) = Cache(fs) /\ Bytes(fs) = Bytes(es)
<1> DEFINE fs == Append(RemoveAt(es, i), es[i])
<1>1. /\ RemoveAt(es, i) \in GoodEntries
      /\ \A j \in DOMAIN RemoveAt(es, i) : RemoveAt(es, i)[j].key # es[i].key
      /\ Bytes(RemoveAt(es, i)) + es[i].size = Bytes(es)
  BY RemovedKeeps
<1>2. es[i] \in Wholes
  BY ElementOfSeq, LenProperties DEF GoodEntries
<1>3. fs \in GoodEntries /\ Bytes(fs) = Bytes(es)
  BY <1>1, <1>2, AppendKeeps
<1>4. Refreshed(Cache(es), i) = [entries |-> fs, bytes |-> Bytes(es)]
  BY DEF Refreshed, Cache
<1> HIDE DEF fs
<1> QED
  BY <1>3, <1>4 DEF Cache

\* A lookup changes the order or drops an expired entry.
LEMMA GetKeeps ==
    ASSUME NEW es \in GoodEntries, NEW lifetime, NEW k, NEW maxAge, Bytes(es) <= MaxBytes
    PROVE  \E fs \in GoodEntries :
              Get(Cache(es), lifetime, k, maxAge).cache = Cache(fs) /\ Bytes(fs) <= MaxBytes
<1> DEFINE i == Position(es, k)
<1>1. CASE ~Has(es, k)
  BY <1>1 DEF Get, Cache
<1>2. CASE Has(es, k)
  <2>1. i \in DOMAIN es
    BY <1>2 DEF Has, Position
  <2>2. PICK fs \in GoodEntries : Refreshed(Cache(es), i) = Cache(fs) /\ Bytes(fs) = Bytes(es)
    BY <2>1, RefreshedKeeps
  <2>3. /\ RemoveAt(es, i) \in GoodEntries /\ Removed(Cache(es), i) = Cache(RemoveAt(es, i))
        /\ Bytes(RemoveAt(es, i)) <= MaxBytes
    <3>1. /\ RemoveAt(es, i) \in GoodEntries /\ Removed(Cache(es), i) = Cache(RemoveAt(es, i))
          /\ Bytes(RemoveAt(es, i)) + es[i].size = Bytes(es)
      BY <2>1, RemovedKeeps
    <3>2. Bytes(RemoveAt(es, i)) \in Nat /\ es[i].size \in Nat
      BY <2>1, <3>1, BytesDef, LenProperties DEF GoodEntries
    <3> QED
      BY <3>1, <3>2, SizesAssumption
  <2>4. Cache(es).entries = es
    BY DEF Cache
  <2>5. \/ Get(Cache(es), lifetime, k, maxAge).cache = Refreshed(Cache(es), i)
        \/ Get(Cache(es), lifetime, k, maxAge).cache = Removed(Cache(es), i)
        \/ Get(Cache(es), lifetime, k, maxAge).cache = Cache(es)
    <3> HIDE DEF i
    <3> QED
      BY <1>2, <2>4 DEF Get, i
  <2> HIDE DEF i
  <2> QED
    BY <2>2, <2>3, <2>5
<1> QED
  BY <1>1, <1>2

\* Evictions take the oldest entries, until the count is within its bound.
LEMMA EvictedKeeps ==
    ASSUME NEW es \in GoodEntries
    PROVE  \E fs \in GoodEntries : Evicted(Cache(es)) = Cache(fs) /\ Bytes(fs) <= MaxBytes
<1> DEFINE all == Len(es)
           gone(n) == Bytes(SubSeq(es, 1, n))
           enough == {n \in 0..all : Bytes(es) - gone(n) <= MaxBytes \/ n = all}
           first == CHOOSE n \in enough : \A m \in enough : n <= m
           fs == SubSeq(es, first + 1, all)
<1>1. es \in Seq(Wholes) /\ KeyedOnce(es) /\ all \in Nat /\ DOMAIN es = 1..all
  BY LenProperties DEF GoodEntries
<1>2. first \in enough
  <2>1. enough \in SUBSET Nat
    BY <1>1
  <2>2. enough # {}
    BY <1>1
  <2> HIDE DEF enough
  <2> QED
    BY <2>1, <2>2, LeastNumber
<1>3. Evicted(Cache(es)) = [entries |-> fs, bytes |-> Bytes(es) - gone(first)]
  BY DEF Evicted, Cache
<1>4. first \in 0..all /\ (Bytes(es) - gone(first) <= MaxBytes \/ first = all)
  BY <1>2
<1> HIDE DEF first, enough
<1>11. first \in 0..all
  BY <1>4
<1>5. /\ fs \in Seq(Wholes) /\ SubSeq(es, 1, first) \in Seq(Wholes)
      /\ Bytes(es) = gone(first) + Bytes(fs)
  BY <1>1, <1>4, BytesSplit
<1>6. Bytes(fs) \in Nat /\ gone(first) \in Nat /\ Bytes(es) \in Nat
  BY <1>1, <1>5, BytesDef
<1>7. Bytes(es) - gone(first) = Bytes(fs)
  <2> HIDE DEF fs, gone
  <2> QED
    BY <1>5, <1>6
<1>8. Bytes(fs) <= MaxBytes
  <2>1. CASE first = all
    <3>1. fs = <<>>
      BY <1>1, <2>1, SubSeqEmpty
    <3>2. Bytes(fs) = 0
      BY <3>1, BytesOfNone
    <3> HIDE DEF fs
    <3> QED
      BY <3>2, SizesAssumption
  <2>2. CASE Bytes(es) - gone(first) <= MaxBytes
    BY <1>7, <2>2
  <2> QED
    BY <1>4, <2>1, <2>2
<1>9. KeyedOnce(fs)
  <2>1. /\ Len(fs) = IF first + 1 <= all THEN all - (first + 1) + 1 ELSE 0
        /\ \A j \in 1..(all - (first + 1) + 1) : fs[j] = es[first + 1 + j - 1]
    <3>1. ASSUME NEW j \in (first + 1)..all PROVE es[j] \in Wholes
      <4>1. j \in 1..all
        BY <1>1, <1>11
      <4> QED
        BY <1>1, <4>1, ElementOfSeq
    <3>2. first + 1 \in Int /\ all \in Int
      BY <1>1, <1>11
    <3> HIDE DEF all
    <3> QED
      BY <3>1, <3>2, SubSeqProperties
  <2>2. DOMAIN fs = 1..Len(fs)
    BY <1>5, LenProperties
  <2> HIDE DEF fs
  <2>3. ASSUME NEW j \in DOMAIN fs PROVE first + j \in DOMAIN es /\ fs[j] = es[first + j]
    <3> HIDE DEF all
    <3>1. j \in 1..(all - (first + 1) + 1) /\ first + 1 + j - 1 = first + j /\ first + j \in 1..all
      BY <1>1, <1>11, <2>1, <2>2
    <3> QED
      BY <1>1, <2>1, <3>1
  <2> SUFFICES ASSUME NEW j \in DOMAIN fs, NEW m \in DOMAIN fs, fs[j].key = fs[m].key
               PROVE  j = m
    BY DEF KeyedOnce
  <2>4. first + j = first + m
    BY <1>1, <2>3 DEF KeyedOnce
  <2>5. j \in Int /\ m \in Int
    BY <1>5, <2>2, LenProperties
  <2> QED
    BY <1>4, <2>4, <2>5
<1> HIDE DEF fs
<1>10. Evicted(Cache(es)) = Cache(fs)
  BY <1>3, <1>7 DEF Cache
<1> QED
  BY <1>5, <1>8, <1>9, <1>10 DEF GoodEntries

-----------------------------------------------------------------------------
\* The response cache: its steps.

\* What the cache holds is whole, and counted.
CacheKept == entries \in GoodEntries /\ totalBytes = Bytes(entries) /\ totalBytes <= MaxBytes

CacheInv ==
    /\ setting \in Lifetimes /\ ttl \in Lifetimes
    /\ request \in [Requests -> RequestStates]
    /\ CacheKept

LEMMA LongestIsNat == Longest \in Lifetimes /\ Longest \in Nat /\ \A t \in Lifetimes : t <= Longest
<1>1. \E t \in Lifetimes : \A u \in Lifetimes : u <= t
  BY LifetimesAssumption
<1>2. Longest \in Lifetimes /\ \A t \in Lifetimes : t <= Longest
  BY <1>1 DEF Longest
<1> QED
  BY <1>2, LifetimesAssumption

\* set()
LEMMA PutKeeps ==
    ASSUME CacheKept, NEW e \in Wholes, Put(e)
    PROVE  CacheKept'
<1> DEFINE i == Position(entries, e.key)
           rest == IF Has(entries, e.key) THEN RemoveAt(entries, i) ELSE entries
           without == IF Has(entries, e.key) THEN Removed(Cache(entries), i) ELSE Cache(entries)
           with == [entries |-> Append(without.entries, e), bytes |-> without.bytes + e.size]
<1>1. entries \in GoodEntries /\ totalBytes = Bytes(entries)
  BY DEF CacheKept
<1>2. Cache(entries) = [entries |-> entries, bytes |-> totalBytes]
  BY <1>1 DEF Cache
<1>3. entries' = Evicted(with).entries /\ totalBytes' = Evicted(with).bytes
  BY <1>2 DEF Put
<1>4. /\ rest \in GoodEntries /\ without = Cache(rest)
      /\ \A j \in DOMAIN rest : rest[j].key # e.key
  <2>1. CASE Has(entries, e.key)
    <3>1. i \in DOMAIN entries /\ entries[i].key = e.key
      BY <2>1 DEF Has, Position
    <3> HIDE DEF i
    <3> QED
      BY <1>1, <2>1, <3>1, RemovedKeeps
  <2>2. CASE ~Has(entries, e.key)
    BY <1>1, <2>2 DEF Has
  <2> QED
    BY <2>1, <2>2
<1> HIDE DEF rest, without
<1>5. /\ Append(rest, e) \in GoodEntries
      /\ Bytes(Append(rest, e)) = Bytes(rest) + e.size
  BY <1>4, AppendKeeps
<1>6. with = Cache(Append(rest, e))
  BY <1>4, <1>5 DEF Cache
<1>7. PICK fs \in GoodEntries :
         Evicted(Cache(Append(rest, e))) = Cache(fs) /\ Bytes(fs) <= MaxBytes
  BY <1>5, EvictedKeeps
<1> HIDE DEF with
<1>8. entries' = fs /\ totalBytes' = Bytes(fs)
  BY <1>3, <1>6, <1>7 DEF Cache
<1> QED
  BY <1>7, <1>8 DEF CacheKept

\* What each pc of a request carries.
LEMMA CarriedByRequest ==
    ASSUME NEW q \in RequestStates
    PROVE  /\ q.pc = "planned" => q.lifetime \in Lifetimes
           /\ "key" \in DOMAIN q => q.key \in CacheKeys
           /\ q.pc \in {"both", "collector"} =>
                 /\ q.key \in CacheKeys /\ q.body \in Bodies
                 /\ q.held \in 0..MaxEntry /\ q.abandoned \in BOOLEAN
BY SMTT(60) DEF RequestStates

\* The states of a request that collects, and how it moves among them.
Collectors == [pc : {"both", "collector"}, key : CacheKeys, body : Bodies,
               held : 0..MaxEntry, abandoned : BOOLEAN]

LEMMA MovesOfCollector ==
    ASSUME NEW q \in RequestStates, q.pc \in {"both", "collector"}
    PROVE  /\ q \in Collectors
           /\ Abandoned(q) \in Collectors
           /\ \A n \in 0..MaxEntry : [q EXCEPT !.held = n] \in Collectors
           /\ [q EXCEPT !.pc = "collector"] \in Collectors
<1>1. q \in Collectors
  BY DEF RequestStates, Collectors
<1>2. 0 \in 0..MaxEntry
  BY SizesAssumption
<1>3. Abandoned(q) \in Collectors
  BY <1>1, <1>2 DEF Collectors, Abandoned
<1>4. \A n \in 0..MaxEntry : [q EXCEPT !.held = n] \in Collectors
  BY <1>1 DEF Collectors
<1>5. [q EXCEPT !.pc = "collector"] \in Collectors
  BY <1>1 DEF Collectors
<1> QED
  BY <1>1, <1>3, <1>4, <1>5

\* What the collector holds is an entry only if it is the whole of the body.
LEMMA UpstreamEndsKeeps ==
    ASSUME CacheKept, NEW r \in Requests, request[r] \in RequestStates, UpstreamEnds(r)
    PROVE  CacheKept'
<1> DEFINE c == request[r]
           e == [key |-> c.key, size |-> c.held, age |-> 0, body |-> c.body]
<1>1. ASSUME UNCHANGED <<entries, totalBytes>> PROVE CacheKept'
  BY <1>1 DEF CacheKept
<1>2. ASSUME Collecting(r), Successful(c), Store(e) PROVE CacheKept'
  <2>1. c.key \in CacheKeys /\ c.body \in Bodies /\ c.held \in 0..MaxEntry
    BY <1>2, CarriedByRequest DEF Collecting, Collects
  <2>2. c.held = c.body.length /\ c.body.success
    BY <1>2 DEF Successful
  <2>3. c.held \in 1..MaxEntry
    <3>1. MaxEntry \in Nat /\ c.body.length \in 1..(MaxEntry + 1)
      BY <2>1, SizesAssumption DEF Bodies
    <3> HIDE DEF c
    <3> QED
      BY <2>1, <2>2, <3>1
  <2>4. 0 \in 0..Longest
    BY LongestIsNat
  <2>5. e \in Wholes
    <3> HIDE DEF c
    <3> QED
      BY <2>1, <2>2, <2>3, <2>4 DEF Wholes, Entry
  <2> HIDE DEF e
  <2>6. Put(e) \/ UNCHANGED <<entries, totalBytes>>
    BY <1>2 DEF Store
  <2> QED
    BY <1>1, <2>5, <2>6, PutKeeps
<1> QED
  BY <1>1, <1>2 DEF UpstreamEnds

\* The clock ages the entries, no further than the longest lifetime.
LEMMA TickKeeps ==
    ASSUME CacheKept, Tick
    PROVE  CacheKept'
<1> DEFINE older(e) == [e EXCEPT !.age = IF @ < Longest THEN @ + 1 ELSE @]
<1>1. /\ entries \in Seq(Wholes) /\ KeyedOnce(entries) /\ Len(entries) \in Nat
      /\ DOMAIN entries = 1..Len(entries)
      /\ \A i \in DOMAIN entries : entries[i] \in Wholes
  BY LenProperties, ElementOfSeq DEF CacheKept, GoodEntries
<1>2. entries' = [i \in 1..Len(entries) |-> older(entries[i])] /\ totalBytes' = totalBytes
  BY <1>1 DEF Tick
<1>3. ASSUME NEW e \in Wholes
      PROVE  older(e) \in Wholes /\ older(e).key = e.key /\ older(e).size = e.size
  <2>1. (IF e.age < Longest THEN e.age + 1 ELSE e.age) \in 0..Longest
    <3>1. e.age \in 0..Longest /\ Longest \in Nat
      BY FieldsOfWhole, LongestIsNat
    <3> QED
      BY <3>1
  <2> DEFINE n == IF e.age < Longest THEN e.age + 1 ELSE e.age
  <2> HIDE DEF n
  <2>2. [e EXCEPT !.age = n] \in Wholes /\ [e EXCEPT !.age = n].key = e.key
        /\ [e EXCEPT !.age = n].size = e.size
    <3>1. n \in 0..Longest
      BY <2>1 DEF n
    <3> QED
      BY <3>1, OlderIsWhole
  <2>3. older(e) = [e EXCEPT !.age = n]
    BY DEF n
  <2> QED
    BY <2>2, <2>3
<1>4. ASSUME NEW i \in DOMAIN entries
      PROVE  /\ older(entries[i]) \in Wholes /\ older(entries[i]).key = entries[i].key
             /\ older(entries[i]).size = entries[i].size
  BY <1>1, <1>3
<1> HIDE DEF older
<1>5. /\ entries' \in Seq(Wholes) /\ DOMAIN entries' = 1..Len(entries)
      /\ \A i \in 1..Len(entries) :
            entries'[i].key = entries[i].key /\ entries'[i].size = entries[i].size
  <2>1. entries' \in [1..Len(entries) -> Wholes]
    BY <1>1, <1>2, <1>4
  <2> QED
    BY <1>1, <1>2, <1>4, <2>1, SeqDef
<1>6. KeyedOnce(entries)'
  BY <1>1, <1>5 DEF KeyedOnce
<1>7. Bytes(entries)' = Bytes(entries)
  <2> DEFINE f == [i \in DOMAIN entries |-> entries[i].size]
             h == [i \in DOMAIN entries' |-> entries'[i].size]
             all == 1..Len(entries)
  <2>1. Len(entries') = Len(entries)
    BY <1>1, <1>5, LenProperties
  <2>2. Bytes(entries) = SumFunctionOnSet(f, all)
    BY <1>1, BytesDef
  <2>3. Bytes(entries)' = SumFunctionOnSet(h, all)
    BY <1>5, <2>1, BytesDef
  <2>4. \A i \in all : f[i] \in Nat /\ f[i] = h[i]
    BY <1>1, <1>5, BytesDef
  <2>5. IsFiniteSet(all)
    BY <1>1, FS_Interval
  <2> HIDE DEF f, h, all
  <2> QED
    BY <2>2, <2>3, <2>4, <2>5, SumSame
<1> QED
  BY <1>2, <1>5, <1>6, <1>7 DEF CacheKept, GoodEntries

\* The lookup, after the lifetime has been applied.
LEMMA LookUpKeeps ==
    ASSUME CacheKept, NEW r \in Requests, LookUp(r)
    PROVE  CacheKept'
<1> DEFINE c == SetTtlMs(request[r].lifetime)
<1>1. entries' = Looked(r).cache.entries /\ totalBytes' = Looked(r).cache.bytes
  BY DEF LookUp
<1>2. PICK es \in GoodEntries : c = Cache(es) /\ Bytes(es) <= MaxBytes
  <2>1. <<>> \in GoodEntries /\ Bytes(<<>>) = 0 /\ 0 <= MaxBytes
    <3>1. <<>> \in Seq(Wholes) /\ DOMAIN <<>> = {}
      BY EmptySeq
    <3>2. KeyedOnce(<<>>)
      BY <3>1 DEF KeyedOnce
    <3> QED
      BY <3>1, <3>2, BytesOfNone, SizesAssumption DEF GoodEntries
  <2>2. c = Cache(<<>>) \/ c = Cache(entries)
    BY <2>1 DEF SetTtlMs, Cache, CacheKept
  <2> HIDE DEF c
  <2> QED
    BY <2>1, <2>2 DEF CacheKept
<1> HIDE DEF c
<1>3. PICK fs \in GoodEntries : Looked(r).cache = Cache(fs) /\ Bytes(fs) <= MaxBytes
  <2>1. CASE Asks(r)
    <3>1. Looked(r) = Get(Cache(es), request[r].lifetime, request[r].key, request[r].maxAge)
      BY <1>2, <2>1 DEF Looked, c
    <3> QED
      BY <1>2, <3>1, GetKeeps
  <2>2. CASE ~Asks(r)
    <3>1. Looked(r).cache = Cache(es)
      BY <1>2, <2>2 DEF Looked, c
    <3> QED
      BY <1>2, <3>1
  <2> QED
    BY <2>1, <2>2
<1> QED
  BY <1>1, <1>3 DEF CacheKept, Cache

\* Initially, and in every step.
LEMMA CacheInitial == CacheInit => CacheInv
<1> SUFFICES ASSUME CacheInit PROVE CacheInv
  OBVIOUS
<1>1. CacheKept
  <2>1. <<>> \in Seq(Wholes) /\ DOMAIN <<>> = {}
    BY EmptySeq
  <2>2. KeyedOnce(<<>>)
    BY <2>1 DEF KeyedOnce
  <2> QED
    BY <2>1, <2>2, BytesOfNone, SizesAssumption DEF CacheInit, CacheKept, GoodEntries
<1>2. request \in [Requests -> RequestStates]
  BY DEF CacheInit, Idle, RequestStates
<1> QED
  BY <1>1, <1>2, LifetimesAssumption DEF CacheInit, CacheInv

LEMMA CacheInvariant ==
    ASSUME CacheInv, [CacheNext]_requestVars
    PROVE  CacheInv'
<1>1. /\ setting \in Lifetimes /\ ttl \in Lifetimes
      /\ request \in [Requests -> RequestStates] /\ CacheKept
  BY DEF CacheInv
<1>2. ASSUME NEW r \in Requests, NEW q \in RequestStates, Becomes(r, q)
      PROVE  request' \in [Requests -> RequestStates]
  BY <1>1, <1>2 DEF Becomes
<1>3. /\ Idle \in RequestStates /\ [pc |-> "fetching"] \in RequestStates
      /\ [pc |-> "client"] \in RequestStates /\ [pc |-> "draining"] \in RequestStates
      /\ [pc |-> "stranded"] \in RequestStates
  BY DEF Idle, RequestStates
<1>4. ASSUME UNCHANGED <<entries, totalBytes>> PROVE CacheKept'
  BY <1>1, <1>4 DEF CacheKept
<1>5. Collectors \subseteq RequestStates
  BY DEF Collectors, RequestStates
<1>6. ASSUME NEW r \in Requests, Collects(r)
      PROVE  /\ Abandoned(request[r]) \in RequestStates
             /\ \A n \in 0..MaxEntry : [request[r] EXCEPT !.held = n] \in RequestStates
             /\ [request[r] EXCEPT !.pc = "collector"] \in RequestStates
  <2>1. request[r] \in RequestStates /\ request[r].pc \in {"both", "collector"}
    BY <1>1, <1>6 DEF Collects
  <2>2. /\ Abandoned(request[r]) \in Collectors
        /\ \A n \in 0..MaxEntry : [request[r] EXCEPT !.held = n] \in Collectors
        /\ [request[r] EXCEPT !.pc = "collector"] \in Collectors
    BY <2>1, MovesOfCollector
  <2> QED
    BY <1>5, <2>2
<1>7. CASE SaveSetting
  BY <1>1, <1>4, <1>7 DEF SaveSetting, CacheInv, cacheVars
<1>8. CASE Tick
  <2>1. CacheKept'
    BY <1>1, <1>8, TickKeeps
  <2> QED
    BY <1>1, <1>8, <2>1 DEF Tick, CacheInv
<1>9. ASSUME NEW r \in Requests, Plan(r) PROVE CacheInv'
  <2>1. PICK q \in RequestStates : Becomes(r, q)
    <3>1. CASE Becomes(r, [pc |-> "planned", lifetime |-> setting])
      <4>1. [pc |-> "planned", lifetime |-> setting] \in RequestStates
        BY <1>1 DEF RequestStates
      <4> QED
        BY <3>1, <4>1
    <3>2. ASSUME NEW k \in CacheKeys, NEW m \in MaxAges \cup {NoMaxAge},
                 Becomes(r, [pc |-> "planned", lifetime |-> setting, key |-> k, maxAge |-> m])
          PROVE  \E q \in RequestStates : Becomes(r, q)
      <4>1. [pc |-> "planned", lifetime |-> setting, key |-> k, maxAge |-> m] \in RequestStates
        BY <1>1 DEF RequestStates
      <4> QED
        BY <3>2, <4>1
    <3> QED
      BY <1>9, <3>1, <3>2 DEF Plan
  <2>2. UNCHANGED <<setting, ttl, entries, totalBytes>>
    BY <1>9 DEF Plan, cacheVars
  <2> QED
    BY <1>1, <1>2, <1>4, <2>1, <2>2 DEF CacheInv
<1>10. ASSUME NEW r \in Requests, LookUp(r) PROVE CacheInv'
  <2>1. CacheKept'
    BY <1>1, <1>10, LookUpKeeps
  <2>2. request[r] \in RequestStates /\ request[r].lifetime \in Lifetimes
    BY <1>1, <1>10, CarriedByRequest DEF LookUp
  <2>3. Asks(r) => [pc |-> "fetching", key |-> request[r].key] \in RequestStates
    <3>1. Asks(r) => request[r].key \in CacheKeys
      BY <2>2, CarriedByRequest DEF Asks, Fit
    <3> QED
      BY <3>1 DEF RequestStates
  <2>4. request' \in [Requests -> RequestStates]
    <3> DEFINE q == IF Looked(r).hit THEN Idle
                    ELSE IF Asks(r) THEN [pc |-> "fetching", key |-> request[r].key]
                    ELSE [pc |-> "fetching"]
    <3>1. q \in RequestStates
      BY <1>3, <2>3
    <3>2. Becomes(r, q)
      BY <1>10 DEF LookUp
    <3> QED
      BY <1>2, <3>1, <3>2
  <2> QED
    BY <1>1, <1>10, <2>1, <2>2, <2>4 DEF LookUp, CacheInv
<1>11. ASSUME NEW r \in Requests, Dispatched(r) PROVE CacheInv'
  <2>1. request[r] \in RequestStates
    BY <1>1
  <2>2. ASSUME Fit(r), NEW body \in Bodies
        PROVE  [pc |-> "both", key |-> request[r].key, body |-> body, held |-> 0,
                abandoned |-> FALSE] \in RequestStates
    <3>1. 0 \in 0..MaxEntry /\ request[r].key \in CacheKeys
      BY <2>1, <2>2, CarriedByRequest, SizesAssumption DEF Fit
    <3> QED
      BY <1>5, <3>1 DEF Collectors
  <2>3. request' \in [Requests -> RequestStates]
    BY <1>2, <1>3, <1>11, <2>2 DEF Dispatched
  <2> QED
    BY <1>1, <1>4, <1>11, <2>3 DEF Dispatched, CacheInv, cacheVars
<1>12. ASSUME NEW r \in Requests, UpstreamFails(r) PROVE CacheInv'
  <2>1. request' \in [Requests -> RequestStates]
    BY <1>2, <1>3, <1>12 DEF UpstreamFails
  <2> QED
    BY <1>1, <1>4, <1>12, <2>1 DEF UpstreamFails, CacheInv, cacheVars
<1>13. ASSUME NEW r \in Requests, ClientEnds(r) PROVE CacheInv'
  <2>1. request' \in [Requests -> RequestStates]
    BY <1>2, <1>3, <1>6, <1>13 DEF ClientEnds
  <2> QED
    BY <1>1, <1>4, <1>13, <2>1 DEF ClientEnds, CacheInv, cacheVars
<1>14. ASSUME NEW r \in Requests, Abandon(r) \/ CollectorReturns(r) PROVE CacheInv'
  <2>1. request' \in [Requests -> RequestStates]
    BY <1>2, <1>3, <1>6, <1>14 DEF Abandon, CollectorReturns, Collecting
  <2> QED
    BY <1>1, <1>4, <1>14, <2>1 DEF Abandon, CollectorReturns, CacheInv, cacheVars
<1>15. ASSUME NEW r \in Requests, UpstreamEnds(r) PROVE CacheInv'
  <2>1. CacheKept'
    BY <1>1, <1>15, UpstreamEndsKeeps
  <2>2. request' \in [Requests -> RequestStates]
    BY <1>2, <1>3, <1>15 DEF UpstreamEnds
  <2> QED
    BY <1>1, <1>15, <2>1, <2>2 DEF UpstreamEnds, CacheInv
<1>17. ASSUME NEW r \in Requests, Sends(r) PROVE CacheInv'
  <2> DEFINE n == request[r].held + 1
             q == IF n > MaxEntry THEN Abandoned(request[r])
                  ELSE [request[r] EXCEPT !.held = n]
  <2>1. Collects(r) /\ request[r] \in RequestStates
    BY <1>1, <1>17 DEF Sends, Collecting
  <2>2. n > MaxEntry \/ n \in 0..MaxEntry
    <3>1. request[r].held \in 0..MaxEntry /\ MaxEntry \in Nat
      BY <2>1, CarriedByRequest, SizesAssumption DEF Collects
    <3> QED
      BY <3>1
  <2>3. Becomes(r, q)
    BY <1>17 DEF Sends
  <2> HIDE DEF n
  <2>4. q \in RequestStates
    BY <1>6, <2>1, <2>2
  <2>5. request' \in [Requests -> RequestStates]
    BY <1>2, <2>3, <2>4
  <2> QED
    BY <1>1, <1>4, <1>17, <2>5 DEF Sends, CacheInv, cacheVars
<1>16. CASE UNCHANGED requestVars
  BY <1>1, <1>4, <1>16 DEF requestVars, CacheInv
<1> QED
  BY <1>7, <1>8, <1>9, <1>10, <1>11, <1>12, <1>13, <1>14, <1>15, <1>16, <1>17
  DEF CacheNext, Stream

LEMMA CacheAlways == CacheSpec => []CacheInv
<1>1. CacheInv /\ [CacheNext]_requestVars => CacheInv'
  BY CacheInvariant
<1> QED
  BY <1>1, CacheInitial, PTL DEF CacheSpec

LEMMA KeptEntries ==
    ASSUME NEW es \in GoodEntries
    PROVE  es \in Seq(Entry) /\ \A i \in DOMAIN es : es[i] \in Wholes
<1>1. es \in Seq(Wholes) /\ DOMAIN es = 1..Len(es) /\ \A i \in 1..Len(es) : es[i] \in Wholes
  BY LenProperties, ElementOfSeq DEF GoodEntries
<1>2. Wholes \subseteq Entry
  BY DEF Wholes
<1> QED
  BY <1>1, <1>2, SeqMonotonic

\* The entries of the cache, one for a key, and the states of the requests.
THEOREM CacheTypeCorrect == CacheSpec => []CacheTypeOK
<1>1. CacheInv => CacheTypeOK
  <2> SUFFICES ASSUME CacheInv PROVE CacheTypeOK
    OBVIOUS
  <2>1. entries \in GoodEntries /\ totalBytes = Bytes(entries)
    BY DEF CacheInv, CacheKept
  <2>2. totalBytes \in Nat
    BY <2>1, BytesDef DEF GoodEntries
  <2> QED
    BY <2>1, <2>2, KeptEntries DEF CacheInv, CacheTypeOK, GoodEntries, KeyedOnce
<1> QED
  BY <1>1, CacheAlways, PTL

\* The byte count of proxy/response-cache.ts is the sum of the bodies it keeps,
\* and within the bound, for any sizes and any number of requests.
THEOREM BytesAreCounted == CacheSpec => []BytesCounted
<1>1. CacheInv => BytesCounted
  BY DEF CacheInv, CacheKept, BytesCounted
<1> QED
  BY <1>1, CacheAlways, PTL

\* No part of a body, and none without success: true, is ever kept, wherever the
\* read loop of collectForCache() stopped.
THEOREM CachedIsComplete == CacheSpec => []CachedIsWhole
<1>1. CacheInv => CachedIsWhole
  <2> SUFFICES ASSUME CacheInv, NEW i \in DOMAIN entries
               PROVE  /\ entries[i].size = entries[i].body.length
                      /\ entries[i].body.success
                      /\ entries[i].size <= MaxEntry
    BY DEF CachedIsWhole
  <2>1. entries[i] \in Wholes
    BY KeptEntries DEF CacheInv, CacheKept
  <2>2. entries[i].size = entries[i].body.length /\ entries[i].body.success
    BY <2>1 DEF Wholes
  <2>3. entries[i].size <= MaxEntry
    <3>1. entries[i].size \in 1..MaxEntry /\ MaxEntry \in Nat
      BY <2>1, FieldsOfWhole, SizesAssumption
    <3> QED
      BY <3>1
  <2> QED
    BY <2>2, <2>3, Zenon
<1> QED
  BY <1>1, CacheAlways, PTL
=============================================================================

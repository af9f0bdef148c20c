------------------------- MODULE KeyValidationProofs -------------------------
(***************************************************************************)
(* Proofs about KeyValidation, for any instances, requests, time to live   *)
(* and number of changes.                                                  *)
(*                                                                         *)
(* That no answer is older than the change it follows rests on where the   *)
(* answer comes from: the cache, a read in flight, or the row.  Each of    *)
(* them is at least as new as what its instance has answered (Current),    *)
(* and a read is at least as new as everybody who waits for it needs       *)
(* (ReadsServe).  From this and that nothing kept is newer than the row    *)
(* (Past) follows that validation implements FreshReads.                   *)
(***************************************************************************)
EXTENDS KeyValidation, TLAPS

Waiting == [pc : {"waiting"}, at : Instances, read : Requests, value : Rows \cup {None},
            floor : Versions]
Done == [pc : {"done"}, at : Instances, value : Rows, floor : Versions]

\* Nothing is newer than the row.
Bounded ==
    /\ \A i \in Instances : acked[i] <= row.version
    /\ \A i \in Instances : \A v \in pending[i] : v <= row.version
    /\ \A r \in Requests : request[r].pc = "waiting" => request[r].floor <= row.version

\* What an instance may answer with is as new as the changes it has answered.
Current ==
    /\ \A i \in Instances : cache[i] # None => cache[i].value.version >= acked[i]
    /\ \A i \in Instances :
          inflight[i] # None =>
              \/ request[inflight[i]].value = None
              \/ request[inflight[i]].value.version >= acked[i]

\* Whoever waits, waits for a read at its own instance that is new enough for it.
ReadsServe ==
    \A r \in Requests :
        request[r].pc = "waiting" =>
            /\ Reads(request[r].read, request[r].at)
            /\ \/ request[request[r].read].value = None
               \/ request[request[r].read].value.version >= request[r].floor

KeyInv == TypeOK /\ Bounded /\ Current /\ ReadsServe /\ ChangeTakesEffect

-----------------------------------------------------------------------------

\* A request is of one of three shapes, told apart by its pc.
LEMMA Shapes ==
    ASSUME NEW q \in RequestStates
    PROVE  /\ q.pc \in {"idle", "waiting", "done"}
           /\ q.pc = "waiting" => q \in Waiting
           /\ q.pc = "done" => q \in Done
           /\ Idle \in RequestStates /\ Waiting \subseteq RequestStates
           /\ Done \subseteq RequestStates
BY DEF RequestStates, Waiting, Done, Idle

\* What a row, a version and a cache entry are made of.
LEMMA RowFields ==
    ASSUME NEW w \in Rows
    PROVE  w.version \in Nat /\ w.version <= MaxChanges /\ w.revoked \in BOOLEAN
BY TTLAssumption DEF Rows, Versions

\* The first state satisfies the invariant.
LEMMA InitInv == Init => KeyInv
<1> SUFFICES ASSUME Init PROVE KeyInv
    OBVIOUS
<1>1. 0 \in Versions
    BY TTLAssumption DEF Versions
<1>2. Idle \in RequestStates /\ Idle.pc = "idle"
    BY DEF Idle, RequestStates
<1>3. TypeOK
    BY <1>1, <1>2 DEF Init, TypeOK, Rows
<1>4. Bounded /\ Current /\ ReadsServe /\ ChangeTakesEffect
    BY <1>2 DEF Init, Bounded, Current, ReadsServe, ChangeTakesEffect
<1> QED BY <1>3, <1>4 DEF KeyInv

-----------------------------------------------------------------------------
\* A request begins.

\* An answer from the cache is as new as the changes its instance has answered.
LEMMA AnswerFromCacheInv ==
    ASSUME KeyInv, NEW r \in Requests, NEW i \in Instances,
           request[r].pc = "idle", AnswerFromCache(r, i), UNCHANGED <<row, pending, acked>>
    PROVE  KeyInv'
<1> DEFINE answer == [pc |-> "done", at |-> i, value |-> cache[i].value, floor |-> acked[i]]
<1>1. cache[i] # None /\ cache[i] \in [value : Rows, age : 0..TTL]
    BY DEF AnswerFromCache, Cached, KeyInv, TypeOK
<1>2. answer \in RequestStates /\ answer.pc = "done"
    BY <1>1 DEF KeyInv, TypeOK, RequestStates
<1>3. answer.value.version >= answer.floor
    BY <1>1 DEF KeyInv, Current
<1>4. request' = [request EXCEPT ![r] = answer] /\ UNCHANGED <<row, cache, inflight, pending, acked>>
    BY DEF AnswerFromCache
<1> HIDE DEF answer
<1>5. TypeOK'
    BY <1>2, <1>4 DEF KeyInv, TypeOK, Reads
<1>6. Bounded' /\ Current'
    BY <1>2, <1>4 DEF KeyInv, TypeOK, Reads, Bounded, Current
<1>7. ReadsServe'
    BY <1>2, <1>4, Shapes DEF KeyInv, TypeOK, Reads, ReadsServe, Waiting
<1>8. ChangeTakesEffect'
    BY <1>2, <1>3, <1>4 DEF KeyInv, TypeOK, ChangeTakesEffect
<1> QED BY <1>5, <1>6, <1>7, <1>8 DEF KeyInv

\* A request joins a read that is new enough for it, or begins one.
LEMMA JoinOrReadInv ==
    ASSUME KeyInv, NEW r \in Requests, NEW i \in Instances,
           request[r].pc = "idle", JoinOrRead(r, i), UNCHANGED <<row, pending, acked>>
    PROVE  KeyInv'
<1> DEFINE reader == IF inflight[i] = None THEN r ELSE inflight[i]
           wait == [pc |-> "waiting", at |-> i, read |-> reader, value |-> None,
                    floor |-> acked[i]]
<1>1. reader \in Requests /\ reader # None
    BY NoneAssumption DEF KeyInv, TypeOK
<1>2. \/ reader = r
      \/ reader # r /\ reader = inflight[i] /\ Reads(reader, i)
    BY DEF KeyInv, TypeOK
<1>3. wait \in RequestStates
    BY <1>1 DEF KeyInv, TypeOK, RequestStates
<1>4. /\ wait.pc = "waiting" /\ wait.at = i /\ wait.read = reader /\ wait.value = None
      /\ wait.floor = acked[i]
    OBVIOUS
<1>5. /\ request' = [request EXCEPT ![r] = wait]
      /\ cache' = [cache EXCEPT ![i] = None]
      /\ inflight' = [inflight EXCEPT ![i] = reader]
    BY DEF JoinOrRead
<1>6. inflight[i] = None => reader = r
    OBVIOUS
<1> HIDE DEF wait, reader
<1>7. \A q \in Requests : request[q].pc = "waiting" => request[q].read # r
    BY DEF KeyInv, ReadsServe, Reads
<1>8. TypeOK'
    BY <1>1, <1>2, <1>3, <1>4, <1>5 DEF KeyInv, TypeOK, Reads
<1>9. Bounded'
    BY <1>4, <1>5 DEF KeyInv, TypeOK, Bounded
<1>10. Current'
    BY <1>1, <1>2, <1>4, <1>5, <1>6 DEF KeyInv, TypeOK, Reads, Current
<1>11. ReadsServe'
  <2> SUFFICES ASSUME NEW q \in Requests, request'[q].pc = "waiting"
               PROVE  /\ Reads(request[q].read, request[q].at)'
                      /\ \/ request'[request'[q].read].value = None
                         \/ request'[request'[q].read].value.version >= request'[q].floor
      BY DEF ReadsServe
  <2>1. CASE q = r
      BY <2>1, <1>1, <1>2, <1>4, <1>5, <1>6 DEF KeyInv, TypeOK, Reads, Current
  <2>2. CASE q # r
    <3>1. request'[q] = request[q] /\ request[q] \in Waiting
        BY <2>2, <1>5, Shapes DEF KeyInv, TypeOK
    <3>2. request[q].read \in Requests /\ request[q].read # r
        BY <3>1, <1>7 DEF Waiting
    <3>3. request'[request[q].read] = request[request[q].read]
        BY <3>2, <1>5 DEF KeyInv, TypeOK
    <3> QED BY <3>1, <3>3 DEF KeyInv, ReadsServe, Reads
  <2> QED BY <2>1, <2>2
<1>12. ChangeTakesEffect'
    BY <1>4, <1>5 DEF KeyInv, TypeOK, ChangeTakesEffect
<1> QED BY <1>8, <1>9, <1>10, <1>11, <1>12 DEF KeyInv

-----------------------------------------------------------------------------
\* A query ends.

\* A query finds the row, and nobody needs anything newer.
LEMMA FindInv ==
    ASSUME KeyInv, NEW r \in Requests, Find(r)
    PROVE  KeyInv'
<1> DEFINE found == [request[r] EXCEPT !.value = row]
<1>1. request[r] \in Waiting /\ row \in Rows
    BY Shapes DEF Find, KeyInv, TypeOK
<1>2. found \in Waiting /\ found \in RequestStates
    BY <1>1, Shapes DEF Waiting, RequestStates
<1>3. /\ found.pc = "waiting" /\ found.at = request[r].at /\ found.read = r
      /\ found.value = row /\ found.floor = request[r].floor
    BY <1>1 DEF Find, Waiting
<1>4. request' = [request EXCEPT ![r] = found] /\ UNCHANGED <<row, cache, inflight, pending, acked>>
    BY DEF Find
<1>5. request[r].pc = "waiting" /\ request[r].read = r
    BY DEF Find
<1> HIDE DEF found
<1>6. TypeOK'
    BY <1>2, <1>3, <1>4, <1>5 DEF KeyInv, TypeOK, Reads
<1>7. Bounded'
    BY <1>3, <1>4, <1>5 DEF KeyInv, TypeOK, Bounded
<1>8. Current'
    BY <1>3, <1>4, RowFields DEF KeyInv, TypeOK, Current, Bounded, Versions
<1>9. ReadsServe'
  <2> SUFFICES ASSUME NEW q \in Requests, request'[q].pc = "waiting"
               PROVE  /\ Reads(request[q].read, request[q].at)'
                      /\ \/ request'[request'[q].read].value = None
                         \/ request'[request'[q].read].value.version >= request'[q].floor
      BY DEF ReadsServe
  <2>1. /\ request[q].pc = "waiting" /\ request'[q].read = request[q].read
        /\ request'[q].at = request[q].at /\ request'[q].floor = request[q].floor
      BY <1>3, <1>4, <1>5 DEF KeyInv, TypeOK
  <2>2. request[q].read \in Requests /\ request[q].floor \in Nat
      BY <2>1, Shapes, TTLAssumption DEF KeyInv, TypeOK, Waiting, Versions
  <2>3. CASE request[q].read = r
      BY <2>1, <2>2, <2>3, <1>3, <1>4, <1>1, RowFields
         DEF KeyInv, TypeOK, Reads, ReadsServe, Bounded
  <2>4. CASE request[q].read # r
    <3>1. request'[request[q].read] = request[request[q].read]
        BY <2>2, <2>4, <1>4 DEF KeyInv, TypeOK
    <3> QED BY <2>1, <3>1 DEF KeyInv, ReadsServe, Reads
  <2> QED BY <2>3, <2>4
<1>10. ChangeTakesEffect'
    BY <1>3, <1>4 DEF KeyInv, TypeOK, ChangeTakesEffect
<1> QED BY <1>6, <1>7, <1>8, <1>9, <1>10 DEF KeyInv

\* What a read leaves behind for those who do not wait for it.
LEMMA OthersWait ==
    ASSUME KeyInv, NEW r \in Requests,
           request[r].pc = "waiting", request[r].read = r,
           NEW q \in Requests, q \notin Readers(r), request[q].pc = "waiting"
    PROVE  /\ request[q].read \in Requests
           /\ request[q].read \notin Readers(r)
<1>1. request[q].read \in Requests
    BY Shapes DEF KeyInv, TypeOK, Waiting
<1>2. Reads(request[q].read, request[q].at)
    BY DEF KeyInv, ReadsServe
<1> QED BY <1>1, <1>2 DEF Readers, Reads

\* A query leaves flight only if it is the one in flight, and nobody else does.
LEMMA LeavesFlight ==
    ASSUME KeyInv, NEW r \in Requests,
           request[r].pc = "waiting", request[r].read = r,
           inflight' = [inflight EXCEPT ![request[r].at] = IF @ = r THEN None ELSE @]
    PROVE  /\ inflight' \in [Instances -> Requests \cup {None}]
           /\ \A i \in Instances :
                 inflight'[i] # None =>
                     /\ inflight'[i] = inflight[i] /\ inflight[i] \in Requests
                     /\ inflight[i] \notin Readers(r)
<1>1. request[r].at \in Instances
    BY Shapes DEF KeyInv, TypeOK, Waiting
<1>2. inflight' \in [Instances -> Requests \cup {None}]
    BY <1>1 DEF KeyInv, TypeOK
<1>3. ASSUME NEW i \in Instances, inflight'[i] # None
      PROVE  inflight'[i] = inflight[i] /\ inflight[i] # r
    BY <1>1, <1>3 DEF KeyInv, TypeOK, Reads
<1>4. ASSUME NEW i \in Instances, inflight'[i] # None
      PROVE  inflight[i] \in Requests /\ inflight[i] \notin Readers(r)
    BY <1>3, <1>4 DEF KeyInv, TypeOK, Reads, Readers
<1> QED BY <1>2, <1>3, <1>4

\* All who wait for a read get its answer; it is cached only if it is still the one in flight.
LEMMA FoundInv ==
    ASSUME KeyInv, NEW r \in Requests, Found(r)
    PROVE  KeyInv'
<1> DEFINE i0 == request[r].at
           answer(q) == [pc |-> "done", at |-> request[q].at, value |-> request[r].value,
                         floor |-> request[q].floor]
<1>1. /\ request[r].pc = "waiting" /\ request[r].read = r /\ request[r].value # None
      /\ UNCHANGED <<row, pending, acked>>
    BY DEF Found
<1>2. request[r] \in Waiting /\ i0 \in Instances /\ request[r].value \in Rows
    BY <1>1, Shapes DEF KeyInv, TypeOK, Waiting
<1>3. inflight' = [inflight EXCEPT ![request[r].at] = IF @ = r THEN None ELSE @]
    BY DEF Found, RecordValidation
<1>4. request' = [q \in Requests |-> IF q \in Readers(r) THEN answer(q) ELSE request[q]]
    BY DEF Found
<1>5. ASSUME NEW q \in Readers(r)
      PROVE  /\ q \in Requests /\ answer(q) \in RequestStates /\ answer(q).pc = "done"
             /\ answer(q).value.version >= answer(q).floor
  <2>1. q \in Requests /\ request[q].pc = "waiting" /\ request[q].read = r
      BY DEF Readers
  <2>2. request[q] \in Waiting
      BY <2>1, Shapes DEF KeyInv, TypeOK
  <2>3. answer(q) \in Done
      BY <2>2, <1>2 DEF Waiting, Done
  <2>4. request[r].value.version >= request[q].floor
      BY <2>1, <1>1 DEF KeyInv, ReadsServe
  <2>5. /\ answer(q).pc = "done" /\ answer(q).floor = request[q].floor
        /\ answer(q).value = request[r].value
      OBVIOUS
  <2>6. answer(q) \in RequestStates
      BY <2>3 DEF RequestStates, Done
  <2> HIDE DEF answer
  <2> QED BY <2>1, <2>4, <2>5, <2>6
<1> HIDE DEF answer
<1>6. \/ cache' = cache
      \/ /\ inflight[i0] = r
         /\ cache' = [cache EXCEPT ![i0] = [value |-> request[r].value, age |-> 0]]
    BY DEF Found, RecordValidation
<1>7. TypeOK'
  <2>1. request' \in [Requests -> RequestStates]
      BY <1>4, <1>5 DEF KeyInv, TypeOK
  <2>2. cache' \in [Instances -> [value : Rows, age : 0..TTL] \cup {None}]
      BY <1>2, <1>6, TTLAssumption DEF KeyInv, TypeOK
  <2>3. ASSUME NEW i \in Instances, inflight'[i] # None
        PROVE  Reads(inflight[i], i)'
    <3>1. inflight'[i] = inflight[i] /\ inflight[i] \in Requests /\ inflight[i] \notin Readers(r)
        BY <2>3, <1>1, <1>3, LeavesFlight
    <3>2. Reads(inflight[i], i)
        BY <2>3, <3>1 DEF KeyInv, TypeOK
    <3>3. request'[inflight'[i]] = request[inflight[i]]
        BY <3>1, <1>4
    <3> QED BY <3>1, <3>2, <3>3 DEF Reads
  <2> QED BY <2>1, <2>2, <2>3, <1>1, <1>3, LeavesFlight DEF KeyInv, TypeOK
<1>8. Bounded'
    BY <1>1, <1>4, <1>5 DEF KeyInv, TypeOK, Bounded
<1>9. Current'
  <2>1. \A i \in Instances : cache'[i] # None => cache'[i].value.version >= acked'[i]
    <3>1. inflight[i0] = r => request[r].value.version >= acked[i0]
        BY <1>1, <1>2, NoneAssumption DEF KeyInv, Current
    <3> QED BY <3>1, <1>1, <1>2, <1>6 DEF KeyInv, TypeOK, Current
  <2>2. ASSUME NEW i \in Instances, inflight'[i] # None
        PROVE  \/ request'[inflight'[i]].value = None
               \/ request'[inflight'[i]].value.version >= acked'[i]
      BY <2>2, <1>1, <1>3, <1>4, LeavesFlight DEF KeyInv, Current
  <2> QED BY <2>1, <2>2 DEF Current
<1>10. ReadsServe'
  <2> SUFFICES ASSUME NEW q \in Requests, request'[q].pc = "waiting"
               PROVE  /\ Reads(request[q].read, request[q].at)'
                      /\ \/ request'[request'[q].read].value = None
                         \/ request'[request'[q].read].value.version >= request'[q].floor
      BY DEF ReadsServe
  <2>1. q \notin Readers(r) /\ request'[q] = request[q]
      BY <1>4, <1>5
  <2>2. request[q].read \in Requests /\ request'[request[q].read] = request[request[q].read]
      BY <2>1, <1>1, <1>4, OthersWait
  <2> QED BY <2>1, <2>2 DEF KeyInv, ReadsServe, Reads
<1>11. ChangeTakesEffect'
    BY <1>4, <1>5 DEF KeyInv, ChangeTakesEffect
<1> QED BY <1>7, <1>8, <1>9, <1>10, <1>11 DEF KeyInv

\* A failed read leaves nobody waiting for it.
LEMMA FindFailsInv ==
    ASSUME KeyInv, NEW r \in Requests, FindFails(r)
    PROVE  KeyInv'
<1>1. /\ request[r].pc = "waiting" /\ request[r].read = r
      /\ UNCHANGED <<row, cache, pending, acked>>
    BY DEF FindFails
<1>2. inflight' = [inflight EXCEPT ![request[r].at] = IF @ = r THEN None ELSE @]
    BY DEF FindFails
<1>3. request' = [q \in Requests |-> IF q \in Readers(r) THEN Idle ELSE request[q]]
    BY DEF FindFails
<1>4. Idle \in RequestStates /\ Idle.pc = "idle"
    BY DEF Idle, RequestStates
<1>5. TypeOK'
  <2>1. request' \in [Requests -> RequestStates]
      BY <1>3, <1>4 DEF KeyInv, TypeOK
  <2>2. ASSUME NEW i \in Instances, inflight'[i] # None
        PROVE  Reads(inflight[i], i)'
    <3>1. inflight'[i] = inflight[i] /\ inflight[i] \in Requests /\ inflight[i] \notin Readers(r)
        BY <2>2, <1>1, <1>2, LeavesFlight
    <3>2. Reads(inflight[i], i)
        BY <2>2, <3>1 DEF KeyInv, TypeOK
    <3>3. request'[inflight'[i]] = request[inflight[i]]
        BY <3>1, <1>3
    <3> QED BY <3>1, <3>2, <3>3 DEF Reads
  <2> QED BY <2>1, <2>2, <1>1, <1>2, LeavesFlight DEF KeyInv, TypeOK
<1>6. Bounded'
    BY <1>1, <1>3, <1>4 DEF KeyInv, TypeOK, Bounded
<1>7. Current'
  <2>1. ASSUME NEW i \in Instances, inflight'[i] # None
        PROVE  \/ request'[inflight'[i]].value = None
               \/ request'[inflight'[i]].value.version >= acked'[i]
      BY <2>1, <1>1, <1>2, <1>3, LeavesFlight DEF KeyInv, Current
  <2> QED BY <2>1, <1>1 DEF KeyInv, Current
<1>8. ReadsServe'
  <2> SUFFICES ASSUME NEW q \in Requests, request'[q].pc = "waiting"
               PROVE  /\ Reads(request[q].read, request[q].at)'
                      /\ \/ request'[request'[q].read].value = None
                         \/ request'[request'[q].read].value.version >= request'[q].floor
      BY DEF ReadsServe
  <2>1. q \notin Readers(r) /\ request'[q] = request[q]
      BY <1>3, <1>4
  <2>2. request[q].read \in Requests /\ request'[request[q].read] = request[request[q].read]
      BY <2>1, <1>1, <1>3, OthersWait
  <2> QED BY <2>1, <2>2 DEF KeyInv, ReadsServe, Reads
<1>9. ChangeTakesEffect'
    BY <1>3, <1>4 DEF KeyInv, ChangeTakesEffect
<1> QED BY <1>5, <1>6, <1>7, <1>8, <1>9 DEF KeyInv

\* A request that goes on disturbs no other.
LEMMA LeaveInv ==
    ASSUME KeyInv, NEW r \in Requests, Leave(r)
    PROVE  KeyInv'
<1>1. /\ request[r].pc = "done" /\ request' = [request EXCEPT ![r] = Idle]
      /\ UNCHANGED <<row, cache, inflight, pending, acked>>
    BY DEF Leave
<1>2. Idle \in RequestStates /\ Idle.pc = "idle"
    BY DEF Idle, RequestStates
<1>3. TypeOK'
    BY <1>1, <1>2 DEF KeyInv, TypeOK, Reads
<1>4. Bounded' /\ Current'
    BY <1>1, <1>2 DEF KeyInv, TypeOK, Reads, Bounded, Current
<1>5. ReadsServe'
    BY <1>1, <1>2, Shapes DEF KeyInv, TypeOK, Reads, ReadsServe, Waiting
<1>6. ChangeTakesEffect'
    BY <1>1, <1>2 DEF KeyInv, TypeOK, ChangeTakesEffect
<1> QED BY <1>3, <1>4, <1>5, <1>6 DEF KeyInv

-----------------------------------------------------------------------------
\* The row changes.

\* A changed row is newer, and leaves everything else current.
LEMMA RowMovesOn ==
    ASSUME KeyInv, row.version < MaxChanges, NEW revoked \in BOOLEAN, row' = Changed(revoked),
           UNCHANGED <<cache, inflight, request, acked>>,
           pending' \in [Instances -> SUBSET Versions],
           \A i \in Instances : \A v \in pending'[i] : v \in pending[i] \/ v = row'.version
    PROVE  KeyInv'
<1>1. row \in Rows /\ row.version \in Nat /\ row.revoked \in BOOLEAN
    BY RowFields DEF KeyInv, TypeOK
<1>2. row' \in Rows /\ row'.version = row.version + 1
    BY <1>1, TTLAssumption DEF Changed, Rows, Versions
<1>3. TypeOK'
    BY <1>2 DEF KeyInv, TypeOK, Reads
<1>4. Bounded'
  <2>1. ASSUME NEW i \in Instances PROVE acked'[i] <= row'.version
      BY <1>1, <1>2, TTLAssumption DEF KeyInv, TypeOK, Bounded, Versions
  <2>2. ASSUME NEW i \in Instances, NEW v \in pending'[i] PROVE v <= row'.version
    <3>1. v \in Nat
        BY <2>2, TTLAssumption DEF Versions
    <3> QED BY <2>2, <3>1, <1>1, <1>2 DEF KeyInv, Bounded
  <2>3. ASSUME NEW r \in Requests, request'[r].pc = "waiting"
        PROVE  request'[r].floor <= row'.version
    <3>1. request[r].floor \in Nat
        BY <2>3, Shapes, TTLAssumption DEF KeyInv, TypeOK, Waiting, Versions
    <3> QED BY <2>3, <3>1, <1>1, <1>2 DEF KeyInv, Bounded
  <2> QED BY <2>1, <2>2, <2>3 DEF Bounded
<1>5. Current' /\ ReadsServe' /\ ChangeTakesEffect'
    BY DEF KeyInv, Current, ReadsServe, Reads, ChangeTakesEffect
<1> QED BY <1>3, <1>4, <1>5 DEF KeyInv

\* A change at PostgreSQL is newer than everything an instance has answered.
LEMMA ChangeInv ==
    ASSUME KeyInv, NEW i \in Instances, Change(i)
    PROVE  KeyInv'
<1>1. PICK revoked \in BOOLEAN : row' = Changed(revoked)
    BY DEF Change
<1>2. row.version < MaxChanges /\ UNCHANGED <<cache, inflight, request, acked>>
      /\ pending' = [pending EXCEPT ![i] = @ \cup {row'.version}]
    BY DEF Change
<1>3. row'.version \in Versions
    BY <1>1, <1>2, RowFields, TTLAssumption DEF KeyInv, TypeOK, Changed, Versions
<1>4. pending' \in [Instances -> SUBSET Versions]
    BY <1>2, <1>3 DEF KeyInv, TypeOK
<1>5. \A j \in Instances : \A v \in pending'[j] : v \in pending[j] \/ v = row'.version
    BY <1>2 DEF KeyInv, TypeOK
<1> QED BY <1>1, <1>2, <1>4, <1>5, RowMovesOn

\* So is a revocation by the maintenance job.
LEMMA RevokeInactiveKeysInv ==
    ASSUME KeyInv, RevokeInactiveKeys
    PROVE  KeyInv'
<1>1. /\ row.version < MaxChanges /\ row' = Changed(TRUE)
      /\ UNCHANGED <<cache, inflight, request, pending, acked>>
    BY DEF RevokeInactiveKeys
<1>2. pending' \in [Instances -> SUBSET Versions]
    BY <1>1 DEF KeyInv, TypeOK
<1> QED BY <1>1, <1>2, RowMovesOn

\* An answered change forgets the cached entry and the read in flight, which may be older.
LEMMA ChangeAnsweredInv ==
    ASSUME KeyInv, NEW i \in Instances, ChangeAnswered(i)
    PROVE  KeyInv'
<1>1. PICK v \in pending[i] :
        /\ pending' = [pending EXCEPT ![i] = @ \ {v}]
        /\ acked' = [acked EXCEPT ![i] = IF @ > v THEN @ ELSE v]
        /\ cache' = [cache EXCEPT ![i] = None]
        /\ inflight' = [inflight EXCEPT ![i] = None]
        /\ UNCHANGED <<row, request>>
    BY DEF ChangeAnswered
<1>2. v \in Versions /\ v <= row.version
    BY <1>1 DEF KeyInv, TypeOK, Bounded
<1>3. TypeOK'
    BY <1>1, <1>2 DEF KeyInv, TypeOK, Reads
<1>4. Bounded'
    BY <1>1, <1>2 DEF KeyInv, TypeOK, Bounded
<1>5. Current'
    BY <1>1 DEF KeyInv, TypeOK, Current
<1>6. ReadsServe' /\ ChangeTakesEffect'
    BY <1>1 DEF KeyInv, ReadsServe, Reads, ChangeTakesEffect
<1> QED BY <1>3, <1>4, <1>5, <1>6 DEF KeyInv

\* A change whose answer is lost obliges nobody.
LEMMA ChangeLostInv ==
    ASSUME KeyInv, NEW i \in Instances, ChangeLost(i)
    PROVE  KeyInv'
<1>1. PICK v \in pending[i] : pending' = [pending EXCEPT ![i] = @ \ {v}]
    BY DEF ChangeLost
<1>2. UNCHANGED <<row, cache, inflight, request, acked>>
    BY DEF ChangeLost
<1>3. TypeOK'
    BY <1>1, <1>2 DEF KeyInv, TypeOK, Reads
<1>4. Bounded'
    BY <1>1, <1>2 DEF KeyInv, TypeOK, Bounded
<1>5. Current' /\ ReadsServe' /\ ChangeTakesEffect'
    BY <1>2 DEF KeyInv, Current, ReadsServe, Reads, ChangeTakesEffect
<1> QED BY <1>3, <1>4, <1>5 DEF KeyInv

-----------------------------------------------------------------------------
\* Time passes, and the entry is evicted.

\* An entry that ages or goes keeps its value.
LEMMA EntryInv ==
    ASSUME KeyInv, NEW i \in Instances, Tick(i) \/ Evict(i)
    PROVE  KeyInv'
<1>1. UNCHANGED <<row, inflight, request, pending, acked>>
    BY DEF Tick, Evict
<1>2. /\ cache' \in [Instances -> [value : Rows, age : 0..TTL] \cup {None}]
      /\ \A j \in Instances : cache'[j] # None => cache'[j].value.version >= acked[j]
  <2>1. CASE Tick(i)
    <3> DEFINE older == [cache[i] EXCEPT !.age = @ + 1]
    <3>1. cache[i] # None /\ cache[i] \in [value : Rows, age : 0..TTL] /\ cache[i].age < TTL
        BY <2>1 DEF Tick, Cached, KeyInv, TypeOK
    <3>2. older \in [value : Rows, age : 0..TTL] /\ older.value = cache[i].value
        BY <3>1, TTLAssumption
    <3>3. cache' = [cache EXCEPT ![i] = older]
        BY <2>1 DEF Tick
    <3> HIDE DEF older
    <3> QED BY <3>1, <3>2, <3>3 DEF KeyInv, TypeOK, Current
  <2>2. CASE Evict(i)
      BY <2>2 DEF Evict, KeyInv, TypeOK, Current
  <2> QED BY <2>1, <2>2
<1>3. TypeOK'
    BY <1>1, <1>2 DEF KeyInv, TypeOK, Reads
<1>4. Bounded' /\ Current' /\ ReadsServe' /\ ChangeTakesEffect'
    BY <1>1, <1>2 DEF KeyInv, Bounded, Current, ReadsServe, Reads, ChangeTakesEffect
<1> QED BY <1>3, <1>4 DEF KeyInv

-----------------------------------------------------------------------------
\* Every step keeps the invariant.
LEMMA NextInv == KeyInv /\ [Next]_vars => KeyInv'
<1> SUFFICES ASSUME KeyInv, [Next]_vars PROVE KeyInv'
    OBVIOUS
<1>1. ASSUME NEW r \in Requests, NEW i \in Instances, ValidateApiKey(r, i) PROVE KeyInv'
    BY <1>1, AnswerFromCacheInv, JoinOrReadInv DEF ValidateApiKey
<1>2. ASSUME NEW r \in Requests, Find(r) \/ Found(r) \/ FindFails(r) \/ Leave(r) PROVE KeyInv'
    BY <1>2, FindInv, FoundInv, FindFailsInv, LeaveInv
<1>3. ASSUME NEW i \in Instances,
             Change(i) \/ ChangeAnswered(i) \/ ChangeLost(i) \/ Tick(i) \/ Evict(i)
      PROVE  KeyInv'
    BY <1>3, ChangeInv, ChangeAnsweredInv, ChangeLostInv, EntryInv
<1>4. CASE UNCHANGED vars
    BY <1>4 DEF vars, KeyInv, TypeOK, Bounded, Current, ReadsServe, Reads, ChangeTakesEffect
<1> QED BY <1>1, <1>2, <1>3, <1>4, RevokeInactiveKeysInv DEF Next

\* The variables keep their types, and a read in flight is one that a request makes.
THEOREM KeyTypeCorrect == Spec => []TypeOK
<1>1. KeyInv => TypeOK
    BY DEF KeyInv
<1> QED BY InitInv, NextInv, <1>1, PTL DEF Spec

\* README.md:41 of the repository: once an instance has answered a change of a key, no
\* request that begins there afterwards is answered with the key as it was before.
THEOREM NoStaleAnswer == Spec => []ChangeTakesEffect
<1>1. KeyInv => ChangeTakesEffect
    BY DEF KeyInv
<1> QED BY InitInv, NextInv, <1>1, PTL DEF Spec

-----------------------------------------------------------------------------
\* Validation keeps the promise of FreshReads.

\* Nothing that is kept is newer than the row.
Past ==
    /\ \A i \in Instances : cache[i] # None => cache[i].value.version <= row.version
    /\ \A r \in Requests :
          request[r].pc = "waiting" /\ request[r].value # None
             => request[r].value.version <= row.version

PromiseInv == KeyInv /\ Past

AbstractState == <<row.version, acked, Views>>

\* What FreshReads sees of a request.
LEMMA ViewOf ==
    ASSUME NEW q \in RequestStates
    PROVE  /\ q.pc = "idle" => Viewed(q) = Promise!Idle
           /\ q.pc = "waiting" => Viewed(q) = Promise!Open(q.floor)
           /\ q.pc = "done" => Viewed(q) = Promise!Answered(q.floor, q.value.version)
BY DEF Viewed, Promise!Idle, Promise!Open, Promise!Answered

\* The view of a request is a function of its state, before a step and after it.
LEMMA ViewAt ==
    ASSUME NEW r \in Requests
    PROVE  Views[r] = Viewed(request[r]) /\ Views'[r] = Viewed(request'[r])
BY DEF Views, Viewed

\* A request that has not begun is an idle call.
LEMMA IdleView == Viewed(Idle) = Promise!Idle
BY DEF Viewed, Idle, Promise!Idle

\* A request that changes changes its own view only.
LEMMA ViewsExcept ==
    ASSUME request \in [Requests -> RequestStates], NEW r \in Requests, NEW a,
           request' = [request EXCEPT ![r] = a]
    PROVE  Views' = [Views EXCEPT ![r] = Viewed(a)]
<1>1. \A q \in Requests : request'[q] = IF q = r THEN a ELSE request[q]
    OBVIOUS
<1>2. Views' = [q \in Requests |-> Viewed(request'[q])]
    BY DEF Views, Viewed
<1>3. Views = [q \in Requests |-> Viewed(request[q])]
    BY DEF Views
<1>4. \A q \in Requests : Viewed(request'[q]) = IF q = r THEN Viewed(a) ELSE Viewed(request[q])
    BY <1>1
<1> QED BY <1>2, <1>3, <1>4

\* An answer from the cache is one FreshReads may give at once.
LEMMA AnswerFromCachePromise ==
    ASSUME PromiseInv, NEW r \in Requests, NEW i \in Instances,
           request[r].pc = "idle", AnswerFromCache(r, i), UNCHANGED <<row, pending, acked>>
    PROVE  Past' /\ Promise!Next
<1> DEFINE answer == [pc |-> "done", at |-> i, value |-> cache[i].value, floor |-> acked[i]]
<1>1. cache[i] # None /\ cache[i] \in [value : Rows, age : 0..TTL] /\ cache[i].value \in Rows
    BY DEF AnswerFromCache, Cached, PromiseInv, KeyInv, TypeOK
<1>2. answer \in RequestStates /\ answer.pc = "done"
    BY <1>1 DEF PromiseInv, KeyInv, TypeOK, RequestStates
<1>3. request' = [request EXCEPT ![r] = answer] /\ cache' = cache
    BY DEF AnswerFromCache
<1>4. Viewed(answer) = Promise!Answered(acked[i], cache[i].value.version)
    BY <1>2, ViewOf
<1> HIDE DEF answer
<1>5. Past'
    BY <1>2, <1>3 DEF PromiseInv, KeyInv, TypeOK, Past
<1>6. Views' = [Views EXCEPT ![r] = Promise!Answered(acked[i], cache[i].value.version)]
    BY <1>3, <1>4, ViewsExcept DEF PromiseInv, KeyInv, TypeOK
<1>7. Views[r] = Promise!Idle
    BY ViewAt, ViewOf DEF PromiseInv, KeyInv, TypeOK
<1>8. cache[i].value.version \in acked[i]..row.version
  <2>1. acked[i] \in Nat /\ row.version \in Nat /\ cache[i].value.version \in Nat
      BY <1>1, RowFields DEF PromiseInv, KeyInv, TypeOK, Versions
  <2>2. cache[i].value.version >= acked[i] /\ cache[i].value.version <= row.version
      BY <1>1 DEF PromiseInv, KeyInv, Current, Past
  <2> QED BY ONLY <2>1, <2>2
<1>9. Promise!BeginAnswered(r, i)
    BY <1>6, <1>7, <1>8 DEF Promise!BeginAnswered
<1> QED BY <1>5, <1>9 DEF Promise!Next

\* A request that waits is open.
LEMMA JoinOrReadPromise ==
    ASSUME PromiseInv, NEW r \in Requests, NEW i \in Instances,
           request[r].pc = "idle", JoinOrRead(r, i), UNCHANGED <<row, pending, acked>>
    PROVE  Past' /\ Promise!Next
<1> DEFINE reader == IF inflight[i] = None THEN r ELSE inflight[i]
           wait == [pc |-> "waiting", at |-> i, read |-> reader, value |-> None,
                    floor |-> acked[i]]
<1>1. reader \in Requests
    BY DEF PromiseInv, KeyInv, TypeOK
<1>2. wait \in RequestStates /\ wait.pc = "waiting" /\ wait.value = None
    BY <1>1 DEF PromiseInv, KeyInv, TypeOK, RequestStates
<1>3. request' = [request EXCEPT ![r] = wait] /\ cache' = [cache EXCEPT ![i] = None]
    BY DEF JoinOrRead
<1>4. Viewed(wait) = Promise!Open(acked[i])
    BY <1>2, ViewOf
<1> HIDE DEF wait, reader
<1>5. Past'
    BY <1>2, <1>3 DEF PromiseInv, KeyInv, TypeOK, Past
<1>6. Views' = [Views EXCEPT ![r] = Promise!Open(acked[i])]
    BY <1>3, <1>4, ViewsExcept DEF PromiseInv, KeyInv, TypeOK
<1>7. Views[r] = Promise!Idle
    BY ViewAt, ViewOf DEF PromiseInv, KeyInv, TypeOK
<1>8. Promise!Begin(r, i)
    BY <1>6, <1>7 DEF Promise!Begin
<1> QED BY <1>5, <1>8 DEF Promise!Next

\* What a query finds is nobody's answer yet.
LEMMA FindPromise ==
    ASSUME PromiseInv, NEW r \in Requests, Find(r)
    PROVE  Past' /\ UNCHANGED AbstractState
<1> DEFINE found == [request[r] EXCEPT !.value = row]
<1>1. request[r] \in Waiting /\ row \in Rows /\ request[r].pc = "waiting"
    BY Shapes DEF Find, PromiseInv, KeyInv, TypeOK
<1>2. found \in RequestStates /\ request[r] \in RequestStates
    BY <1>1, Shapes DEF Waiting, RequestStates
<1>3. found.pc = "waiting" /\ found.value = row /\ found.floor = request[r].floor
    BY <1>1 DEF Waiting
<1>4. request' = [request EXCEPT ![r] = found] /\ UNCHANGED <<row, cache, acked>>
    BY DEF Find
<1> HIDE DEF found
<1>5. row.version <= row.version
    BY <1>1, RowFields
<1>6. Past'
    BY <1>3, <1>4, <1>5 DEF PromiseInv, KeyInv, TypeOK, Past
<1>7. Viewed(found) = Viewed(request[r])
    BY <1>1, <1>2, <1>3, ViewOf
<1>8. Views' = [Views EXCEPT ![r] = Views[r]]
    BY <1>4, <1>7, ViewsExcept, ViewAt DEF PromiseInv, KeyInv, TypeOK
<1>9. Views' = Views
    BY <1>8 DEF Views
<1> QED BY <1>4, <1>6, <1>9 DEF AbstractState

\* What all who wait for a read get is one answer, new enough for each of them.
LEMMA FoundPromise ==
    ASSUME PromiseInv, NEW r \in Requests, Found(r)
    PROVE  Past' /\ Promise!Next
<1> DEFINE version == request[r].value.version
           answer(q) == [pc |-> "done", at |-> request[q].at, value |-> request[r].value,
                         floor |-> request[q].floor]
<1>1. /\ request[r].pc = "waiting" /\ request[r].read = r /\ request[r].value # None
      /\ UNCHANGED <<row, pending, acked>>
    BY DEF Found
<1>2. request[r] \in Waiting /\ request[r].at \in Instances /\ request[r].value \in Rows
    BY <1>1, Shapes DEF PromiseInv, KeyInv, TypeOK, Waiting
<1>3. request' = [q \in Requests |-> IF q \in Readers(r) THEN answer(q) ELSE request[q]]
    BY DEF Found
<1>4. ASSUME NEW q \in Readers(r)
      PROVE  /\ q \in Requests /\ answer(q).pc = "done"
             /\ Views[q] = Promise!Open(request[q].floor)
             /\ Viewed(answer(q)) = Promise!Answered(request[q].floor, version)
             /\ request[q].floor <= version
  <2>1. q \in Requests /\ request[q].pc = "waiting" /\ request[q].read = r
      BY DEF Readers
  <2>2. request[q] \in RequestStates /\ request[q] \in Waiting
      BY <2>1, Shapes DEF PromiseInv, KeyInv, TypeOK
  <2>3. answer(q) \in Done
      BY <2>2, <1>2 DEF Waiting, Done
  <2>4. answer(q) \in RequestStates
      BY <2>3, Shapes, <2>2
  <2>5. Viewed(answer(q)) = Promise!Answered(answer(q).floor, answer(q).value.version)
      BY <2>4, ViewOf
  <2>6. Views[q] = Promise!Open(request[q].floor)
      BY <2>1, <2>2, ViewOf, ViewAt
  <2>7. version >= request[q].floor
      BY <2>1, <1>1 DEF PromiseInv, KeyInv, ReadsServe
  <2>8. version \in Nat /\ request[q].floor \in Nat
      BY <1>2, <2>2, RowFields, TTLAssumption DEF Waiting, Versions
  <2>9. request[q].floor <= version
      BY <2>7, <2>8
  <2>10. answer(q).pc = "done"
      OBVIOUS
  <2> QED BY <2>1, <2>5, <2>6, <2>9, <2>10
<1> HIDE DEF answer
<1>5. version \in Nat /\ row.version \in Nat /\ version <= row.version
  <2>1. version <= row.version
      BY <1>1 DEF PromiseInv, Past
  <2>2. version \in Nat /\ row.version \in Nat
      BY <1>2, RowFields DEF PromiseInv, KeyInv, TypeOK
  <2> QED BY <2>1, <2>2
<1>6. Past'
  <2>1. ASSUME NEW i \in Instances, cache'[i] # None
        PROVE  cache'[i].value.version <= row'.version
    <3>1. \/ cache' = cache
          \/ cache' = [cache EXCEPT ![request[r].at] = [value |-> request[r].value, age |-> 0]]
        BY DEF Found, RecordValidation
    <3> QED BY <2>1, <3>1, <1>1, <1>5 DEF PromiseInv, KeyInv, TypeOK, Past
  <2>2. ASSUME NEW q \in Requests, request'[q].pc = "waiting", request'[q].value # None
        PROVE  request'[q].value.version <= row'.version
      BY <2>2, <1>1, <1>3, <1>4 DEF PromiseInv, Past
  <2> QED BY <2>1, <2>2 DEF Past
<1>7. ASSUME NEW q \in Requests
      PROVE  Views'[q] = IF q \in Readers(r) THEN Promise!Answered(request[q].floor, version)
                         ELSE Views[q]
    BY <1>3, <1>4, ViewAt
<1>8. ASSUME NEW q \in Readers(r)
      PROVE  Views[q].pc = "open" /\ Views[q].floor = request[q].floor
  <2>1. Views[q] = Promise!Open(request[q].floor)
      BY <1>4
  <2> QED BY ONLY <2>1 DEF Promise!Open
<1>9. Views' = [q \in Requests |->
                   IF q \in Readers(r) THEN Promise!Answered(Views[q].floor, version)
                   ELSE Views[q]]
  <2>1. Views' = [q \in Requests |-> Views'[q]]
      BY DEF Views
  <2> QED BY <2>1, <1>7, <1>8
<1>10. version \in 0..row.version
    BY <1>5
<1>11. \A q \in Readers(r) : Views[q].floor <= version
    BY <1>4, <1>8
<1> HIDE DEF version
<1>12. Promise!Answer(Readers(r))
    BY <1>1, <1>8, <1>9, <1>10, <1>11 DEF Promise!Answer
<1>13. Readers(r) \in SUBSET Requests
    BY DEF Readers
<1> QED BY <1>6, <1>12, <1>13 DEF Promise!Next

\* Who waits for a read that fails ends without an answer.
LEMMA FindFailsPromise ==
    ASSUME PromiseInv, NEW r \in Requests, FindFails(r)
    PROVE  Past' /\ Promise!Next
<1>1. UNCHANGED <<row, cache, acked>>
    BY DEF FindFails
<1>2. request' = [q \in Requests |-> IF q \in Readers(r) THEN Idle ELSE request[q]]
    BY DEF FindFails
<1>3. Idle.pc = "idle"
    BY DEF Idle
<1>4. Past'
    BY <1>1, <1>2, <1>3 DEF PromiseInv, Past
<1>5. ASSUME NEW q \in Requests
      PROVE  Views'[q] = IF q \in Readers(r) THEN Promise!Idle ELSE Views[q]
    BY <1>2, IdleView, ViewAt
<1>6. Views' = [q \in Requests |-> Views'[q]]
    BY DEF Views
<1>7. Promise!End(Readers(r))
    BY <1>1, <1>5, <1>6 DEF Promise!End
<1>8. Readers(r) \in SUBSET Requests
    BY DEF Readers
<1> QED BY <1>4, <1>7, <1>8 DEF Promise!Next

\* A request that goes on with its key ends its call.
LEMMA LeavePromise ==
    ASSUME PromiseInv, NEW r \in Requests, Leave(r)
    PROVE  Past' /\ Promise!Next
<1>1. request' = [request EXCEPT ![r] = Idle] /\ UNCHANGED <<row, cache, acked>>
    BY DEF Leave
<1>2. Idle.pc = "idle"
    BY DEF Idle
<1>3. Past'
    BY <1>1, <1>2 DEF PromiseInv, KeyInv, TypeOK, Past
<1>4. Views' = [Views EXCEPT ![r] = Promise!Idle]
    BY <1>1, IdleView, ViewsExcept DEF PromiseInv, KeyInv, TypeOK
<1>5. Views = [q \in Requests |-> Views[q]]
    BY DEF Views
<1>6. Views' = [q \in Requests |-> IF q \in {r} THEN Promise!Idle ELSE Views[q]]
    BY ONLY <1>4, <1>5
<1>7. Promise!End({r})
    BY <1>1, <1>6 DEF Promise!End
<1> QED BY <1>3, <1>7 DEF Promise!Next

\* A change of the row is a new value, and makes nothing newer than it.
LEMMA RowMovesOnPromise ==
    ASSUME PromiseInv, NEW revoked \in BOOLEAN, row' = Changed(revoked),
           UNCHANGED <<cache, request, acked>>
    PROVE  Past' /\ Promise!Next
<1>1. row.version \in Nat /\ row'.version = row.version + 1
    BY RowFields DEF PromiseInv, KeyInv, TypeOK, Changed
<1>2. ASSUME NEW w \in Rows, w.version <= row.version
      PROVE  w.version <= row'.version
    BY <1>1, <1>2, RowFields
<1>3. ASSUME NEW i \in Instances, cache[i] # None
      PROVE  cache[i].value.version <= row'.version
    BY <1>2, <1>3 DEF PromiseInv, Past, KeyInv, TypeOK
<1>4. ASSUME NEW r \in Requests, request[r].pc = "waiting", request[r].value # None
      PROVE  request[r].value.version <= row'.version
  <2>1. request[r].value \in Rows
      BY <1>4, Shapes DEF PromiseInv, KeyInv, TypeOK, Waiting
  <2> QED BY <1>2, <1>4, <2>1 DEF PromiseInv, Past
<1>5. Past'
    BY <1>3, <1>4 DEF Past
<1>6. Views' = Views
    BY DEF Views, Viewed
<1>7. Promise!Store
    BY <1>1, <1>6 DEF Promise!Store
<1> QED BY <1>5, <1>7 DEF Promise!Next

\* An instance hears of its change when PostgreSQL answers it.
LEMMA ChangeAnsweredPromise ==
    ASSUME PromiseInv, NEW i \in Instances, ChangeAnswered(i)
    PROVE  Past' /\ Promise!Next
<1>1. PICK v \in pending[i] :
        /\ acked' = [acked EXCEPT ![i] = IF @ > v THEN @ ELSE v]
        /\ cache' = [cache EXCEPT ![i] = None]
        /\ UNCHANGED <<row, request>>
    BY DEF ChangeAnswered
<1>2. /\ v \in Nat /\ v <= row.version /\ acked[i] \in Nat /\ acked[i] <= row.version
      /\ row.version \in Nat
    BY <1>1, RowFields, TTLAssumption DEF PromiseInv, KeyInv, TypeOK, Bounded, Versions
<1> DEFINE heard == IF acked[i] > v THEN acked[i] ELSE v
<1>3. heard \in acked[i]..row.version
    BY <1>2
<1>4. acked' = [acked EXCEPT ![i] = heard]
    BY <1>1
<1> HIDE DEF heard
<1>5. Past'
    BY <1>1 DEF PromiseInv, KeyInv, TypeOK, Past
<1>6. Views' = Views /\ row'.version = row.version
    BY <1>1 DEF Views, Viewed
<1>7. Promise!Hear(i)
    BY <1>3, <1>4, <1>6 DEF Promise!Hear
<1> QED BY <1>5, <1>7 DEF Promise!Next

\* Lost answers, time and eviction are no part of the promise.
LEMMA UnseenPromise ==
    ASSUME PromiseInv, NEW i \in Instances, ChangeLost(i) \/ Tick(i) \/ Evict(i)
    PROVE  Past' /\ UNCHANGED AbstractState
<1>1. UNCHANGED <<row, request, acked>>
    BY DEF ChangeLost, Tick, Evict
<1>2. \A j \in Instances : cache'[j] # None => cache[j] # None /\ cache'[j].value = cache[j].value
  <2>1. CASE ChangeLost(i)
      BY <2>1 DEF ChangeLost
  <2>2. CASE Tick(i)
    <3> DEFINE older == [cache[i] EXCEPT !.age = @ + 1]
    <3>1. cache[i] # None /\ cache[i] \in [value : Rows, age : 0..TTL]
        BY <2>2 DEF Tick, Cached, PromiseInv, KeyInv, TypeOK
    <3>2. older.value = cache[i].value
        BY <3>1
    <3>3. cache' = [cache EXCEPT ![i] = older]
        BY <2>2 DEF Tick
    <3> HIDE DEF older
    <3> QED BY <3>1, <3>2, <3>3 DEF PromiseInv, KeyInv, TypeOK
  <2>3. CASE Evict(i)
      BY <2>3 DEF Evict, PromiseInv, KeyInv, TypeOK
  <2> QED BY <2>1, <2>2, <2>3
<1>3. Past'
    BY <1>1, <1>2 DEF PromiseInv, Past
<1>4. Views' = Views
    BY <1>1 DEF Views, Viewed
<1> QED BY <1>1, <1>3, <1>4 DEF AbstractState

\* Every step is one of FreshReads, or none.
LEMMA NextPromise ==
    ASSUME PromiseInv, [Next]_vars
    PROVE  Past' /\ (Promise!Next \/ UNCHANGED AbstractState)
<1>1. ASSUME NEW r \in Requests, NEW i \in Instances, ValidateApiKey(r, i)
      PROVE  Past' /\ Promise!Next
    BY <1>1, AnswerFromCachePromise, JoinOrReadPromise DEF ValidateApiKey
<1>2. ASSUME NEW r \in Requests, Found(r) \/ FindFails(r) \/ Leave(r)
      PROVE  Past' /\ Promise!Next
    BY <1>2, FoundPromise, FindFailsPromise, LeavePromise
<1>3. ASSUME NEW i \in Instances, Change(i)
      PROVE  Past' /\ Promise!Next
  <2>1. PICK revoked \in BOOLEAN : row' = Changed(revoked)
      BY <1>3 DEF Change
  <2>2. UNCHANGED <<cache, request, acked>>
      BY <1>3 DEF Change
  <2> QED BY <2>1, <2>2, RowMovesOnPromise
<1>4. ASSUME RevokeInactiveKeys
      PROVE  Past' /\ Promise!Next
  <2>1. row' = Changed(TRUE) /\ UNCHANGED <<cache, request, acked>>
      BY <1>4 DEF RevokeInactiveKeys
  <2> QED BY <2>1, RowMovesOnPromise
<1>5. CASE UNCHANGED vars
  <2>1. Past'
      BY <1>5 DEF vars, PromiseInv, Past
  <2>2. UNCHANGED AbstractState
      BY <1>5 DEF vars, AbstractState, Views, Viewed
  <2> QED BY <2>1, <2>2
<1> QED BY <1>1, <1>2, <1>3, <1>4, <1>5, FindPromise, ChangeAnsweredPromise, UnseenPromise
        DEF Next

\* README.md:41 and the comment on updateApiKeyLimits(), for the whole life of a key:
\* validation is an implementation of FreshReads, whatever is cached, joined, lost or
\* evicted.  What a request is answered with was in the row at some moment, and no change
\* its instance had answered when the request began has been missed.
THEOREM ValidationServesFresh == Spec => ServesFresh
<1>1. Init => PromiseInv /\ Promise!Init
  <2> SUFFICES ASSUME Init PROVE PromiseInv /\ Promise!Init
      OBVIOUS
  <2>1. Past
      BY DEF Init, Idle, Past
  <2>2. Views = [r \in Requests |-> Promise!Idle]
      BY IdleView DEF Init, Views
  <2>3. Promise!Init
      BY <2>2 DEF Init, Promise!Init
  <2> QED BY <2>1, <2>3, InitInv DEF PromiseInv
<1>2. PromiseInv /\ [Next]_vars => PromiseInv' /\ [Promise!Next]_(Promise!vars)
  <2>1. Promise!vars = AbstractState /\ Promise!vars' = AbstractState'
      BY DEF Promise!vars, AbstractState
  <2> QED BY <2>1, NextInv, NextPromise DEF PromiseInv
<1> QED BY <1>1, <1>2, PTL DEF Spec, ServesFresh, Promise!Spec
=============================================================================

--------------------------- MODULE SettingsProofs ---------------------------
(***************************************************************************)
(* Proofs about Settings, for any settings, callers, bounds and lifetimes. *)
(*                                                                         *)
(* ReadYourSaves needs to know how new everything is that a call can still *)
(* be given: the cache and a query that may be joined are as new as what   *)
(* is saved (CacheFresh, JoinFresh), and a query in flight is as new as    *)
(* each of the calls that wait for it demands (Served).  The second is why *)
(* a save must forget the query in flight, and not only the cached value.  *)
(***************************************************************************)
EXTENDS Settings, TLAPS

\* Query b asks for k, and its answer is at least as new as n.
Serves(b, k, n) == k \in b.names /\ (b.rows # Empty => b.rows[k].ver >= n)

\* Call c gets everything as new as it demands, with s saved and queries Q.
Served(c, s, Q) ==
    c.pc = "reading" =>
        /\ DOMAIN c.floor = DOMAIN c.from \cup DOMAIN c.got
        /\ \A k \in DOMAIN c.floor : c.floor[k] <= s[k]
        /\ \A k \in DOMAIN c.got : c.got[k].ver >= c.floor[k]
        /\ \A k \in DOMAIN c.from : Serves(Q[c.from[k]], k, c.floor[k])

SavedBelow ==
    /\ \A k \in Names : saved[k] <= table[k].ver
    /\ put.pc = "upserted" => put.ver <= table[Head(put.todo)].ver
CacheFresh == \A k \in Names : cache[k] # NotCached => cache[k].row.ver >= saved[k]
JoinFresh == \A k \in Names : inflight[k] # Nobody => Serves(batch[inflight[k]], k, saved[k])
AllServed == \A r \in Reads : Served(read[r], saved, batch)

Fresh == SavedBelow /\ CacheFresh /\ JoinFresh /\ AllServed
SettingsInv == TypeOK /\ Fresh

-----------------------------------------------------------------------------
\* Lemmas about the records.

\* What a partial function is.
LEMMA PartialFunction ==
    ASSUME NEW S, NEW T, NEW f
    PROVE  f \in Partial(S, T) <=> DOMAIN f \subseteq S /\ f \in [DOMAIN f -> T]
BY DEF Partial

\* What a call in progress is.
LEMMA CallShape ==
    ASSUME NEW c \in Calls
    PROVE  /\ c.pc = "reading" => c \in Reading
           /\ c.pc \in {"encrypting", "replacing"} => c \in Holding
           /\ c.pc \in {"idle", "failed", "reading", "encrypting", "replacing"}
BY DEF Calls, Idle, Failed, Reading, Holding

\* What a query is: it has no rows before the database was asked.
LEMMA QueryShape ==
    ASSUME NEW b \in Queries
    PROVE  /\ b.names \subseteq Names
           /\ b.rows # Empty => b.rows \in [b.names -> Rows]
           /\ b = [names |-> b.names, rows |-> b.rows]
BY DEF Queries

\* What makes a query.
LEMMA MakeQuery ==
    ASSUME NEW N \in SUBSET Names, NEW f \in {Empty} \cup [N -> Rows]
    PROVE  [names |-> N, rows |-> f] \in Queries
BY DEF Queries

\* Nobody asks for nothing.
LEMMA NoQueryShape == NoQuery \in Queries /\ NoQuery.names = {} /\ NoQuery.rows = Empty
<1>1. NoQuery \in Queries
  BY MakeQuery, {} \in SUBSET Names DEF NoQuery
<1> QED
  BY <1>1 DEF NoQuery

\* The parts of a call that reads.
LEMMA ReadingShape ==
    ASSUME NEW c \in Reading
    PROVE  /\ c.pc = "reading"
           /\ c.floor \in [DOMAIN c.floor -> 0..MaxSaves] /\ DOMAIN c.floor \subseteq Names
           /\ c.from \in [DOMAIN c.from -> Reads] /\ DOMAIN c.from \subseteq Names
           /\ c.got \in [DOMAIN c.got -> Rows] /\ DOMAIN c.got \subseteq Names
BY DEF Reading, Partial

\* What makes one.
LEMMA MakeReading ==
    ASSUME NEW floor, floor \in [DOMAIN floor -> 0..MaxSaves], DOMAIN floor \subseteq Names,
           NEW from, from \in [DOMAIN from -> Reads], DOMAIN from \subseteq Names,
           NEW got, got \in [DOMAIN got -> Rows], DOMAIN got \subseteq Names
    PROVE  [pc |-> "reading", floor |-> floor, from |-> from, got |-> got] \in Reading
BY DEF Reading, Partial

\* What a cache entry is.
LEMMA EntryShape ==
    ASSUME NEW e \in Entries
    PROVE  e # NotCached => e.left \in 1..Ttl /\ e.row \in Rows
BY DEF Entries

\* What a save in progress is.
LEMMA PutShape ==
    ASSUME TypeOK
    PROVE  /\ put.pc \in {"saving", "upserted"} => put.todo \in Todo /\ Head(put.todo) \in Names
           /\ put.pc = "upserted" => put.ver \in 0..MaxSaves
<1>1. \A todo \in Todo : Head(todo) \in Names
  BY DEF Todo
<1> QED
  BY <1>1 DEF TypeOK, Puts, Idle

\* What a PUT does after one of its settings is saved.
LEMMA PutNext ==
    ASSUME TypeOK, put.pc = "upserted",
           put' = IF Len(put.todo) = 1 THEN Idle
                  ELSE [pc |-> "saving", todo |-> Tail(put.todo)]
    PROVE  put' \in Puts /\ put'.pc # "upserted"
<1>1. put.todo \in Seq(Names) /\ put.todo # <<>>
  BY PutShape DEF Todo
<1>2. CASE Len(put.todo) = 1
  BY <1>2 DEF Puts, Idle
<1>3. CASE Len(put.todo) # 1
  <2>1. Tail(put.todo) \in Todo
    <3>1. /\ Tail(put.todo) \in Seq(Names)
          /\ Len(Tail(put.todo)) = Len(put.todo) - 1
          /\ Len(put.todo) \in Nat \ {0}
      BY <1>1
    <3>2. Tail(put.todo) # <<>>
      <4> DEFINE rest == Tail(put.todo)
      <4>1. rest \in Seq(Names) /\ Len(rest) # 0
        BY <1>3, <3>1
      <4> HIDE DEF rest
      <4>2. rest # <<>>
        BY <4>1
      <4> QED
        BY <4>2 DEF rest
    <3> QED
      BY <3>1, <3>2 DEF Todo
  <2> QED
    BY <1>3, <2>1 DEF Puts
<1> QED
  BY <1>2, <1>3

-----------------------------------------------------------------------------
\* Steps that leave the queries alone.

\* What the calls in progress were promised holds as long as only saves are added.
LEMMA CallsKept ==
    ASSUME SettingsInv, UNCHANGED <<read, batch>>, saved' \in [Names -> 0..MaxSaves],
           \A k \in Names : saved[k] <= saved'[k]
    PROVE  AllServed'
<1> SUFFICES ASSUME NEW r \in Reads, read[r].pc = "reading" PROVE Served(read[r], saved', batch)
  BY DEF AllServed, Served
<1>1. read[r] \in Reading
  BY CallShape DEF SettingsInv, TypeOK
<1>2. Served(read[r], saved, batch)
  BY DEF SettingsInv, Fresh, AllServed
<1>3. \A k \in DOMAIN read[r].floor : read[r].floor[k] <= saved'[k]
  <2> SUFFICES ASSUME NEW k \in DOMAIN read[r].floor PROVE read[r].floor[k] <= saved'[k]
    OBVIOUS
  <2>1. k \in Names /\ read[r].floor[k] \in 0..MaxSaves
    BY <1>1, ReadingShape
  <2>2. saved[k] \in 0..MaxSaves /\ saved'[k] \in 0..MaxSaves /\ saved[k] <= saved'[k]
    BY <2>1 DEF SettingsInv, TypeOK
  <2>3. read[r].floor[k] <= saved[k]
    BY <1>2 DEF Served
  <2> QED
    BY <2>1, <2>2, <2>3
<1> QED
  BY <1>2, <1>3 DEF Served, Serves

\* A call that ends, or does anything but read, needs no more answers.
LEMMA CallMoves ==
    ASSUME SettingsInv, NEW r \in Reads, NEW c \in Calls, c.pc # "reading",
           read' = [read EXCEPT ![r] = c], UNCHANGED <<batch, saved>>
    PROVE  read' \in [Reads -> Calls] /\ AllServed'
<1>1. /\ read' \in [Reads -> Calls] /\ read'[r] = c
      /\ \A q \in Reads : q # r => read'[q] = read[q]
  BY DEF SettingsInv, TypeOK
<1> SUFFICES ASSUME NEW q \in Reads PROVE Served(read'[q], saved, batch)
  BY <1>1 DEF AllServed
<1>2. CASE q = r
  BY <1>1, <1>2 DEF Served
<1>3. CASE q # r
  BY <1>1, <1>3 DEF Served, Serves, SettingsInv, Fresh, AllServed
<1> QED
  BY <1>2, <1>3

\* The table only gets newer.
LEMMA TableGrows ==
    ASSUME SettingsInv, UNCHANGED <<saved, put>>, table' \in [Names -> Rows],
           \A k \in Names : table[k].ver <= table'[k].ver
    PROVE  SavedBelow'
<1>1. \A k \in Names : /\ saved[k] \in 0..MaxSaves /\ saved[k] <= table[k].ver
                       /\ table[k].ver \in 0..MaxSaves /\ table'[k].ver \in 0..MaxSaves
  BY DEF SettingsInv, Fresh, SavedBelow, TypeOK, Rows
<1>2. put.pc = "upserted" =>
         /\ Head(put.todo) \in Names /\ put.ver \in 0..MaxSaves
         /\ put.ver <= table[Head(put.todo)].ver
  BY PutShape DEF SettingsInv, Fresh, SavedBelow
<1> QED
  BY <1>1, <1>2, BoundsAssumption DEF SavedBelow

\* Forgetting a setting leaves a fresh cache and nothing stale to join.
LEMMA ForgetFresh ==
    ASSUME SettingsInv, NEW k \in Names, Forget(k), UNCHANGED batch,
           saved' \in [Names -> 0..MaxSaves], \A j \in Names \ {k} : saved'[j] = saved[j]
    PROVE  /\ cache' \in [Names -> Entries] /\ inflight' \in [Names -> Reads \cup {Nobody}]
           /\ CacheFresh' /\ JoinFresh'
<1>1. /\ cache' = [cache EXCEPT ![k] = NotCached]
      /\ inflight' = [inflight EXCEPT ![k] = Nobody]
      /\ cache \in [Names -> Entries] /\ inflight \in [Names -> Reads \cup {Nobody}]
      /\ NotCached \in Entries
  BY DEF Forget, SettingsInv, TypeOK, Entries
<1>2. \A j \in Names : cache'[j] = IF j = k THEN NotCached ELSE cache[j]
  BY <1>1
<1>3. \A j \in Names : inflight'[j] = IF j = k THEN Nobody ELSE inflight[j]
  BY <1>1
<1>4. CacheFresh'
  BY <1>2 DEF CacheFresh, SettingsInv, Fresh
<1>5. JoinFresh'
  BY <1>3 DEF JoinFresh, Serves, SettingsInv, Fresh
<1> QED
  BY <1>1, <1>4, <1>5

-----------------------------------------------------------------------------
\* The actions of a call.

\* A call begins: what it joins and what is cached is as new as what is saved now.
LEMMA BeginInv ==
    ASSUME SettingsInv, NEW r \in Reads, NEW B \in Batches, Begin(r, B)
    PROVE  SettingsInv'
<1> DEFINE floor == [k \in B |-> saved[k]]
           from == [k \in B \ Cached(B) |-> IF k \in Joined(B) THEN inflight[k] ELSE r]
           got == [k \in Cached(B) |-> cache[k].row]
           c == [pc |-> "reading", floor |-> floor, from |-> from, got |-> got]
<1>1. /\ B \subseteq Names /\ Cached(B) \subseteq B /\ Joined(B) \subseteq B \ Cached(B)
      /\ Missing(B) = (B \ Cached(B)) \ Joined(B)
  BY NamesAssumption DEF Cached, Joined, Missing
<1>2. /\ read[r] = Idle /\ batch[r] = NoQuery
      /\ read' = [read EXCEPT ![r] = c]
      /\ batch' = [batch EXCEPT ![r].names = Missing(B)]
      /\ inflight' = [k \in Names |-> IF k \in Missing(B) THEN r ELSE inflight[k]]
      /\ UNCHANGED <<table, cache, put, parsed, saved, faults>>
  BY DEF Begin
<1>3. c \in Reading
  <2>1. floor \in [B -> 0..MaxSaves]
    BY <1>1 DEF SettingsInv, TypeOK
  <2>2. from \in [B \ Cached(B) -> Reads]
    BY <1>1 DEF Joined, SettingsInv, TypeOK
  <2>3. got \in [Cached(B) -> Rows]
    BY <1>1, EntryShape DEF Cached, SettingsInv, TypeOK
  <2>4. DOMAIN floor = B /\ DOMAIN from = B \ Cached(B) /\ DOMAIN got = Cached(B)
    OBVIOUS
  <2> HIDE DEF floor, from, got
  <2> QED
    BY <1>1, <2>1, <2>2, <2>3, <2>4, MakeReading
<1>4. /\ c.pc = "reading" /\ c.floor = floor /\ c.from = from /\ c.got = got
  OBVIOUS
<1> HIDE DEF c
<1>5. /\ batch \in [Reads -> Queries] /\ batch[r].names = {} /\ batch[r].rows = Empty
  BY <1>2, NoQueryShape DEF SettingsInv, TypeOK
<1>6. /\ batch' \in [Reads -> Queries]
      /\ batch'[r].names = Missing(B) /\ batch'[r].rows = Empty
      /\ \A q \in Reads : q # r => batch'[q] = batch[q]
  <2>1. [batch[r] EXCEPT !.names = Missing(B)] = [names |-> Missing(B), rows |-> Empty]
    BY <1>2 DEF NoQuery
  <2>2. [names |-> Missing(B), rows |-> Empty] \in Queries
    BY <1>1, MakeQuery
  <2>3. batch' = [batch EXCEPT ![r] = [names |-> Missing(B), rows |-> Empty]]
    BY <1>2, <2>1
  <2> QED
    BY <1>5, <2>2, <2>3
<1>7. \A q \in Reads : \A k, n : Serves(batch[q], k, n) => q # r /\ Serves(batch'[q], k, n)
  BY <1>5, <1>6 DEF Serves
<1>8. JoinFresh'
  <2> SUFFICES ASSUME NEW k \in Names, inflight'[k] # Nobody
               PROVE  Serves(batch'[inflight'[k]], k, saved[k])
    BY <1>2 DEF JoinFresh
  <2>1. CASE k \in Missing(B)
    BY <1>2, <1>6, <2>1 DEF Serves
  <2>2. CASE k \notin Missing(B)
    <3>1. inflight'[k] = inflight[k] /\ inflight[k] \in Reads
      BY <1>2, <2>2 DEF SettingsInv, TypeOK
    <3> QED
      BY <1>7, <3>1 DEF SettingsInv, Fresh, JoinFresh
  <2> QED
    BY <2>1, <2>2
<1>9. Served(c, saved, batch')
  <2>1. DOMAIN floor = DOMAIN from \cup DOMAIN got
    BY <1>1
  <2>2. \A k \in B : floor[k] <= saved[k]
    BY <1>1 DEF SettingsInv, TypeOK
  <2>3. \A k \in Cached(B) : got[k].ver >= floor[k]
    BY <1>1 DEF Cached, SettingsInv, Fresh, CacheFresh
  <2>4. ASSUME NEW k \in B \ Cached(B) PROVE Serves(batch'[from[k]], k, floor[k])
    <3>1. CASE k \in Joined(B)
      <4>1. from[k] = inflight[k] /\ inflight[k] # Nobody /\ k \in Names
        BY <1>1, <2>4, <3>1 DEF Joined
      <4>2. inflight[k] \in Reads /\ Serves(batch[inflight[k]], k, saved[k])
        BY <4>1 DEF SettingsInv, TypeOK, Fresh, JoinFresh
      <4> QED
        BY <1>7, <4>1, <4>2
    <3>2. CASE k \notin Joined(B)
      BY <1>1, <1>6, <2>4, <3>2 DEF Serves
    <3> QED
      BY <3>1, <3>2
  <2> QED
    BY <1>4, <2>1, <2>2, <2>3, <2>4 DEF Served
<1>10. AllServed'
  <2> SUFFICES ASSUME NEW q \in Reads PROVE Served(read'[q], saved, batch')
    BY <1>2 DEF AllServed
  <2>1. CASE q = r
    BY <1>2, <1>9, <2>1 DEF SettingsInv, TypeOK
  <2>2. CASE q # r
    <3>1. read'[q] = read[q] /\ read[q] \in Calls
      BY <1>2, <2>2 DEF SettingsInv, TypeOK
    <3>2. Served(read[q], saved, batch)
      BY DEF SettingsInv, Fresh, AllServed
    <3>3. read[q].pc = "reading" => \A k \in DOMAIN read[q].from : read[q].from[k] \in Reads
      BY <3>1, CallShape, ReadingShape
    <3> QED
      BY <1>7, <3>1, <3>2, <3>3 DEF Served
  <2> QED
    BY <2>1, <2>2
<1>11. TypeOK'
  <2>1. c \in Calls
    BY <1>3 DEF Calls
  <2>2. read' \in [Reads -> Calls]
    BY <1>2, <2>1 DEF SettingsInv, TypeOK
  <2>3. inflight' \in [Names -> Reads \cup {Nobody}]
    BY <1>2 DEF SettingsInv, TypeOK
  <2> QED
    BY <1>2, <1>6, <2>2, <2>3 DEF SettingsInv, TypeOK
<1> QED
  BY <1>2, <1>8, <1>10, <1>11 DEF SettingsInv, Fresh, SavedBelow, CacheFresh

\* The database answers a query with what the table holds by then.
LEMMA QueryInv == ASSUME SettingsInv, NEW r \in Reads, Query(r) PROVE SettingsInv'
<1> DEFINE rows == [k \in batch[r].names |-> table[k]]
<1>1. /\ batch[r] \in Queries /\ batch[r].names # {} /\ batch[r].rows = Empty
      /\ batch' = [batch EXCEPT ![r].rows = rows]
      /\ UNCHANGED <<table, cache, inflight, read, put, parsed, saved, faults>>
  BY DEF Query, SettingsInv, TypeOK
<1>2. batch[r].names \subseteq Names /\ rows \in [batch[r].names -> Rows]
  BY <1>1, QueryShape DEF SettingsInv, TypeOK
<1>3. [batch[r] EXCEPT !.rows = rows] = [names |-> batch[r].names, rows |-> rows]
  BY <1>1, QueryShape
<1>4. [names |-> batch[r].names, rows |-> rows] \in Queries
  BY <1>2, MakeQuery
<1>5. /\ batch' \in [Reads -> Queries]
      /\ batch'[r].names = batch[r].names /\ batch'[r].rows = rows
      /\ \A q \in Reads : q # r => batch'[q] = batch[q]
  <2>1. batch' = [batch EXCEPT ![r] = [names |-> batch[r].names, rows |-> rows]]
    BY <1>1, <1>3
  <2> QED
    BY <1>4, <2>1 DEF SettingsInv, TypeOK
<1>6. \A q \in Reads, k \in Names, n \in 0..MaxSaves :
         Serves(batch[q], k, n) /\ n <= saved[k] => Serves(batch'[q], k, n)
  <2> SUFFICES ASSUME NEW q \in Reads, NEW k \in Names, NEW n \in 0..MaxSaves,
                      Serves(batch[q], k, n), n <= saved[k]
               PROVE  Serves(batch'[q], k, n)
    OBVIOUS
  <2>1. CASE q = r
    <3>1. n <= table[k].ver
      <4>1. saved[k] \in 0..MaxSaves /\ table[k].ver \in 0..MaxSaves /\ saved[k] <= table[k].ver
        BY DEF SettingsInv, TypeOK, Fresh, SavedBelow, Rows
      <4> QED
        BY <4>1, BoundsAssumption
    <3>2. k \in batch[r].names
      BY <2>1 DEF Serves
    <3>3. rows[k] = table[k] /\ table[k].ver \in 0..MaxSaves
      BY <3>2 DEF SettingsInv, TypeOK, Rows
    <3> QED
      BY <1>5, <2>1, <3>1, <3>2, <3>3, BoundsAssumption DEF Serves
  <2>2. CASE q # r
    BY <1>5, <2>2
  <2> QED
    BY <2>1, <2>2
<1> HIDE DEF rows
<1>7. JoinFresh'
  <2> SUFFICES ASSUME NEW k \in Names, inflight[k] # Nobody
               PROVE  Serves(batch'[inflight[k]], k, saved[k])
    BY <1>1 DEF JoinFresh
  <2>1. inflight[k] \in Reads /\ saved[k] \in 0..MaxSaves /\ saved[k] <= saved[k]
    BY DEF SettingsInv, TypeOK
  <2> QED
    BY <1>6, <2>1 DEF SettingsInv, Fresh, JoinFresh
<1>8. AllServed'
  <2> SUFFICES ASSUME NEW q \in Reads, read[q].pc = "reading"
               PROVE  Served(read[q], saved, batch')
    BY <1>1 DEF AllServed, Served
  <2>1. Served(read[q], saved, batch)
    BY DEF SettingsInv, Fresh, AllServed
  <2>2. ASSUME NEW k \in DOMAIN read[q].from
        PROVE  Serves(batch'[read[q].from[k]], k, read[q].floor[k])
    <3>1. read[q] \in Reading
      BY CallShape DEF SettingsInv, TypeOK
    <3>2. k \in DOMAIN read[q].floor
      BY <2>1 DEF Served
    <3>3. /\ k \in Names /\ read[q].from[k] \in Reads
          /\ read[q].floor[k] \in 0..MaxSaves /\ read[q].floor[k] <= saved[k]
      BY <2>1, <3>1, <3>2, ReadingShape DEF Served
    <3> QED
      BY <1>6, <2>1, <3>3 DEF Served
  <2> QED
    BY <2>1, <2>2 DEF Served
<1> QED
  BY <1>1, <1>5, <1>7, <1>8 DEF SettingsInv, TypeOK, Fresh, SavedBelow, CacheFresh

\* When a query has ended nothing joins it, and no other query has changed.
LEMMA QueryEnds ==
    ASSUME SettingsInv, NEW r \in Reads, Ended(r), batch' = [batch EXCEPT ![r] = NoQuery],
           UNCHANGED saved
    PROVE  /\ inflight' \in [Names -> Reads \cup {Nobody}] /\ batch' \in [Reads -> Queries]
           /\ \A q \in Reads : q # r => batch'[q] = batch[q]
           /\ JoinFresh'
<1>1. /\ batch' \in [Reads -> Queries]
      /\ \A q \in Reads : q # r => batch'[q] = batch[q]
  BY NoQueryShape DEF SettingsInv, TypeOK
<1>2. /\ inflight' \in [Names -> Reads \cup {Nobody}]
      /\ \A k \in Names : inflight'[k] # Nobody => inflight'[k] = inflight[k] /\ inflight[k] # r
  BY DEF Ended, SettingsInv, TypeOK
<1>3. JoinFresh'
  <2> SUFFICES ASSUME NEW k \in Names, inflight'[k] # Nobody
               PROVE  Serves(batch'[inflight'[k]], k, saved[k])
    BY DEF JoinFresh
  <2>1. inflight'[k] = inflight[k] /\ inflight[k] # r /\ inflight[k] \in Reads
    BY <1>2 DEF SettingsInv, TypeOK
  <2> QED
    BY <1>1, <2>1 DEF SettingsInv, Fresh, JoinFresh
<1> QED
  BY <1>1, <1>2, <1>3

\* A call that does not wait for a query may lose it.
LEMMA NotAwaiting ==
    ASSUME SettingsInv, NEW r \in Reads, NEW q \in Reads, ~Awaits(q, r),
           batch' = [batch EXCEPT ![r] = NoQuery]
    PROVE  /\ Served(read[q], saved, batch')
           /\ Gone(q) \in Calls /\ Served(Gone(q), saved, batch')
<1>1. read[q] \in Calls /\ Served(read[q], saved, batch)
  BY DEF SettingsInv, TypeOK, Fresh, AllServed
<1>2. read[q].pc = "reading" =>
         \A k \in DOMAIN read[q].from : read[q].from[k] \in Reads \ {r}
  BY <1>1, CallShape, ReadingShape DEF Awaits
<1>3. \A p \in Reads \ {r} : batch'[p] = batch[p]
  BY DEF SettingsInv, TypeOK
<1>4. Served(read[q], saved, batch')
  BY <1>1, <1>2, <1>3 DEF Served
<1>5. Gone(q) = read[q] \/ Gone(q) = Idle
  BY DEF Gone
<1>6. Idle \in Calls /\ Served(Idle, saved, batch')
  BY DEF Idle, Calls, Served
<1> QED
  BY <1>1, <1>4, <1>5, <1>6

\* Who waits for an answer gets it, and it is new enough.
LEMMA DeliveredServed ==
    ASSUME SettingsInv, NEW r \in Reads, NEW q \in Reads, Awaits(q, r),
           batch[r].rows # Empty, batch' = [batch EXCEPT ![r] = NoQuery]
    PROVE  Delivered(q, r) \in Calls /\ Served(Delivered(q, r), saved, batch')
<1> DEFINE c == read[q]
           mine == {k \in DOMAIN c.from : c.from[k] = r}
           from == [k \in DOMAIN c.from \ mine |-> c.from[k]]
           got == [k \in DOMAIN c.got \cup mine |->
                     IF k \in mine THEN batch[r].rows[k] ELSE c.got[k]]
<1>1. c \in Reading /\ Served(c, saved, batch) /\ c.pc = "reading"
  BY CallShape DEF Awaits, SettingsInv, TypeOK, Fresh, AllServed
<1>2. /\ c.floor \in [DOMAIN c.floor -> 0..MaxSaves] /\ DOMAIN c.floor \subseteq Names
      /\ c.from \in [DOMAIN c.from -> Reads] /\ DOMAIN c.from \subseteq Names
      /\ c.got \in [DOMAIN c.got -> Rows] /\ DOMAIN c.got \subseteq Names
      /\ c = [pc |-> "reading", floor |-> c.floor, from |-> c.from, got |-> c.got]
  BY <1>1, ReadingShape DEF Reading
<1>3. /\ batch[r].rows \in [batch[r].names -> Rows]
      /\ \A k \in mine : k \in batch[r].names /\ batch[r].rows[k].ver >= c.floor[k]
  BY <1>1, QueryShape DEF Served, Serves, SettingsInv, TypeOK
<1>4. Delivered(q, r) = [pc |-> "reading", floor |-> c.floor, from |-> from, got |-> got]
  BY DEF Delivered
<1>5. /\ DOMAIN from = DOMAIN c.from \ mine /\ DOMAIN got = DOMAIN c.got \cup mine
      /\ from \in [DOMAIN from -> Reads] /\ DOMAIN from \subseteq Names
      /\ got \in [DOMAIN got -> Rows] /\ DOMAIN got \subseteq Names
  BY <1>2, <1>3
<1>6. \A k \in DOMAIN got : got[k].ver >= c.floor[k]
  BY <1>1, <1>3 DEF Served
<1>7. \A k \in DOMAIN from : from[k] = c.from[k] /\ from[k] \in Reads \ {r}
  BY <1>2
<1>8. mine \subseteq DOMAIN c.from
  OBVIOUS
<1> HIDE DEF c, mine, from, got
<1>9. Delivered(q, r) \in Reading
  BY <1>2, <1>4, <1>5, MakeReading
<1>10. \A p \in Reads \ {r} : batch'[p] = batch[p]
  BY DEF SettingsInv, TypeOK
<1>11. Served(Delivered(q, r), saved, batch')
  BY <1>1, <1>4, <1>5, <1>6, <1>7, <1>8, <1>10 DEF Served
<1> QED
  BY <1>9, <1>11 DEF Calls

\* An answer arrives, and is cached if nothing was saved since it was asked for.
LEMMA ArriveInv == ASSUME SettingsInv, NEW r \in Reads, Arrive(r) PROVE SettingsInv'
<1>1. /\ batch[r].rows # Empty /\ Ended(r) /\ batch' = [batch EXCEPT ![r] = NoQuery]
      /\ UNCHANGED <<table, put, parsed, saved, faults>>
      /\ cache' = [k \in Names |-> IF inflight[k] = r
                                   THEN [left |-> Ttl, row |-> batch[r].rows[k]] ELSE cache[k]]
      /\ read' = [q \in Reads |-> IF Awaits(q, r) THEN Delivered(q, r)
                                  ELSE IF q = r THEN Gone(q) ELSE read[q]]
  BY DEF Arrive
<1>2. /\ inflight' \in [Names -> Reads \cup {Nobody}] /\ batch' \in [Reads -> Queries]
      /\ JoinFresh'
  BY <1>1, QueryEnds
<1>3. ASSUME NEW k \in Names, inflight[k] = r
      PROVE  batch[r].rows[k] \in Rows /\ batch[r].rows[k].ver >= saved[k]
  <2>1. Serves(batch[r], k, saved[k])
    BY <1>3, NamesAssumption DEF SettingsInv, Fresh, JoinFresh
  <2> QED
    BY <1>1, <2>1, QueryShape DEF Serves, SettingsInv, TypeOK
<1>4. cache' \in [Names -> Entries]
  BY <1>1, <1>3, BoundsAssumption DEF Entries, SettingsInv, TypeOK
<1>5. CacheFresh'
  BY <1>1, <1>3 DEF CacheFresh, SettingsInv, Fresh
<1>6. \A q \in Reads : read'[q] \in Calls /\ Served(read'[q], saved, batch')
  BY <1>1, DeliveredServed, NotAwaiting DEF SettingsInv, TypeOK
<1>7. TypeOK'
  BY <1>1, <1>2, <1>4, <1>6 DEF SettingsInv, TypeOK
<1> QED
  BY <1>1, <1>2, <1>5, <1>6, <1>7 DEF SettingsInv, Fresh, SavedBelow, AllServed

\* A query fails with every call that waits for it.
LEMMA QueryFailsInv == ASSUME SettingsInv, NEW r \in Reads, QueryFails(r) PROVE SettingsInv'
<1>1. /\ Ended(r) /\ batch' = [batch EXCEPT ![r] = NoQuery] /\ Fault
      /\ UNCHANGED <<table, cache, put, parsed, saved>>
      /\ read' = [q \in Reads |->
                    IF Awaits(q, r)
                    THEN IF q # r /\ batch[q] # NoQuery THEN Failed ELSE Idle
                    ELSE IF q = r THEN Gone(q) ELSE read[q]]
  BY DEF QueryFails
<1>2. /\ inflight' \in [Names -> Reads \cup {Nobody}] /\ batch' \in [Reads -> Queries]
      /\ JoinFresh'
  BY <1>1, QueryEnds
<1>3. /\ Idle \in Calls /\ Failed \in Calls
      /\ Served(Idle, saved, batch') /\ Served(Failed, saved, batch')
  BY DEF Calls, Idle, Failed, Served
<1>4. \A q \in Reads : read'[q] \in Calls /\ Served(read'[q], saved, batch')
  BY <1>1, <1>3, NotAwaiting DEF SettingsInv, TypeOK
<1>5. faults' \in 0..MaxFaults
  BY <1>1, BoundsAssumption DEF Fault, SettingsInv, TypeOK
<1>6. TypeOK'
  BY <1>1, <1>2, <1>4, <1>5 DEF SettingsInv, TypeOK
<1> QED
  BY <1>1, <1>2, <1>4, <1>6 DEF SettingsInv, Fresh, SavedBelow, CacheFresh, AllServed

\* A caller uses what it was given, and may keep its entries.
LEMMA UseInv == ASSUME SettingsInv, NEW r \in Reads, Use(r) PROVE SettingsInv'
<1> PICK proxied \in BOOLEAN :
       LET row == read[r].got[Secret]
           idle == \/ Secret \notin DOMAIN read[r].got
                   \/ row.enc \/ (proxied /\ row \in parsed)
       IN /\ read' = [read EXCEPT ![r] =
               IF idle THEN Idle ELSE [pc |-> "encrypting", row |-> row, proxied |-> proxied]]
          /\ parsed' = IF Secret \in DOMAIN read[r].got /\ proxied /\ row.enc
                       THEN {row} ELSE parsed
  BY DEF Use
<1> DEFINE row == read[r].got[Secret]
           held == [pc |-> "encrypting", row |-> row, proxied |-> proxied]
           there == Secret \in DOMAIN read[r].got
           idle == \/ Secret \notin DOMAIN read[r].got
                   \/ row.enc \/ (proxied /\ row \in parsed)
           c == IF idle THEN Idle ELSE held
<1>1. UNCHANGED <<table, cache, inflight, batch, put, saved, faults>>
  BY DEF Use
<1>2. there => row \in Rows
  BY CallShape, ReadingShape DEF Use, Returned, SettingsInv, TypeOK
<1>3. /\ read' = [read EXCEPT ![r] = c]
      /\ c = Idle \/ (c = held /\ there)
  OBVIOUS
<1>4. parsed' = parsed \/ (there /\ parsed' = {row})
  OBVIOUS
<1>5. parsed' \in {{}} \cup {{x} : x \in Rows}
  BY <1>2, <1>4 DEF SettingsInv, TypeOK
<1>6. c \in Calls /\ c.pc # "reading"
  <2> HIDE DEF row
  <2>1. there => held \in Calls
    BY <1>2 DEF Calls, Holding
  <2>2. held.pc = "encrypting" /\ Idle.pc = "idle" /\ Idle \in Calls
    BY DEF Calls, Idle
  <2> HIDE DEF held, there, c
  <2> QED
    BY <1>3, <2>1, <2>2
<1> HIDE DEF row, held, there, c
<1>7. read' \in [Reads -> Calls] /\ AllServed'
  BY <1>1, <1>3, <1>6, CallMoves
<1> QED
  BY <1>1, <1>5, <1>7
     DEF SettingsInv, TypeOK, Fresh, SavedBelow, CacheFresh, JoinFresh

\* An administrator's list meets a plaintext record.
LEMMA ListInv == ASSUME SettingsInv, NEW r \in Reads, List(r) PROVE SettingsInv'
<1> DEFINE held == [pc |-> "encrypting", row |-> table[Secret], proxied |-> FALSE]
<1>1. /\ read' = [read EXCEPT ![r] = held]
      /\ UNCHANGED <<table, cache, inflight, batch, put, parsed, saved, faults>>
  BY DEF List
<1>2. held \in Calls /\ held.pc # "reading"
  BY NamesAssumption DEF Calls, Holding, SettingsInv, TypeOK
<1> HIDE DEF held
<1>3. read' \in [Reads -> Calls] /\ AllServed'
  BY <1>1, <1>2, CallMoves
<1> QED
  BY <1>1, <1>3 DEF SettingsInv, TypeOK, Fresh, SavedBelow, CacheFresh, JoinFresh

\* Encrypting a row changes neither its version nor the type of anything.
LEMMA EncryptedRow ==
    ASSUME NEW row \in Rows
    PROVE  Encrypted(row) \in Rows /\ Encrypted(row).ver = row.ver
BY DEF Encrypted, Rows

\* The row is replaced, if it is still the one that was read.
LEMMA EncryptInv == ASSUME SettingsInv, NEW r \in Reads, Encrypt(r) PROVE SettingsInv'
<1>1. /\ read[r].pc = "encrypting" /\ read' = [read EXCEPT ![r].pc = "replacing"]
      /\ table' = IF table[Secret] = read[r].row
                  THEN [table EXCEPT ![Secret] = Encrypted(read[r].row)] ELSE table
      /\ UNCHANGED <<cache, inflight, batch, put, parsed, saved, faults>>
  BY DEF Encrypt
<1>2. read[r] \in Holding
  BY <1>1, CallShape DEF SettingsInv, TypeOK
<1> DEFINE c == [read[r] EXCEPT !.pc = "replacing"]
<1>3. c \in Holding /\ c.pc = "replacing"
  BY <1>2 DEF Holding
<1> HIDE DEF c
<1>4. read' \in [Reads -> Calls] /\ AllServed'
  <2>1. c \in Calls /\ c.pc # "reading" /\ read' = [read EXCEPT ![r] = c]
    BY <1>1, <1>3 DEF Calls, c
  <2> QED
    BY <1>1, <2>1, CallMoves
<1>5. /\ table' \in [Names -> Rows]
      /\ \A k \in Names : table'[k].ver = table[k].ver
  BY <1>1, EncryptedRow, NamesAssumption DEF SettingsInv, TypeOK
<1>6. SavedBelow'
  <2>1. \A k \in Names : table[k].ver <= table'[k].ver
    BY <1>5 DEF SettingsInv, TypeOK, Rows
  <2> QED
    BY <1>1, <1>5, <2>1, TableGrows
<1> QED
  BY <1>1, <1>4, <1>5, <1>6 DEF SettingsInv, TypeOK, Fresh, CacheFresh, JoinFresh

\* The instance forgets the row that was replaced.
LEMMA ReplacedInv == ASSUME SettingsInv, NEW r \in Reads, Replaced(r) PROVE SettingsInv'
<1>1. /\ read[r].pc = "replacing" /\ Forget(Secret)
      /\ parsed' = IF read[r].proxied THEN {read[r].row} ELSE parsed
      /\ read' = [read EXCEPT ![r] = Idle]
      /\ UNCHANGED <<table, batch, put, saved, faults>>
  BY DEF Replaced
<1>2. read[r].row \in Rows
  BY <1>1, CallShape DEF Holding, SettingsInv, TypeOK
<1>3. read' \in [Reads -> Calls] /\ AllServed'
  <2>1. Idle \in Calls /\ Idle.pc # "reading"
    BY DEF Calls, Idle
  <2> QED
    BY <1>1, <2>1, CallMoves
<1>4. /\ cache' \in [Names -> Entries] /\ inflight' \in [Names -> Reads \cup {Nobody}]
      /\ CacheFresh' /\ JoinFresh'
  <2>1. saved' \in [Names -> 0..MaxSaves] /\ \A j \in Names \ {Secret} : saved'[j] = saved[j]
    BY <1>1 DEF SettingsInv, TypeOK
  <2> QED
    BY <1>1, <2>1, ForgetFresh, NamesAssumption
<1>5. parsed' \in {{}} \cup {{row} : row \in Rows}
  BY <1>1, <1>2 DEF SettingsInv, TypeOK
<1> QED
  BY <1>1, <1>3, <1>4, <1>5 DEF SettingsInv, TypeOK, Fresh, SavedBelow

\* Encrypting fails.
LEMMA EncryptFailsInv == ASSUME SettingsInv, NEW r \in Reads, EncryptFails(r) PROVE SettingsInv'
<1>1. /\ Fault /\ read' = [read EXCEPT ![r] = Idle]
      /\ UNCHANGED <<table, cache, inflight, batch, put, parsed, saved>>
  BY DEF EncryptFails
<1>2. read' \in [Reads -> Calls] /\ AllServed'
  <2>1. Idle \in Calls /\ Idle.pc # "reading"
    BY DEF Calls, Idle
  <2> QED
    BY <1>1, <2>1, CallMoves
<1>3. faults' \in 0..MaxFaults
  BY <1>1, BoundsAssumption DEF Fault, SettingsInv, TypeOK
<1> QED
  BY <1>1, <1>2, <1>3 DEF SettingsInv, TypeOK, Fresh, SavedBelow, CacheFresh, JoinFresh

-----------------------------------------------------------------------------
\* The actions of a PUT, of other instances and of time.

\* A PUT begins.
LEMMA UpdateInv == ASSUME SettingsInv, Update PROVE SettingsInv'
<1>1. /\ put' \in Puts /\ put'.pc # "upserted"
      /\ UNCHANGED <<table, cache, inflight, read, batch, parsed, saved, faults>>
  BY NamesAssumption DEF Update, Puts, Todo
<1> QED
  BY <1>1 DEF SettingsInv, TypeOK, Fresh, SavedBelow, CacheFresh, JoinFresh, AllServed, Served, Serves

\* The row a save writes is newer than the one it overwrites.
LEMMA StoredRow ==
    ASSUME SettingsInv, NEW k \in Names, table[k].ver < MaxSaves
    PROVE  /\ Stored(k) \in Rows /\ Stored(k).ver = table[k].ver + 1
           /\ [table EXCEPT ![k] = Stored(k)] \in [Names -> Rows]
           /\ \A j \in Names : table[j].ver <= [table EXCEPT ![k] = Stored(k)][j].ver
<1>1. \A j \in Names : table[j].ver \in 0..MaxSaves
  BY DEF SettingsInv, TypeOK, Rows
<1>2. /\ Stored(k) \in Rows /\ Stored(k).ver = table[k].ver + 1
  BY <1>1, BoundsAssumption DEF Stored, Rows
<1> QED
  BY <1>1, <1>2, BoundsAssumption DEF SettingsInv, TypeOK

\* The database stores a setting.
LEMMA UpsertInv == ASSUME SettingsInv, Upsert PROVE SettingsInv'
<1> DEFINE k == Head(put.todo)
           new == [table EXCEPT ![k] = Stored(k)]
<1>1. /\ put.pc = "saving" /\ table[k].ver < MaxSaves /\ table' = new
      /\ put' = [pc |-> "upserted", todo |-> put.todo, ver |-> table[k].ver + 1]
      /\ UNCHANGED <<cache, inflight, read, batch, parsed, saved, faults>>
  BY DEF Upsert
<1>2. k \in Names /\ put.todo \in Todo
  BY <1>1, PutShape DEF SettingsInv
<1>3. /\ new \in [Names -> Rows] /\ new[k] = Stored(k) /\ Stored(k).ver = table[k].ver + 1
      /\ Stored(k) \in Rows
      /\ \A j \in Names : table[j].ver <= new[j].ver
  BY <1>1, <1>2, StoredRow DEF SettingsInv, TypeOK
<1>4. /\ put'.pc = "upserted" /\ put'.todo = put.todo /\ put'.ver = new[k].ver
      /\ put'.ver \in 0..MaxSaves /\ put' \in Puts
  <2>1. table[k].ver + 1 \in 0..MaxSaves
    BY <1>3 DEF Rows
  <2> QED
    BY <1>1, <1>2, <1>3, <2>1 DEF Puts
<1> HIDE DEF new
<1>5. \A j \in Names : saved[j] <= new[j].ver
  <2> SUFFICES ASSUME NEW j \in Names PROVE saved[j] <= new[j].ver
    OBVIOUS
  <2>1. /\ saved[j] \in 0..MaxSaves /\ table[j].ver \in 0..MaxSaves
        /\ new[j].ver \in 0..MaxSaves /\ saved[j] <= table[j].ver
    BY <1>3 DEF SettingsInv, TypeOK, Fresh, SavedBelow, Rows
  <2> QED
    BY <1>3, <2>1
<1>6. SavedBelow'
  <2>1. put'.ver <= table'[Head(put'.todo)].ver
    BY <1>1, <1>4
  <2> QED
    BY <1>1, <1>5, <2>1 DEF SavedBelow
<1> QED
  BY <1>1, <1>3, <1>4, <1>6
     DEF SettingsInv, TypeOK, Fresh, CacheFresh, JoinFresh, AllServed, Served, Serves

\* The save is answered: whoever reads from now on may rely on it.
LEMMA UpsertedInv == ASSUME SettingsInv, Upserted PROVE SettingsInv'
<1> DEFINE k == Head(put.todo)
<1>1. /\ put.pc = "upserted" /\ Forget(k)
      /\ saved' = [saved EXCEPT ![k] = IF put.ver > saved[k] THEN put.ver ELSE saved[k]]
      /\ put' = IF Len(put.todo) = 1 THEN Idle ELSE [pc |-> "saving", todo |-> Tail(put.todo)]
      /\ UNCHANGED <<table, read, batch, parsed, faults>>
  BY DEF Upserted
<1>2. /\ k \in Names /\ put.ver \in 0..MaxSaves /\ put.ver <= table[k].ver
  BY <1>1, PutShape DEF SettingsInv, Fresh, SavedBelow
<1>3. put' \in Puts /\ put'.pc # "upserted"
  BY <1>1, PutNext DEF SettingsInv
<1> HIDE DEF k
<1>4. /\ saved' \in [Names -> 0..MaxSaves]
      /\ \A j \in Names \ {k} : saved'[j] = saved[j]
      /\ saved'[k] = IF put.ver > saved[k] THEN put.ver ELSE saved[k]
  BY <1>1, <1>2 DEF SettingsInv, TypeOK
<1>5. \A j \in Names : saved[j] <= saved'[j] /\ saved'[j] <= table[j].ver
  BY <1>2, <1>4 DEF SettingsInv, TypeOK, Fresh, SavedBelow
<1>6. /\ cache' \in [Names -> Entries] /\ inflight' \in [Names -> Reads \cup {Nobody}]
      /\ CacheFresh' /\ JoinFresh'
  BY <1>1, <1>2, <1>4, ForgetFresh
<1>7. AllServed'
  BY <1>1, <1>4, <1>5, CallsKept
<1>8. SavedBelow'
  BY <1>1, <1>3, <1>5 DEF SavedBelow
<1> QED
  BY <1>1, <1>3, <1>4, <1>6, <1>7, <1>8 DEF SettingsInv, TypeOK, Fresh

\* A save fails, before or after the database stored the row.
LEMMA UpsertFailsInv == ASSUME SettingsInv, UpsertFails PROVE SettingsInv'
<1>1. /\ put' \in Puts /\ put'.pc # "upserted" /\ Fault
      /\ UNCHANGED <<table, cache, inflight, read, batch, parsed, saved>>
  BY DEF UpsertFails, Puts, Idle
<1>2. faults' \in 0..MaxFaults
  BY <1>1, BoundsAssumption DEF Fault, SettingsInv, TypeOK
<1> QED
  BY <1>1, <1>2
     DEF SettingsInv, TypeOK, Fresh, SavedBelow, CacheFresh, JoinFresh, AllServed, Served, Serves

\* Another instance saves.
LEMMA SavedElsewhereInv ==
    ASSUME SettingsInv, NEW k \in Names, SavedElsewhere(k)
    PROVE  SettingsInv'
<1>1. /\ table[k].ver < MaxSaves /\ table' = [table EXCEPT ![k] = Stored(k)]
      /\ UNCHANGED <<cache, inflight, read, batch, put, parsed, saved, faults>>
  BY DEF SavedElsewhere
<1>2. table' \in [Names -> Rows] /\ \A j \in Names : table[j].ver <= table'[j].ver
  BY <1>1, StoredRow
<1>3. SavedBelow'
  BY <1>1, <1>2, TableGrows
<1> QED
  BY <1>1, <1>2, <1>3
     DEF SettingsInv, TypeOK, Fresh, CacheFresh, JoinFresh, AllServed, Served, Serves

\* Time passes: an entry grows older or is dropped.
LEMMA TickInv == ASSUME SettingsInv, Tick PROVE SettingsInv'
<1>1. /\ cache' = [k \in Names |-> IF cache[k].left > 1
                                    THEN [cache[k] EXCEPT !.left = @ - 1] ELSE NotCached]
      /\ UNCHANGED <<table, inflight, read, batch, put, parsed, saved, faults>>
  BY DEF Tick
<1>2. ASSUME NEW k \in Names
      PROVE  cache'[k] = NotCached \/ (/\ cache[k] # NotCached /\ cache'[k] \in Entries
                                        /\ cache'[k].row = cache[k].row)
  <2>1. CASE cache[k].left > 1
    <3>1. cache[k] # NotCached
      BY <2>1 DEF NotCached
    <3>2. cache[k] \in [left : 1..Ttl, row : Rows]
      BY <3>1 DEF SettingsInv, TypeOK, Entries
    <3>3. cache'[k] = [cache[k] EXCEPT !.left = cache[k].left - 1]
      BY <1>1, <2>1
    <3>4. cache'[k] \in [left : 1..Ttl, row : Rows] /\ cache'[k].row = cache[k].row
      BY <2>1, <3>2, <3>3, BoundsAssumption
    <3> QED
      BY <3>1, <3>4 DEF Entries
  <2>2. CASE ~(cache[k].left > 1)
    BY <1>1, <2>2
  <2> QED
    BY <2>1, <2>2
<1>3. cache' \in [Names -> Entries]
  BY <1>1, <1>2 DEF Entries
<1>4. CacheFresh'
  BY <1>1, <1>2 DEF CacheFresh, SettingsInv, Fresh
<1> QED
  BY <1>1, <1>3, <1>4
     DEF SettingsInv, TypeOK, Fresh, SavedBelow, JoinFresh, AllServed, Served, Serves

-----------------------------------------------------------------------------
\* The theorems.

\* Nothing is cached, asked for or saved when an instance starts.
LEMMA InitInv == ASSUME Init PROVE SettingsInv
<1>1. /\ table \in [Names -> Rows] /\ \A k \in Names : table[k].ver = 0
  BY BoundsAssumption DEF Init, Rows
<1>2. TypeOK
  BY <1>1, NoQueryShape, BoundsAssumption DEF Init, TypeOK, Entries, Calls, Puts
<1>3. SavedBelow
  BY <1>1 DEF Init, SavedBelow, Idle
<1>4. CacheFresh /\ JoinFresh /\ AllServed
  BY DEF Init, CacheFresh, JoinFresh, AllServed, Served, Idle
<1> QED
  BY <1>2, <1>3, <1>4 DEF SettingsInv, Fresh

\* Every step keeps the invariant.
LEMMA NextInv == ASSUME SettingsInv, [Next]_vars PROVE SettingsInv'
<1>1. ASSUME NEW r \in Reads, ReadStep(r) PROVE SettingsInv'
  BY <1>1, BeginInv, QueryInv, ArriveInv, QueryFailsInv, UseInv, ListInv, EncryptInv,
     ReplacedInv, EncryptFailsInv DEF ReadStep
<1>2. CASE UNCHANGED vars
  BY <1>2 DEF vars, SettingsInv, TypeOK, Fresh, SavedBelow, CacheFresh, JoinFresh,
              AllServed, Served, Serves
<1> QED
  BY <1>1, <1>2, UpdateInv, UpsertInv, UpsertedInv, UpsertFailsInv, SavedElsewhereInv, TickInv
     DEF Next

\* The cache, the queries in flight and the calls that wait for them are as new as
\* what was saved and answered, in every state the instance reaches.
THEOREM SettingsInvariant == Spec => []SettingsInv
<1>1. Init => SettingsInv
  BY InitInv
<1>2. SettingsInv /\ [Next]_vars => SettingsInv'
  BY NextInv
<1> QED
  BY <1>1, <1>2, PTL DEF Spec

\* The table, the cache, the calls and the saves keep their types.
THEOREM SettingsTypeCorrect == Spec => []TypeOK
<1>1. SettingsInv => TypeOK
  BY DEF SettingsInv
<1> QED
  BY <1>1, SettingsInvariant, PTL

\* A read that begins after a save was answered returns that save's value or a
\* newer one, whichever queries are in flight (settings.service.ts, updateSetting()).
THEOREM ReadsFollowSaves == Spec => []ReadYourSaves
<1>1. SettingsInv => ReadYourSaves
  <2> SUFFICES ASSUME SettingsInv, NEW r \in Reads, read[r].pc = "reading",
                      NEW k \in DOMAIN read[r].got
               PROVE  read[r].got[k].ver >= read[r].floor[k]
    BY DEF ReadYourSaves
  <2> QED
    BY DEF SettingsInv, Fresh, AllServed, Served
<1> QED
  BY <1>1, SettingsInvariant, PTL

\* Nothing stored gives way to something older: encrypting a legacy record replaces
\* it only while it is the row that was read (replaceSettingIfUnchanged()).
THEOREM NoSaveUndone == Spec => SavesSurvive
<1>1. SettingsInv /\ [Next]_vars => [\A k \in Names : table'[k].ver >= table[k].ver]_vars
  <2> SUFFICES ASSUME SettingsInv, Next, NEW k \in Names PROVE table'[k].ver >= table[k].ver
    OBVIOUS
  <2>1. \A j \in Names : table[j] \in Rows /\ table[j].ver \in 0..MaxSaves
    BY DEF SettingsInv, TypeOK, Rows
  <2>2. CASE table' = table
    BY <2>1, <2>2
  <2>3. ASSUME NEW r \in Reads, Encrypt(r) PROVE table'[k].ver >= table[k].ver
    <3>1. read[r].row \in Rows
      BY <2>3, CallShape DEF Encrypt, Holding, SettingsInv, TypeOK
    <3>2. CASE table[Secret] = read[r].row
      <4>1. table'[k].ver = table[k].ver
        BY <2>3, <3>1, <3>2, EncryptedRow, NamesAssumption DEF Encrypt, SettingsInv, TypeOK
      <4> QED
        BY <2>1, <4>1
    <3>3. CASE table[Secret] # read[r].row
      BY <2>1, <2>3, <3>3 DEF Encrypt
    <3> QED
      BY <3>2, <3>3
  <2>4. CASE Upsert
    <3>1. /\ Head(put.todo) \in Names /\ table[Head(put.todo)].ver < MaxSaves
          /\ table' = [table EXCEPT ![Head(put.todo)] = Stored(Head(put.todo))]
      BY <2>4, PutShape DEF Upsert, SettingsInv
    <3>2. table[k].ver <= table'[k].ver /\ table'[k].ver \in 0..MaxSaves
      BY <3>1, StoredRow DEF Rows
    <3> QED
      BY <2>1, <3>2
  <2>5. ASSUME NEW j \in Names, SavedElsewhere(j) PROVE table'[k].ver >= table[k].ver
    <3>1. table[k].ver <= table'[k].ver /\ table'[k].ver \in 0..MaxSaves
      BY <2>5, StoredRow DEF SavedElsewhere, Rows
    <3> QED
      BY <2>1, <3>1
  <2> QED
    BY <2>2, <2>3, <2>4, <2>5
       DEF Next, ReadStep, Begin, Query, Arrive, QueryFails, Use, List, Replaced, EncryptFails,
           Update, Upserted, UpsertFails, Tick
<1> QED
  BY <1>1, SettingsInvariant, PTL DEF Spec, SavesSurvive
=============================================================================

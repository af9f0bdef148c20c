---------------------------- MODULE ResponseCache ----------------------------
(***************************************************************************)
(* The cache of successful scrapes (proxy/response-cache.ts) and how the   *)
(* pipeline uses it (handle, captureForCache and collectForCache of        *)
(* proxy/proxy.service.ts).  A request applies the lifetime it found in    *)
(* the settings, looks its key up, and on a miss may collect a copy of the *)
(* streamed answer, chunk by chunk, while the client reads the other copy. *)
(*                                                                         *)
(* Sizes and ages are counted in coarse units; a chunk has size 1.         *)
(***************************************************************************)
EXTENDS Integers, Sequences, SequencesExt, Functions

CONSTANTS Requests,      \* requests in flight
          CacheKeys,
          Lifetimes,     \* values of response_cache_ttl_seconds; 0 is off
          MaxAges,       \* values of a request's maxAge, in whole ticks; maxAge: 0
                         \* itself makes a request unfit for the cache
          MaxEntry,      \* MAX_CACHED_ENTRY_BYTES
          MaxBytes       \* responseCacheMaxBytes

ASSUME LifetimesAssumption ==
    Lifetimes \subseteq Nat /\ 0 \in Lifetimes /\ \E t \in Lifetimes : \A u \in Lifetimes : u <= t
ASSUME MaxAgesAssumption == MaxAges \subseteq Nat
ASSUME SizesAssumption == MaxEntry \in Nat \ {0} /\ MaxBytes \in Nat

VARIABLES setting,      \* the stored lifetime
          ttl,          \* ttlMs
          entries,      \* the Map, in insertion order
          totalBytes,
          request       \* per request: how far it is

cacheVars == <<ttl, entries, totalBytes>>
requestVars == <<setting, ttl, entries, totalBytes, request>>

NoMaxAge == -1
Longest == CHOOSE t \in Lifetimes : \A u \in Lifetimes : u <= t

\* What the upstream has to send, and whether it parses and says success: true.
Bodies == [length : 1..(MaxEntry + 1), success : BOOLEAN]

\* body is history: what the upstream had to send when these bytes were collected.
Entry == [key : CacheKeys, size : 1..MaxEntry, age : 0..Longest, body : Bodies]

Idle == [pc |-> "idle"]

\* A streamed answer is read by the client only, by the client and the collector,
\* or by the collector only.  Without an upstream the client still reads what was
\* buffered for it (draining), or waits at an answer that nobody ends (stranded).
RequestStates ==
    [pc : {"idle", "fetching", "client", "draining", "stranded"}]
    \cup [pc : {"planned"}, lifetime : Lifetimes]
    \cup [pc : {"planned"}, lifetime : Lifetimes, key : CacheKeys,
          maxAge : MaxAges \cup {NoMaxAge}]
    \cup [pc : {"fetching"}, key : CacheKeys]
    \cup [pc : {"both", "collector"}, key : CacheKeys, body : Bodies,
          held : 0..MaxEntry, abandoned : BOOLEAN]

CacheTypeOK ==
    /\ setting \in Lifetimes /\ ttl \in Lifetimes
    /\ entries \in Seq(Entry)
    /\ \A i, j \in DOMAIN entries : entries[i].key = entries[j].key => i = j
    /\ totalBytes \in Nat
    /\ request \in [Requests -> RequestStates]

CacheInit ==
    /\ setting \in Lifetimes
    /\ ttl = 0
    /\ entries = <<>>
    /\ totalBytes = 0
    /\ request = [r \in Requests |-> Idle]

-----------------------------------------------------------------------------
\* ResponseCache, as functions of the Map and its byte count.

Bytes(es) == SumFunction([i \in DOMAIN es |-> es[i].size])

\* Where the entry of a key is, if there is one.
Has(es, k) == \E i \in DOMAIN es : es[i].key = k
Position(es, k) == CHOOSE i \in DOMAIN es : es[i].key = k

SetTtlMs(lifetime) ==
    IF lifetime = 0 /\ ttl # 0
    THEN [entries |-> <<>>, bytes |-> 0]
    ELSE [entries |-> entries, bytes |-> totalBytes]

\* remove() and the deletion in get(), which leaves the bytes alone
Removed(c, i) == [entries |-> RemoveAt(c.entries, i), bytes |-> c.bytes - c.entries[i].size]
Refreshed(c, i) == [c EXCEPT !.entries = Append(RemoveAt(@, i), @[i])]

Usable(e, lifetime, maxAge) == e.age < lifetime /\ (maxAge # NoMaxAge => e.age <= maxAge)

\* get() keeps an entry that is only too old for this request's maxAge.
Get(c, lifetime, k, maxAge) ==
    LET i == Position(c.entries, k)
        e == c.entries[i]
    IN IF ~Has(c.entries, k) THEN [hit |-> FALSE, cache |-> c]
       ELSE [hit |-> Usable(e, lifetime, maxAge),
             cache |-> IF Usable(e, lifetime, maxAge) THEN Refreshed(c, i)
                       ELSE IF e.age >= lifetime THEN Removed(c, i) ELSE c]

\* The oldest entries go until the count is within the bound.
Evicted(c) ==
    LET all == Len(c.entries)
        gone(n) == Bytes(SubSeq(c.entries, 1, n))
        enough == {n \in 0..all : c.bytes - gone(n) <= MaxBytes \/ n = all}
        first == CHOOSE n \in enough : \A m \in enough : n <= m
    IN [entries |-> SubSeq(c.entries, first + 1, all), bytes |-> c.bytes - gone(first)]

\* Mutant: the replaced entry's bytes stay counted.
PutForgetsBytes(e) ==
    LET others == IF Has(entries, e.key) THEN RemoveAt(entries, Position(entries, e.key))
                  ELSE entries
        after == Evicted([entries |-> Append(others, e), bytes |-> totalBytes + e.size])
    IN entries' = after.entries /\ totalBytes' = after.bytes

\* set()
Put(e) ==
    LET c == [entries |-> entries, bytes |-> totalBytes]
        without == IF Has(entries, e.key) THEN Removed(c, Position(entries, e.key)) ELSE c
        with == [entries |-> Append(without.entries, e), bytes |-> without.bytes + e.size]
        after == Evicted(with)
    IN entries' = after.entries /\ totalBytes' = after.bytes

\* Mutant: set() does not ask whether the cache is still on.
StoreWhenOff(e) ==
    IF MaxBytes > 0 /\ e.size <= MaxEntry /\ e.size <= MaxBytes
    THEN Put(e)
    ELSE UNCHANGED <<entries, totalBytes>>

Store(e) ==
    IF ttl > 0 /\ MaxBytes > 0 /\ e.size <= MaxEntry /\ e.size <= MaxBytes
    THEN Put(e)
    ELSE UNCHANGED <<entries, totalBytes>>

-----------------------------------------------------------------------------
\* handle()

SaveSetting ==
    /\ setting' \in Lifetimes \ {setting}
    /\ UNCHANGED <<cacheVars, request>>

Becomes(r, record) == request' = [request EXCEPT ![r] = record]

\* authenticate() reads the settings; what follows awaits before it uses them.
\* Only a request that cacheLookupFor() finds fit has a key.
Plan(r) ==
    /\ request[r].pc = "idle"
    /\ \/ Becomes(r, [pc |-> "planned", lifetime |-> setting])
       \/ \E k \in CacheKeys, m \in MaxAges \cup {NoMaxAge} :
             Becomes(r, [pc |-> "planned", lifetime |-> setting, key |-> k, maxAge |-> m])
    /\ UNCHANGED <<setting, cacheVars>>

Fit(r) == "key" \in DOMAIN request[r]
Asks(r) == Fit(r) /\ request[r].lifetime > 0 /\ MaxBytes > 0

Looked(r) ==
    LET c == SetTtlMs(request[r].lifetime)
    IN IF Asks(r) THEN Get(c, request[r].lifetime, request[r].key, request[r].maxAge)
       ELSE [hit |-> FALSE, cache |-> c]

\* No await lies between the lifetime's change and the lookup.
LookUp(r) ==
    /\ request[r].pc = "planned"
    /\ ttl' = request[r].lifetime
    /\ entries' = Looked(r).cache.entries
    /\ totalBytes' = Looked(r).cache.bytes
    /\ Becomes(r, IF Looked(r).hit THEN Idle
                  ELSE IF Asks(r) THEN [pc |-> "fetching", key |-> request[r].key]
                  ELSE [pc |-> "fetching"])
    /\ UNCHANGED setting

\* captureForCache(): only a Cloud answer of 200 that is streamed JSON is split.
\* Any other answer is sent as it is, from a buffer or as a stream.
Dispatched(r) ==
    /\ request[r].pc = "fetching"
    /\ \/ Becomes(r, Idle)
       \/ Becomes(r, [pc |-> "client"])
       \/ /\ Fit(r)
          /\ \E body \in Bodies :
                Becomes(r, [pc |-> "both", key |-> request[r].key, body |-> body,
                            held |-> 0, abandoned |-> FALSE])
    /\ UNCHANGED <<setting, cacheVars>>

-----------------------------------------------------------------------------
\* The streamed answer.

Collects(r) == request[r].pc \in {"both", "collector"}
Collecting(r) == Collects(r) /\ ~request[r].abandoned
ClientReads(r) == request[r].pc \in {"client", "both"}

\* The upstream is cancelled once neither branch is read any more.
UpstreamOpen(r) == ClientReads(r) \/ Collecting(r)

Abandoned(c) == [c EXCEPT !.abandoned = TRUE, !.held = 0]

\* One turn of the read loop; more than an entry may hold is given up at once.
Sends(r) ==
    LET c == request[r] IN
    /\ Collecting(r)
    /\ c.held < c.body.length
    /\ Becomes(r, IF c.held + 1 > MaxEntry THEN Abandoned(c) ELSE [c EXCEPT !.held = @ + 1])
    /\ UNCHANGED <<setting, cacheVars>>

\* Mutant: the flag is looked for in the text instead of parsing it.
SuccessfulByText(c) == c.held > 0 /\ c.body.success

\* A body that was cut off does not parse.
Successful(c) == c.held = c.body.length /\ c.body.success

\* The upstream ends the body: all of it, or, without an error, less than that.
UpstreamEnds(r) ==
    LET c == request[r] IN
    /\ UpstreamOpen(r)
    /\ IF Collecting(r) /\ Successful(c)
       THEN Store([key |-> c.key, size |-> c.held, age |-> 0, body |-> c.body])
       ELSE UNCHANGED <<entries, totalBytes>>
    /\ Becomes(r, IF ClientReads(r) THEN [pc |-> "draining"] ELSE Idle)
    /\ UNCHANGED <<setting, ttl>>

\* The body ends with an error: nothing is stored, and sendProxyResponse() rejects
\* with the hijacked answer still open, for as long as its client waits.
UpstreamFails(r) ==
    /\ UpstreamOpen(r)
    /\ Becomes(r, IF ClientReads(r) THEN [pc |-> "stranded"] ELSE Idle)
    /\ UNCHANGED <<setting, cacheVars>>

\* The timeout of the upstream call; cleanup() disarms it when the client has ended.
UpstreamTimeout(r) == ClientReads(r) /\ UpstreamFails(r)

\* The client has read all there is, or went away.
ClientEnds(r) ==
    /\ ClientReads(r) \/ request[r].pc \in {"draining", "stranded"}
    /\ Becomes(r, IF Collects(r) THEN [request[r] EXCEPT !.pc = "collector"] ELSE Idle)
    /\ UNCHANGED <<setting, cacheVars>>

\* Mutant: the collector gives up only while the client reads.
AbandonWithClient(r) ==
    /\ Collecting(r) /\ ClientReads(r)
    /\ Becomes(r, Abandoned(request[r]))
    /\ UNCHANGED <<setting, cacheVars>>

\* The collector's own timer.
Abandon(r) ==
    /\ Collecting(r)
    /\ Becomes(r, Abandoned(request[r]))
    /\ UNCHANGED <<setting, cacheVars>>

\* The pending read answers done, and the flag is set.
CollectorReturns(r) ==
    /\ Collects(r) /\ request[r].abandoned
    /\ Becomes(r, IF ClientReads(r) THEN [pc |-> "client"] ELSE Idle)
    /\ UNCHANGED <<setting, cacheVars>>

Stream(r) ==
    \/ Sends(r) \/ UpstreamEnds(r) \/ UpstreamFails(r)
    \/ ClientEnds(r) \/ Abandon(r) \/ CollectorReturns(r)

Tick ==
    /\ \E i \in DOMAIN entries : entries[i].age < Longest
    /\ entries' = [i \in DOMAIN entries |->
                     [entries[i] EXCEPT !.age = IF @ < Longest THEN @ + 1 ELSE @]]
    /\ UNCHANGED <<setting, ttl, totalBytes, request>>

CacheNext ==
    \/ SaveSetting \/ Tick
    \/ \E r \in Requests : Plan(r) \/ LookUp(r) \/ Dispatched(r) \/ Stream(r)

CacheSpec == CacheInit /\ [][CacheNext]_requestVars

\* An idle connection is used again and calls return; of a stream nothing is certain
\* but that an armed timer fires: upstream and client may stall, together or alone.
CacheFairness ==
    \A r \in Requests :
        /\ WF_requestVars(Plan(r) \/ LookUp(r) \/ Dispatched(r))
        /\ WF_requestVars(UpstreamTimeout(r))
        /\ WF_requestVars(Abandon(r))

-----------------------------------------------------------------------------
\* Properties.

\* Only the complete body of a successful scrape is ever served again: not what
\* was collected before a timer fired, the body outgrew an entry, or the upstream
\* failed or ended early.
CachedIsWhole ==
    \A i \in DOMAIN entries :
        /\ entries[i].size = entries[i].body.length
        /\ entries[i].body.success
        /\ entries[i].size <= MaxEntry

\* The count of bytes never drifts from the bodies that are kept, whatever is
\* replaced, refreshed, expired, evicted or dropped, and stays within its bound.
BytesCounted == totalBytes = Bytes(entries) /\ totalBytes <= MaxBytes

\* Once the administrator has turned the cache off for good, the requests that
\* follow empty it for good, although requests that read the setting before apply
\* their lifetime later and answers collected meanwhile end later.
OffMeansEmpty ==
    (<>[](setting = 0) /\ []<><<\E r \in Requests : LookUp(r)>>_requestVars)
        => <>[](entries = <<>>)

\* No upstream is kept open for ever, even if it stalls after the client went away
\* and only the collector is left.
UpstreamsReleased == \A r \in Requests : UpstreamOpen(r) ~> ~UpstreamOpen(r)
=============================================================================

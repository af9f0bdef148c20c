------------------------------ MODULE Settings ------------------------------
(***************************************************************************)
(* The runtime settings as one gateway instance sees them: the table in    *)
(* Postgres, the cache in front of it (settings.service.ts), the requests  *)
(* that read it and encrypt a plaintext record they meet (cloud-keys.ts,   *)
(* getCloudKeyEntries() of proxy.service.ts), and the administrators' reads *)
(* and saves (settings.controller.ts).  Other instances write the same     *)
(* table without this instance hearing of it.                              *)
(*                                                                         *)
(* A stored value is named by the save that wrote it (ver) and by whether  *)
(* it is encrypted.  Saving a setting always writes a value never stored   *)
(* before, as the encryption of a secret draws a fresh nonce.              *)
(***************************************************************************)
EXTENDS Integers, Sequences

CONSTANTS Names,      \* the settings
          Secret,     \* firecrawl_api_keys, the one that may be plaintext
          Reads,      \* calls of getSettings() and list() that can be in progress
          Batches,    \* the settings that one caller asks for together
          Updates,    \* what a PUT may hold, in its order
          Ttl,        \* how long the cache keeps a value, in ticks
          MaxSaves,   \* bound: saves of one setting
          MaxFaults   \* bound: database calls that fail

Nobody == "nobody"

ASSUME NamesAssumption == /\ Secret \in Names /\ Nobody \notin Reads
                          /\ Batches \subseteq SUBSET Names /\ {Secret} \in Batches
                          /\ Updates \subseteq Seq(Names) \ {<<>>}
ASSUME BoundsAssumption == Ttl \in Nat \ {0} /\ MaxSaves \in Nat /\ MaxFaults \in Nat

VARIABLES table,      \* the rows in Postgres
          cache,      \* cache, without entries that have expired
          inflight,   \* inflight: the read that asks for the setting, or Nobody
          read,       \* the calls in progress
          batch,      \* per call: its query, if it sent one
          put,        \* the PUT in progress
          parsed,     \* cloudKeysCache.value: the row whose entries are kept, if any
          saved,      \* history: the newest save whose caller has its answer
          faults

vars == <<table, cache, inflight, read, batch, put, parsed, saved, faults>>

Rows == [ver : 0..MaxSaves, enc : BOOLEAN]
NotCached == [left |-> 0]
Entries == {NotCached} \cup [left : 1..Ttl, row : Rows]

Partial(S, T) == UNION {[D -> T] : D \in SUBSET S}
Empty == [k \in {} |-> 0]

Idle == [pc |-> "idle"]
Failed == [pc |-> "failed"]
\* floor: what was saved when the call began.  from: the calls whose query the
\* settings still missing come from.
Reading ==
    [pc : {"reading"}, floor : Partial(Names, 0..MaxSaves),
     from : Partial(Names, Reads), got : Partial(Names, Rows)]
\* Encrypting: holding a plaintext row; Replacing: the database has answered.
Holding == [pc : {"encrypting", "replacing"}, row : Rows, proxied : BOOLEAN]

Calls == {Idle, Failed} \cup Reading \cup Holding

NoQuery == [names |-> {}, rows |-> Empty]
Queries == UNION {[names : {N}, rows : {Empty} \cup [N -> Rows]] : N \in SUBSET Names}

Todo == Seq(Names) \ {<<>>}
Puts == {Idle} \cup [pc : {"saving"}, todo : Todo]
               \cup [pc : {"upserted"}, todo : Todo, ver : 0..MaxSaves]

TypeOK ==
    /\ table \in [Names -> Rows]
    /\ cache \in [Names -> Entries]
    /\ inflight \in [Names -> Reads \cup {Nobody}]
    /\ read \in [Reads -> Calls]
    /\ batch \in [Reads -> Queries]
    /\ put \in Puts
    /\ parsed \in {{}} \cup {{row} : row \in Rows}
    /\ saved \in [Names -> 0..MaxSaves]
    /\ faults \in 0..MaxFaults

Init ==
    /\ table \in {t \in [Names -> [ver : {0}, enc : BOOLEAN]] :
                    \A k \in Names : t[k].enc => k = Secret}
    /\ cache = [k \in Names |-> NotCached]
    /\ inflight = [k \in Names |-> Nobody]
    /\ read = [r \in Reads |-> Idle]
    /\ batch = [r \in Reads |-> NoQuery]
    /\ put = Idle
    /\ parsed = {}
    /\ saved = [k \in Names |-> 0]
    /\ faults = 0

Fault == faults < MaxFaults /\ faults' = faults + 1

-----------------------------------------------------------------------------
\* getSetting(), getSettings(), track()

Cached(B) == {k \in B : cache[k] # NotCached}
Joined(B) == {k \in B \ Cached(B) : inflight[k] # Nobody}
Missing(B) == B \ (Cached(B) \cup Joined(B))

Begin(r, B) ==
    /\ read[r] = Idle /\ batch[r] = NoQuery
    /\ read' = [read EXCEPT ![r] =
                  [pc |-> "reading", floor |-> [k \in B |-> saved[k]],
                   from |-> [k \in B \ Cached(B) |-> IF k \in Joined(B) THEN inflight[k] ELSE r],
                   got |-> [k \in Cached(B) |-> cache[k].row]]]
    /\ batch' = [batch EXCEPT ![r].names = Missing(B)]
    /\ inflight' = [k \in Names |-> IF k \in Missing(B) THEN r ELSE inflight[k]]
    /\ UNCHANGED <<table, cache, put, parsed, saved, faults>>

\* One query reads all the settings of a batch at the same moment.
Query(r) ==
    /\ batch[r].names # {} /\ batch[r].rows = Empty
    /\ batch' = [batch EXCEPT ![r].rows = [k \in batch[r].names |-> table[k]]]
    /\ UNCHANGED <<table, cache, inflight, read, put, parsed, saved, faults>>

Awaits(q, r) == read[q].pc = "reading" /\ \E k \in DOMAIN read[q].from : read[q].from[k] = r

Delivered(q, r) ==
    LET mine == {k \in DOMAIN read[q].from : read[q].from[k] = r}
    IN [pc |-> "reading", floor |-> read[q].floor,
        from |-> [k \in DOMAIN read[q].from \ mine |-> read[q].from[k]],
        got |-> [k \in DOMAIN read[q].got \cup mine |->
                   IF k \in mine THEN batch[r].rows[k] ELSE read[q].got[k]]]

Ended(r) == inflight' = [k \in Names |-> IF inflight[k] = r THEN Nobody ELSE inflight[k]]
\* A call that already failed has waited for its own query to end.
Gone(r) == IF read[r].pc = "failed" THEN Idle ELSE read[r]

\* The answer is cached only while this query is still the one in flight.
Arrive(r) ==
    /\ batch[r].rows # Empty
    /\ cache' = [k \in Names |-> IF inflight[k] = r
                                 THEN [left |-> Ttl, row |-> batch[r].rows[k]] ELSE cache[k]]
    /\ Ended(r)
    /\ batch' = [batch EXCEPT ![r] = NoQuery]
    /\ read' = [q \in Reads |-> IF Awaits(q, r) THEN Delivered(q, r)
                                ELSE IF q = r THEN Gone(q) ELSE read[q]]
    /\ UNCHANGED <<table, put, parsed, saved, faults>>

\* Every call that waits for the query fails with it, and need not wait for the
\* rest; one with a query of its own has that still running.
QueryFails(r) ==
    /\ batch[r].names # {}
    /\ Fault
    /\ Ended(r)
    /\ batch' = [batch EXCEPT ![r] = NoQuery]
    /\ read' = [q \in Reads |->
                  IF Awaits(q, r)
                  THEN IF q # r /\ batch[q] # NoQuery THEN Failed ELSE Idle
                  ELSE IF q = r THEN Gone(q) ELSE read[q]]
    /\ UNCHANGED <<table, cache, put, parsed, saved>>

-----------------------------------------------------------------------------
\* What a caller does with its settings: loadCloudKeyEntries(), behind
\* cloudKeysCache where the caller is a proxied request.

Returned(r) == read[r].pc = "reading" /\ read[r].from = Empty

\* Mutant: the entries are kept before the row is known to be encrypted.
UseKeepsFirst(r) ==
    /\ Returned(r)
    /\ \E proxied \in BOOLEAN :
          LET row == read[r].got[Secret]
              idle == \/ Secret \notin DOMAIN read[r].got
                      \/ row.enc \/ row \in parsed
          IN /\ read' = [read EXCEPT ![r] =
                  IF idle THEN Idle ELSE [pc |-> "encrypting", row |-> row, proxied |-> proxied]]
             /\ parsed' = IF Secret \in DOMAIN read[r].got THEN {row} ELSE parsed
    /\ UNCHANGED <<table, cache, inflight, batch, put, saved, faults>>

Use(r) ==
    /\ Returned(r)
    /\ \E proxied \in BOOLEAN :
          LET row == read[r].got[Secret]
              idle == \/ Secret \notin DOMAIN read[r].got
                      \/ row.enc \/ (proxied /\ row \in parsed)
          IN /\ read' = [read EXCEPT ![r] =
                  IF idle THEN Idle ELSE [pc |-> "encrypting", row |-> row, proxied |-> proxied]]
             /\ parsed' = IF Secret \in DOMAIN read[r].got /\ proxied /\ row.enc
                          THEN {row} ELSE parsed
    /\ UNCHANGED <<table, cache, inflight, batch, put, saved, faults>>

\* list() reads the table itself, and encrypts what it finds in plaintext.
List(r) ==
    /\ read[r] = Idle /\ batch[r] = NoQuery
    /\ ~table[Secret].enc
    /\ read' = [read EXCEPT ![r] =
                  [pc |-> "encrypting", row |-> table[Secret], proxied |-> FALSE]]
    /\ UNCHANGED <<table, cache, inflight, batch, put, parsed, saved, faults>>

Encrypted(row) == [row EXCEPT !.enc = TRUE]

\* Mutant: the row is replaced whatever it holds by now.
EncryptAnyway(r) ==
    /\ read[r].pc = "encrypting"
    /\ table' = [table EXCEPT ![Secret] = Encrypted(read[r].row)]
    /\ read' = [read EXCEPT ![r].pc = "replacing"]
    /\ UNCHANGED <<cache, inflight, batch, put, parsed, saved, faults>>

\* replaceSettingIfUnchanged()
Encrypt(r) ==
    /\ read[r].pc = "encrypting"
    /\ table' = IF table[Secret] = read[r].row
                THEN [table EXCEPT ![Secret] = Encrypted(read[r].row)] ELSE table
    /\ read' = [read EXCEPT ![r].pc = "replacing"]
    /\ UNCHANGED <<cache, inflight, batch, put, parsed, saved, faults>>

Forget(k) ==
    /\ cache' = [cache EXCEPT ![k] = NotCached]
    /\ inflight' = [inflight EXCEPT ![k] = Nobody]

Replaced(r) ==
    /\ read[r].pc = "replacing"
    /\ Forget(Secret)
    /\ parsed' = IF read[r].proxied THEN {read[r].row} ELSE parsed
    /\ read' = [read EXCEPT ![r] = Idle]
    /\ UNCHANGED <<table, batch, put, saved, faults>>

\* The database may have replaced the row all the same ("replacing").
EncryptFails(r) ==
    /\ read[r].pc \in {"encrypting", "replacing"}
    /\ Fault
    /\ read' = [read EXCEPT ![r] = Idle]
    /\ UNCHANGED <<table, cache, inflight, batch, put, parsed, saved>>

-----------------------------------------------------------------------------
\* update(): an accepted PUT saves its settings one after the other, in the
\* order they came in.  A rejected one has changed nothing.

Stored(k) == [ver |-> table[k].ver + 1, enc |-> k = Secret]

Update ==
    /\ put = Idle
    /\ \E todo \in Updates : put' = [pc |-> "saving", todo |-> todo]
    /\ UNCHANGED <<table, cache, inflight, read, batch, parsed, saved, faults>>

Upsert ==
    /\ put.pc = "saving"
    /\ LET k == Head(put.todo)
       IN /\ table[k].ver < MaxSaves
          /\ table' = [table EXCEPT ![k] = Stored(k)]
          /\ put' = [pc |-> "upserted", todo |-> put.todo, ver |-> table[k].ver + 1]
    /\ UNCHANGED <<cache, inflight, read, batch, parsed, saved, faults>>

\* Mutant: a read in flight goes on to serve those that come after the save.
UpsertedKeepsInflight ==
    /\ put.pc = "upserted"
    /\ LET k == Head(put.todo)
       IN /\ cache' = [cache EXCEPT ![k] = NotCached]
          /\ saved' = [saved EXCEPT ![k] = IF put.ver > @ THEN put.ver ELSE @]
    /\ put' = IF Len(put.todo) = 1 THEN Idle ELSE [pc |-> "saving", todo |-> Tail(put.todo)]
    /\ UNCHANGED <<table, inflight, read, batch, parsed, faults>>

Upserted ==
    /\ put.pc = "upserted"
    /\ LET k == Head(put.todo)
       IN /\ Forget(k)
          /\ saved' = [saved EXCEPT ![k] = IF put.ver > @ THEN put.ver ELSE @]
    /\ put' = IF Len(put.todo) = 1 THEN Idle ELSE [pc |-> "saving", todo |-> Tail(put.todo)]
    /\ UNCHANGED <<table, read, batch, parsed, faults>>

\* What was saved before stays saved, and what was to follow is not.
UpsertFails ==
    /\ put.pc \in {"saving", "upserted"}
    /\ Fault
    /\ put' = Idle
    /\ UNCHANGED <<table, cache, inflight, read, batch, parsed, saved>>

\* A save at another instance.
SavedElsewhere(k) ==
    /\ table[k].ver < MaxSaves
    /\ table' = [table EXCEPT ![k] = Stored(k)]
    /\ UNCHANGED <<cache, inflight, read, batch, put, parsed, saved, faults>>

\* Mutant: an entry stays as long as it is in use.
TickUnlessUsed ==
    /\ \E k \in Names : cache[k] # NotCached
    /\ cache' = [k \in Names |->
                   IF \E r \in Reads : read[r].pc = "reading" /\ k \in DOMAIN read[r].got
                   THEN cache[k]
                   ELSE IF cache[k].left > 1
                        THEN [cache[k] EXCEPT !.left = @ - 1] ELSE NotCached]
    /\ UNCHANGED <<table, inflight, read, batch, put, parsed, saved, faults>>

Tick ==
    /\ \E k \in Names : cache[k] # NotCached
    /\ cache' = [k \in Names |-> IF cache[k].left > 1
                                 THEN [cache[k] EXCEPT !.left = @ - 1] ELSE NotCached]
    /\ UNCHANGED <<table, inflight, read, batch, put, parsed, saved, faults>>

ReadStep(r) ==
    \/ \E B \in Batches : Begin(r, B)
    \/ Query(r) \/ Arrive(r) \/ QueryFails(r) \/ Use(r)
    \/ List(r) \/ Encrypt(r) \/ Replaced(r) \/ EncryptFails(r)

Next ==
    \/ \E r \in Reads : ReadStep(r)
    \/ Update \/ Upsert \/ Upserted \/ UpsertFails
    \/ \E k \in Names : SavedElsewhere(k)
    \/ Tick

Spec == Init /\ [][Next]_vars

\* The database answers; time passes; requests keep arriving that need the
\* keys.  Only finitely many database calls fail.
Fairness ==
    /\ \A r \in Reads :
          WF_vars(Query(r)) /\ WF_vars(Arrive(r)) /\ WF_vars(Use(r))
          /\ WF_vars(Encrypt(r)) /\ WF_vars(Replaced(r))
    /\ \E r \in Reads : WF_vars(Begin(r, {Secret}))
    /\ WF_vars(Tick)

FairSpec == Spec /\ Fairness

-----------------------------------------------------------------------------
\* Properties.

\* A read that begins after a save was answered never returns an older value,
\* although reads that began earlier are in flight and share their answers.
ReadYourSaves ==
    \A r \in Reads : read[r].pc = "reading" =>
        \A k \in DOMAIN read[r].got : read[r].got[k].ver >= read[r].floor[k]

\* No stored value ever gives way to an older one: encrypting what a request
\* read in plaintext never undoes a save, not even one at another instance.
SavesSurvive == [][\A k \in Names : table'[k].ver >= table[k].ver]_vars

\* Whatever was read and cached before, each instance comes to see the values
\* in the table, and no older one any more.
CachesConverge ==
    <>[](\A k \in Names : cache[k] # NotCached => cache[k].row = table[k])

\* As long as keys are asked for, a legacy plaintext record ends up encrypted,
\* although the entries it holds are kept and attempts to encrypt it fail.
LegacyEncrypted == <>[](table[Secret].enc)
=============================================================================

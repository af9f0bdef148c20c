---------------------------- MODULE KeyValidation ----------------------------
(***************************************************************************)
(* Validation of one virtual API key (api-keys/api-keys.service.ts) by the *)
(* instances that share its row: a cache with a time to live, reads of the *)
(* row that other requests join, and the changes an administrator or the   *)
(* maintenance job make meanwhile.                                         *)
(*                                                                         *)
(* A row is known by its version and whether it is revoked; a revoked one  *)
(* is not found.  A query and a change are two steps each: what PostgreSQL *)
(* does, and what the instance does with the answer.                       *)
(***************************************************************************)
EXTENDS Naturals

CONSTANTS Instances, Requests,
          TTL,         \* ticks of API_KEY_VALIDATION_CACHE_TTL_MS
          MaxChanges,  \* bound: changes of the row
          None

ASSUME TTLAssumption == TTL \in Nat /\ MaxChanges \in Nat
ASSUME NoneAssumption == None \notin Requests

VARIABLES row,      \* api_keys: [version, revoked]
          cache,    \* per instance: validationCache, [value, age] or None
          inflight, \* per instance: validationInFlight, the request that reads
          request,  \* the requests that validate the key
          pending,  \* per instance: changes committed and not yet answered
          acked     \* history: the last change each instance has answered

vars == <<row, cache, inflight, request, pending, acked>>

Versions == 0..MaxChanges
Rows == [version : Versions, revoked : BOOLEAN]

\* `read' is the request whose query a request waits for, `value' what it found;
\* `floor' is history: the last change its instance had answered when it began.
Idle == [pc |-> "idle"]
RequestStates ==
    [pc : {"idle"}]
    \cup [pc : {"waiting"}, at : Instances, read : Requests, value : Rows \cup {None},
          floor : Versions]
    \cup [pc : {"done"}, at : Instances, value : Rows, floor : Versions]

Reads(r, i) == request[r].pc = "waiting" /\ request[r].at = i /\ request[r].read = r

TypeOK ==
    /\ row \in Rows
    /\ cache \in [Instances -> [value : Rows, age : 0..TTL] \cup {None}]
    /\ inflight \in [Instances -> Requests \cup {None}]
    /\ \A i \in Instances : inflight[i] # None => Reads(inflight[i], i)
    /\ request \in [Requests -> RequestStates]
    /\ pending \in [Instances -> SUBSET Versions]
    /\ acked \in [Instances -> Versions]

Init ==
    /\ row = [version |-> 0, revoked |-> FALSE]
    /\ cache = [i \in Instances |-> None]
    /\ inflight = [i \in Instances |-> None]
    /\ request = [r \in Requests |-> Idle]
    /\ pending = [i \in Instances |-> {}]
    /\ acked = [i \in Instances |-> 0]

-----------------------------------------------------------------------------
\* validateApiKey()

Cached(i) == IF cache[i] = None THEN FALSE ELSE cache[i].age < TTL

\* Mutant: a hit renews the entry.
AnswerFromCacheRenewed(r, i) ==
    /\ Cached(i)
    /\ request' = [request EXCEPT ![r] =
                     [pc |-> "done", at |-> i, value |-> cache[i].value, floor |-> acked[i]]]
    /\ cache' = [cache EXCEPT ![i].age = 0]
    /\ UNCHANGED inflight

AnswerFromCache(r, i) ==
    /\ Cached(i)
    /\ request' = [request EXCEPT ![r] =
                     [pc |-> "done", at |-> i, value |-> cache[i].value, floor |-> acked[i]]]
    /\ UNCHANGED <<cache, inflight>>

JoinOrRead(r, i) ==
    LET reader == IF inflight[i] = None THEN r ELSE inflight[i]
    IN /\ ~Cached(i)
       /\ cache' = [cache EXCEPT ![i] = None]
       /\ inflight' = [inflight EXCEPT ![i] = reader]
       /\ request' = [request EXCEPT ![r] =
                        [pc |-> "waiting", at |-> i, read |-> reader, value |-> None,
                         floor |-> acked[i]]]

ValidateApiKey(r, i) ==
    /\ request[r].pc = "idle"
    /\ AnswerFromCache(r, i) \/ JoinOrRead(r, i)
    /\ UNCHANGED <<row, pending, acked>>

\* PostgreSQL runs the query of r.
Find(r) ==
    /\ request[r].pc = "waiting" /\ request[r].read = r /\ request[r].value = None
    /\ request' = [request EXCEPT ![r].value = row]
    /\ UNCHANGED <<row, cache, inflight, pending, acked>>

Readers(r) == {q \in Requests : request[q].pc = "waiting" /\ request[q].read = r}

\* Mutant: the answer is cached whatever happened meanwhile.
RecordValidationAlways(r, i) ==
    /\ cache' = [cache EXCEPT ![i] = [value |-> request[r].value, age |-> 0]]
    /\ inflight' = [inflight EXCEPT ![i] = IF @ = r THEN None ELSE @]

\* Only the read that is still the one in flight is cached.
RecordValidation(r, i) ==
    /\ cache' = IF inflight[i] = r
                THEN [cache EXCEPT ![i] = [value |-> request[r].value, age |-> 0]]
                ELSE cache
    /\ inflight' = [inflight EXCEPT ![i] = IF @ = r THEN None ELSE @]

Found(r) ==
    /\ request[r].pc = "waiting" /\ request[r].read = r /\ request[r].value # None
    /\ RecordValidation(r, request[r].at)
    /\ request' = [q \in Requests |->
                     IF q \in Readers(r)
                     THEN [pc |-> "done", at |-> request[q].at, value |-> request[r].value,
                           floor |-> request[q].floor]
                     ELSE request[q]]
    /\ UNCHANGED <<row, pending, acked>>

\* Mutant: the failed read stays in flight.
FindFailsUnforgotten(r) ==
    /\ request[r].pc = "waiting" /\ request[r].read = r
    /\ request' = [q \in Requests |-> IF q \in Readers(r) THEN Idle ELSE request[q]]
    /\ UNCHANGED <<row, cache, inflight, pending, acked>>

\* The query fails, with everybody who waits for it.
FindFails(r) ==
    /\ request[r].pc = "waiting" /\ request[r].read = r
    /\ inflight' = [inflight EXCEPT ![request[r].at] = IF @ = r THEN None ELSE @]
    /\ request' = [q \in Requests |-> IF q \in Readers(r) THEN Idle ELSE request[q]]
    /\ UNCHANGED <<row, cache, pending, acked>>

\* The request goes on with its key, or is rejected.
Leave(r) ==
    /\ request[r].pc = "done"
    /\ request' = [request EXCEPT ![r] = Idle]
    /\ UNCHANGED <<row, cache, inflight, pending, acked>>

-----------------------------------------------------------------------------
\* Changes of the row.

Changed(revoked) == [version |-> row.version + 1, revoked |-> row.revoked \/ revoked]

\* updateApiKeyLimits() and revokeApiKey() at PostgreSQL.
Change(i) ==
    /\ row.version < MaxChanges
    /\ \E revoked \in BOOLEAN : row' = Changed(revoked)
    /\ pending' = [pending EXCEPT ![i] = @ \cup {row'.version}]
    /\ UNCHANGED <<cache, inflight, request, acked>>

\* The rest of both, once PostgreSQL has answered.
ChangeAnswered(i) ==
    \E v \in pending[i] :
        /\ pending' = [pending EXCEPT ![i] = @ \ {v}]
        /\ acked' = [acked EXCEPT ![i] = IF @ > v THEN @ ELSE v]
        /\ cache' = [cache EXCEPT ![i] = None]
        /\ inflight' = [inflight EXCEPT ![i] = None]
        /\ UNCHANGED <<row, request>>

\* The answer is lost: the call throws and leaves the cache as it is.
ChangeLost(i) ==
    /\ \E v \in pending[i] : pending' = [pending EXCEPT ![i] = @ \ {v}]
    /\ UNCHANGED <<row, cache, inflight, request, acked>>

\* The maintenance job revokes inactive keys, past every cache.
RevokeInactiveKeys ==
    /\ ~row.revoked
    /\ row.version < MaxChanges
    /\ row' = Changed(TRUE)
    /\ UNCHANGED <<cache, inflight, request, pending, acked>>

Tick(i) ==
    /\ Cached(i)
    /\ cache' = [cache EXCEPT ![i].age = @ + 1]
    /\ UNCHANGED <<row, inflight, request, pending, acked>>

\* recordValidation() for another key pushes this one out of the cache.
Evict(i) ==
    /\ cache[i] # None
    /\ cache' = [cache EXCEPT ![i] = None]
    /\ UNCHANGED <<row, inflight, request, pending, acked>>

Next ==
    \/ \E r \in Requests : \/ \E i \in Instances : ValidateApiKey(r, i)
                           \/ Find(r) \/ Found(r) \/ FindFails(r) \/ Leave(r)
    \/ \E i \in Instances : \/ Change(i) \/ ChangeAnswered(i) \/ ChangeLost(i)
                            \/ Tick(i) \/ Evict(i)
    \/ RevokeInactiveKeys

Spec == Init /\ [][Next]_vars

\* Time passes, queries end, requests go on.
Fairness ==
    /\ \A i \in Instances : WF_vars(Tick(i))
    /\ \A r \in Requests : WF_vars(Find(r)) /\ WF_vars(Found(r)) /\ WF_vars(Leave(r))

FairSpec == Spec /\ Fairness

-----------------------------------------------------------------------------
\* Properties.

\* README.md:41 and the comment on updateApiKeyLimits(): a change takes effect
\* immediately on the instance that handled it.  A request that begins after the
\* change was answered never sees the key as it was before, not by way of a read
\* that was in flight at the time either.
ChangeTakesEffect ==
    \A r \in Requests : request[r].pc = "done" => request[r].value.version >= request[r].floor

\* A revoked key is let in no more, after a while, on any instance: neither the
\* maintenance job's revocation nor one whose answer was lost is missed for ever,
\* however busy the key is.
RevocationSpreads ==
    row.revoked ~> [](\A r \in Requests : request[r].pc = "done" => request[r].value.revoked)

\* Every validation ends, those that joined the read of another as well.
ValidationsEnd ==
    \A r \in Requests : request[r].pc = "waiting" ~> request[r].pc # "waiting"

\* Validation promises what FreshReads says of the row's version: an answer is a version
\* that was stored, no older than the change its instance had answered when the request
\* began, whether it came from the cache, from the row or from another's read.
Viewed(q) ==
    CASE q.pc = "idle"    -> [pc |-> "idle"]
      [] q.pc = "waiting" -> [pc |-> "open", floor |-> q.floor]
      [] q.pc = "done"    -> [pc |-> "answered", floor |-> q.floor, version |-> q.value.version]

Views == [r \in Requests |-> Viewed(request[r])]

Promise == INSTANCE FreshReads WITH
    Calls <- Requests, newest <- row.version, heard <- acked,
    call <- Views

ServesFresh == Promise!Spec
=============================================================================

---------------------------- MODULE CreditRouting ----------------------------
(***************************************************************************)
(* The gateway instances around the shared credit ledger                   *)
(* (credits/credit-routing.service.ts): each request reserves a Cloud key, *)
(* is sent to Firecrawl Cloud, and settles its reservation by the answer;  *)
(* meanwhile refreshes read Cloud's own count of a key's credits and       *)
(* reconcile the ledger with it.  Redis may stop answering at any moment   *)
(* (an operation is given up after 750 ms, whether or not its script ran), *)
(* and an instance may be restarted at any moment.                         *)
(***************************************************************************)
EXTENDS CreditLedger

CONSTANTS Instances,    \* API instances sharing one Redis
          Requests,     \* Cloud calls that can be in flight
          Allowance,    \* the credits a key has after it renews
          Local         \* stands for no UUID: the reservation is not in Redis

ASSUME AllowanceAssumption == Allowance \in Nat /\ 0..Allowance \subseteq Snapshots
ASSUME LocalAssumption == Local \notin Ids

VARIABLES remaining,      \* per key: the credits Cloud itself counts
          request,        \* per Cloud call: how far it is
          refresh,        \* per instance and key: creditUsageInFlight
          localDisabled,  \* <<instance, key>> pairs; likewise localCooling
          localCooling,
          redisDown       \* instances whose redisUnavailableUntil lies ahead

gatewayVars == <<remaining, request, refresh, localDisabled, localCooling, redisDown>>
vars == <<ledgerVars, gatewayVars>>

Statuses == {"ok", "402", "429", "401", "other"}
Unreported == -1      \* the answer names no creditsUsed
NotCaptured == -1     \* the sequence could not be captured

IdleRequest == [pc |-> "idle"]
SentRequest(i, k, id) == [pc |-> "sent", at |-> i, key |-> k, id |-> id]
AnsweredRequest(q, status, used) ==
    [pc |-> "answered", at |-> q.at, key |-> q.key, id |-> q.id,
     status |-> status, used |-> used]

RequestStates ==
    [pc : {"idle"}]
    \cup [pc : {"sent"}, at : Instances, key : Keys, id : Ids \cup {Local}]
    \cup [pc : {"answered"}, at : Instances, key : Keys, id : Ids \cup {Local},
          status : Statuses, used : Usages \cup {Unreported}]

IdleRefresh == [pc |-> "idle"]
RefreshStates ==
    [pc : {"idle"}]
    \cup [pc : {"captured"}, sequence : Nat \cup {NotCaptured}]
    \cup [pc : {"fetched"}, sequence : Nat \cup {NotCaptured}, snapshot : 0..Allowance]

TypeOK ==
    /\ LedgerTypeOK
    /\ remaining \in [Keys -> 0..Allowance]
    /\ request \in [Requests -> RequestStates]
    /\ refresh \in [Instances \X Keys -> RefreshStates]
    /\ localDisabled \subseteq Instances \X Keys
    /\ localCooling \subseteq Instances \X Keys
    /\ redisDown \subseteq Instances

Init ==
    /\ LedgerInit
    /\ remaining = [k \in Keys |-> Allowance]
    /\ request = [r \in Requests |-> IdleRequest]
    /\ refresh = [p \in Instances \X Keys |-> IdleRefresh]
    /\ localDisabled = {}
    /\ localCooling = {}
    /\ redisDown = {}

-----------------------------------------------------------------------------
\* reserve()

\* The keys instance i may offer: a request leaves out those it already tried.
CandidateSets(i) ==
    {C \in SUBSET Keys : /\ C # {}
                         /\ \A k \in C : <<i, k>> \notin localDisabled \cup localCooling}

\* No transition stands for an answer of "no-capacity": reserve() returns null
\* and nothing changes.
ReserveInRedis(r, i) ==
    /\ request[r].pc = "idle"
    /\ i \notin redisDown
    /\ \E C \in CandidateSets(i) : \E k \in C :
          \E id \in Ids :
             /\ ReserveScript(C, k, id)
             /\ request' = [request EXCEPT ![r] = SentRequest(i, k, id)]
    /\ UNCHANGED <<remaining, refresh, localDisabled, localCooling, redisDown>>

\* The script ran but its answer came too late: the reservation has no owner.
ReserveOrphaned(r, i) ==
    /\ request[r].pc = "idle"
    /\ i \notin redisDown
    /\ \E C \in CandidateSets(i) :
          /\ \E k \in C, id \in Ids : ReserveScript(C, k, id)
          /\ \E k \in C : request' = [request EXCEPT ![r] = SentRequest(i, k, Local)]
    /\ redisDown' = redisDown \cup {i}
    /\ UNCHANGED <<remaining, refresh, localDisabled, localCooling>>

\* Redis is not asked, does not answer, or knows none of the keys.
ReserveLocally(r, i) ==
    /\ request[r].pc = "idle"
    /\ \E C \in CandidateSets(i) : \E k \in C :
          request' = [request EXCEPT ![r] = SentRequest(i, k, Local)]
    /\ redisDown' = redisDown \cup {i}
    /\ UNCHANGED <<ledgerVars, remaining, refresh, localDisabled, localCooling>>

RedisRetried(i) ==
    /\ i \in redisDown
    /\ redisDown' = redisDown \ {i}
    /\ UNCHANGED <<ledgerVars, remaining, request, refresh, localDisabled, localCooling>>

-----------------------------------------------------------------------------
\* Firecrawl Cloud

Answer(r, status, used) ==
    request' = [request EXCEPT ![r] = AnsweredRequest(request[r], status, used)]

CloudServes(r) ==
    /\ request[r].pc = "sent"
    /\ \E used \in Usages, reported \in BOOLEAN :
          /\ remaining[request[r].key] >= used
          /\ remaining' = [remaining EXCEPT ![request[r].key] = @ - used]
          /\ Answer(r, "ok", IF reported THEN used ELSE Unreported)
    /\ UNCHANGED <<ledgerVars, refresh, localDisabled, localCooling, redisDown>>

CloudRefuses(r) ==
    /\ request[r].pc = "sent"
    /\ \E status \in Statuses \ {"ok"} :
          /\ status = "402" => remaining[request[r].key] = 0
          /\ Answer(r, status, Unreported)
    /\ UNCHANGED <<ledgerVars, remaining, refresh, localDisabled, localCooling, redisDown>>

CloudRenews(k) ==
    /\ remaining[k] < Allowance
    /\ remaining' = [remaining EXCEPT ![k] = Allowance]
    /\ UNCHANGED <<ledgerVars, request, refresh, localDisabled, localCooling, redisDown>>

-----------------------------------------------------------------------------
\* recordResponse()

Answered(r, status) == request[r].pc = "answered" /\ request[r].status = status
Site(r) == <<request[r].at, request[r].key>>

Finish(r) ==
    /\ request' = [request EXCEPT ![r] = IdleRequest]
    /\ UNCHANGED <<remaining, refresh, redisDown>>

\* The settlement runs in Redis, or does not reach it.
Settled(r, action) ==
    \/ request[r].id # Local /\ SettleScript(request[r].key, request[r].id, action)
    \/ UNCHANGED ledgerVars

RecordPaymentRequired(r) ==
    /\ Answered(r, "402")
    /\ localDisabled' = localDisabled \cup {Site(r)}
    /\ localCooling' = localCooling \ {Site(r)}
    /\ Settled(r, "disabled")
    /\ Finish(r)

RecordRateLimited(r) ==
    /\ Answered(r, "429")
    /\ localCooling' = localCooling \cup {Site(r)}
    /\ Settled(r, "cooldown")
    /\ Finish(r)
    /\ UNCHANGED localDisabled

RecordUnauthorized(r) ==
    /\ Answered(r, "401")
    /\ Settled(r, "refund")
    /\ Finish(r)
    /\ UNCHANGED <<localDisabled, localCooling>>

RecordUsage(r) ==
    /\ Answered(r, "ok")
    /\ request[r].used # Unreported
    /\ \/ /\ request[r].id # Local
          /\ ActualUsageScript(request[r].key, request[r].id, request[r].used)
       \/ UNCHANGED ledgerVars
    /\ Finish(r)
    /\ UNCHANGED <<localDisabled, localCooling>>

\* The reservation stays until a refresh: Cloud may have charged the request.
RecordNothing(r) ==
    /\ \/ Answered(r, "other")
       \/ Answered(r, "ok") /\ request[r].used = Unreported
    /\ Finish(r)
    /\ UNCHANGED <<ledgerVars, localDisabled, localCooling>>

Record(r) ==
    \/ RecordPaymentRequired(r) \/ RecordRateLimited(r) \/ RecordUnauthorized(r)
    \/ RecordUsage(r) \/ RecordNothing(r)

-----------------------------------------------------------------------------
\* refreshCreditUsage(): one refresh at a time per instance and key.

Capture(i, k) ==
    /\ refresh[<<i, k>>].pc = "idle"
    /\ refresh' = [refresh EXCEPT ![<<i, k>>] =
                     [pc |-> "captured", sequence |-> reserveSequence[k]]]
    /\ UNCHANGED <<ledgerVars, remaining, request, localDisabled, localCooling, redisDown>>

CaptureFails(i, k) ==
    /\ refresh[<<i, k>>].pc = "idle"
    /\ refresh' = [refresh EXCEPT ![<<i, k>>] =
                     [pc |-> "captured", sequence |-> NotCaptured]]
    /\ UNCHANGED <<ledgerVars, remaining, request, localDisabled, localCooling, redisDown>>

Fetch(i, k) ==
    /\ refresh[<<i, k>>].pc = "captured"
    /\ refresh' = [refresh EXCEPT ![<<i, k>>] =
                     [pc |-> "fetched", sequence |-> refresh[<<i, k>>].sequence,
                      snapshot |-> remaining[k]]]
    /\ UNCHANGED <<ledgerVars, remaining, request, localDisabled, localCooling, redisDown>>

FetchFails(i, k) ==
    /\ refresh[<<i, k>>].pc = "captured"
    /\ refresh' = [refresh EXCEPT ![<<i, k>>] = IdleRefresh]
    /\ UNCHANGED <<ledgerVars, remaining, request, localDisabled, localCooling, redisDown>>

\* Mutant: a refresh shuts a key out but never lets it in again.
EndRefreshNeverLifts(i, k) ==
    /\ refresh' = [refresh EXCEPT ![<<i, k>>] = IdleRefresh]
    /\ localDisabled' = IF refresh[<<i, k>>].snapshot > 0
                        THEN localDisabled
                        ELSE localDisabled \cup {<<i, k>>}
    /\ UNCHANGED <<remaining, request, localCooling, redisDown>>

EndRefresh(i, k) ==
    /\ refresh' = [refresh EXCEPT ![<<i, k>>] = IdleRefresh]
    /\ localDisabled' = IF refresh[<<i, k>>].snapshot > 0
                        THEN localDisabled \ {<<i, k>>}
                        ELSE localDisabled \cup {<<i, k>>}
    /\ UNCHANGED <<remaining, request, localCooling, redisDown>>

Reconcile(i, k) ==
    /\ refresh[<<i, k>>].pc = "fetched"
    /\ refresh[<<i, k>>].sequence # NotCaptured
    /\ ReconcileScript(k, refresh[<<i, k>>].snapshot, refresh[<<i, k>>].sequence)
    /\ EndRefresh(i, k)

ReconcileLost(i, k) ==
    /\ refresh[<<i, k>>].pc = "fetched"
    /\ EndRefresh(i, k)
    /\ UNCHANGED ledgerVars

-----------------------------------------------------------------------------
\* Time and crashes.

\* The time to live of a reservation exceeds the longest request by a minute.
ReservationExpires(k, id) ==
    /\ \A r \in Requests : ~(request[r].pc # "idle" /\ request[r].key = k /\ request[r].id = id)
    /\ Expire(k, id)
    /\ UNCHANGED gatewayVars

PoolCooldownEnds(k) ==
    /\ CooldownEnds(k)
    /\ UNCHANGED gatewayVars

LocalCooldownEnds(i, k) ==
    /\ <<i, k>> \in localCooling
    /\ localCooling' = localCooling \ {<<i, k>>}
    /\ UNCHANGED <<ledgerVars, remaining, request, refresh, localDisabled, redisDown>>

\* An instance restarts: its memory and its requests are gone, Redis is not.
Restart(i) ==
    /\ request' = [r \in Requests |->
                     IF request[r].pc # "idle" /\ request[r].at = i
                     THEN IdleRequest ELSE request[r]]
    /\ refresh' = [p \in Instances \X Keys |->
                     IF p[1] = i THEN IdleRefresh ELSE refresh[p]]
    /\ localDisabled' = {p \in localDisabled : p[1] # i}
    /\ localCooling' = {p \in localCooling : p[1] # i}
    /\ redisDown' = redisDown \ {i}
    /\ UNCHANGED <<ledgerVars, remaining>>

Next ==
    \/ \E r \in Requests :
          \/ \E i \in Instances :
                ReserveInRedis(r, i) \/ ReserveOrphaned(r, i) \/ ReserveLocally(r, i)
          \/ CloudServes(r) \/ CloudRefuses(r)
          \/ Record(r)
    \/ \E i \in Instances :
          \/ RedisRetried(i) \/ Restart(i)
          \/ \E k \in Keys :
                \/ Capture(i, k) \/ CaptureFails(i, k)
                \/ Fetch(i, k) \/ FetchFails(i, k)
                \/ Reconcile(i, k) \/ ReconcileLost(i, k)
                \/ LocalCooldownEnds(i, k)
    \/ \E k \in Keys :
          \/ CloudRenews(k) \/ PoolCooldownEnds(k)
          \/ \E id \in Ids : ReservationExpires(k, id)

Spec == Init /\ [][Next]_vars

\* Every Cloud call is answered (at the latest by its timeout) and recorded.
\* The maintenance job keeps refreshing every key, on whichever instance serves
\* it; the next step of a refresh that goes well, if it is possible again and
\* again, succeeds in the end: neither Redis nor Cloud is down for ever.
Fairness ==
    /\ \A r \in Requests :
          /\ WF_vars(CloudServes(r) \/ CloudRefuses(r))
          /\ WF_vars(Record(r))
    /\ \A k \in Keys :
          /\ SF_vars(\E i \in Instances : Capture(i, k))
          /\ SF_vars(\E i \in Instances :
                        Fetch(i, k) /\ refresh[<<i, k>>].sequence # NotCaptured)
          /\ SF_vars(\E i \in Instances : Reconcile(i, k))
          /\ \A i \in Instances :
                /\ WF_vars(Fetch(i, k) \/ FetchFails(i, k))
                /\ WF_vars(Reconcile(i, k) \/ ReconcileLost(i, k))

FairSpec == Spec /\ Fairness

-----------------------------------------------------------------------------
\* Properties.

Holds(r, k, id) == request[r].pc # "idle" /\ request[r].key = k /\ request[r].id = id

\* The reservation of a request in flight is only ever closed by that request,
\* or by a refresh that captured the sequence when it had already been made;
\* never by another request, by time, or by an older refresh.
ReservationHeld ==
    [][\A r \in Requests, k \in Keys : \A id \in open[k] \ open'[k] :
          Holds(r, k, id) =>
             \/ request'[r].pc = "idle"
             \/ \E i \in Instances : /\ refresh[<<i, k>>].pc = "fetched"
                                     /\ refresh'[<<i, k>>].pc = "idle"
                                     /\ refresh[<<i, k>>].sequence >= sequenceOf[id]]_vars

\* No reservation stays for ever in the sorted set of its pool, not even one
\* whose owner never heard of it or whose hash expired.
ReservationsDrain ==
    \A k \in Keys, id \in Ids : id \in tracked[k] ~> id \notin tracked[k]

Quiet == \A r \in Requests : request[r].pc = "idle"

\* Once no request is sent any more, the ledger comes to agree with Cloud and
\* stays so, whatever stale snapshots, lost settlements and orphaned
\* reservations went before.
LedgerConverges ==
    (<>[]Quiet) =>
        <>[](\A k \in Keys : known[k] /\ credits[k] = remaining[k] /\ reserved[k] = 0)

\* An instance that shut a key out comes to offer it again once Cloud reports
\* credits.  It takes a refresh of that same instance, so this is a property of
\* a gateway with one instance.
LocalDisableLifts ==
    \A k \in Keys :
        <>[](Quiet /\ remaining[k] > 0) =>
            <>[](\A i \in Instances : <<i, k>> \notin localDisabled)
=============================================================================

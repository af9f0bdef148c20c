---------------------------- MODULE ProxyRouting ----------------------------
(***************************************************************************)
(* How the gateway routes one request: ProxyService.handle() of            *)
(* proxy/proxy.service.ts with the decisions of proxy/policy.ts.  One      *)
(* action is one await: a rejection, or one attempt at an upstream with    *)
(* everything decided on its answer.  Other requests, the credit ledger    *)
(* and the circuit breaker decide which keys can be reserved and what      *)
(* every upstream answers; here all of that is free.                       *)
(***************************************************************************)
EXTENDS Integers, Sequences, RequestInspection

CONSTANT Keys      \* the Cloud API keys that can be configured

ASSUME KeysAssumption == "self-hosted" \notin Keys

Modes == {"self-hosted-first", "self-hosted-only", "cloud-first", "cloud-only", "hybrid"}
Roles == {"cloud", "fallback", "absent"}

\* A request, and what the settings it meets say of the mode and the keys.
RequestFacts ==
    [content : Requests, mode : Modes, role : [Keys -> Roles]]

\* The answers of the upstreams, as far as routing tells them apart.
Capacity == {"quota"}                       \* 402, 429
Retryable == Capacity \cup {"auth"}         \* and 401, 403
CloudAnswers == Retryable \cup {"final", "network"}
FallbackEligible == {"failing", "network", "circuit open"}
SelfHostedAnswers == FallbackEligible \cup {"final"}

VARIABLES pc,
          request,           \* the RequestFacts
          pool,              \* plan.cloudApiKeys
          reserve,           \* plan.fallbackApiKeys
          initialBackend,
          attempted,         \* plan.attemptedCloudKeyIds
          selfHostedAttempted,
          outcome,           \* the result in hand: [backend, answer]
          fallbackUsed,
          allQuota,          \* rotation: every attempt so far was out of quota
          response,          \* what the client got, or "none"
          trail              \* history: the attempts, in order

planVars == <<pool, reserve, initialBackend, request>>
vars == <<pc, request, pool, reserve, initialBackend, attempted,
          selfHostedAttempted, outcome, fallbackUsed, allQuota, response, trail>>

Backends == {"cloud", "self-hosted", "reject"}
Stages == {"authenticate", "plan", "cache", "dispatch", "eligible", "reserve",
           "rotate", "reserve after", "try reserve", "rotate reserve", "respond", "done"}
Rejections == {"401", "400", "409", "413", "429", "502"}
NoOutcome == [backend |-> "none", answer |-> "none"]

TypeOK ==
    /\ pc \in Stages
    /\ request \in RequestFacts
    /\ pool \subseteq Keys /\ reserve \subseteq Keys /\ attempted \subseteq Keys
    /\ initialBackend \in Backends
    /\ selfHostedAttempted \in BOOLEAN /\ fallbackUsed \in BOOLEAN /\ allQuota \in BOOLEAN
    /\ outcome \in {NoOutcome} \cup [backend : {"cloud"}, answer : CloudAnswers]
                               \cup [backend : {"self-hosted"}, answer : SelfHostedAnswers]
    /\ response \in {"none", "sent", "cache"} \cup Rejections
    /\ trail \in Seq(Keys \cup {"self-hosted"})

Init ==
    /\ pc = "authenticate"
    /\ request \in RequestFacts
    /\ pool = {} /\ reserve = {} /\ attempted = {}
    /\ initialBackend = "reject"
    /\ selfHostedAttempted = FALSE /\ fallbackUsed = FALSE /\ allQuota = FALSE
    /\ outcome = NoOutcome
    /\ response = "none"
    /\ trail = <<>>

-----------------------------------------------------------------------------
\* policy.ts

ChooseInitialBackend ==
    CASE request.mode \in {"cloud-first", "cloud-only", "hybrid"} -> "cloud"
      [] request.mode = "self-hosted-only" ->
            IF NeedsCloud(request.content) THEN "reject" ELSE "self-hosted"
      [] request.mode = "self-hosted-first" ->
            IF NeedsCloud(request.content) THEN "cloud" ELSE "self-hosted"

IsFallbackAllowed ==
    request.mode \in {"self-hosted-first", "hybrid"} /\ ~Sensitive(request.content)

MayUseCloudKeys(backend) ==
    \/ backend = "cloud"
    \/ backend = "self-hosted" /\ IsFallbackAllowed

\* Mutant: the mode is not looked at.
QuotaFallbackInAnyMode == ~NeedsCloud(request.content)

IsCloudQuotaFallbackAllowed ==
    request.mode \in {"cloud-first", "hybrid"} /\ ~NeedsCloud(request.content)

KeysWithRole(entries, role) == {k \in entries : request.role[k] = role}

\* Mutant: hybrid puts every key into one pool, as the other modes do.
SelectOnePool(backend, entries) == <<backend, entries, {}>>

\* selectKeyPools: the first backend, the pool and the reserve.
SelectKeyPools(backend, entries) ==
    LET cloud == KeysWithRole(entries, "cloud")
        fallback == KeysWithRole(entries, "fallback")
    IN CASE request.mode # "hybrid" -> <<backend, entries, {}>>
         [] request.mode = "hybrid" /\ cloud # {} -> <<backend, cloud, fallback>>
         [] request.mode = "hybrid" /\ cloud = {} ->
               <<IF NeedsCloud(request.content) THEN "cloud" ELSE "self-hosted", fallback, {}>>

-----------------------------------------------------------------------------
\* Before any upstream: createContext(), authenticate(), buildPlan().

RejectEarly(status) ==
    /\ response' = status
    /\ pc' = "done"
    /\ UNCHANGED <<request, pool, reserve, initialBackend, attempted,
                   selfHostedAttempted, outcome, fallbackUsed, allQuota, trail>>

Authenticate ==
    /\ pc = "authenticate"
    /\ \/ \E status \in {"400", "401", "429"} : RejectEarly(status)
       \/ /\ pc' = "plan"
          /\ UNCHANGED <<planVars, attempted, selfHostedAttempted, outcome,
                         fallbackUsed, allQuota, response, trail>>

\* The keys are not even loaded when policy keeps the request from Cloud; keys
\* that cannot be decrypted count as none.
BuildPlan ==
    /\ pc = "plan"
    /\ \/ \E status \in {"400", "413"} : RejectEarly(status)
       \/ \E loaded \in BOOLEAN :
             LET first == ChooseInitialBackend
                 configured == {k \in Keys : request.role[k] # "absent"}
                 entries == IF loaded /\ MayUseCloudKeys(first) THEN configured ELSE {}
                 plan == SelectKeyPools(first, entries)
             IN CASE plan[1] = "cloud" /\ plan[2] = {} -> RejectEarly("502")
                  [] plan[1] = "reject" -> RejectEarly("409")
                  [] OTHER ->
                        /\ initialBackend' = plan[1]
                        /\ pool' = plan[2]
                        /\ reserve' = plan[3]
                        /\ pc' = "cache"
                        /\ UNCHANGED <<request, attempted, selfHostedAttempted, outcome,
                                       fallbackUsed, allQuota, response, trail>>

\* What cacheLookupFor() asks besides is free: that this is a plain scrape, and
\* does not say that it is not to be cached.
CacheEligible ==
    /\ request.content.authEnabled /\ ~request.content.admin      \* apiKeyId
    /\ initialBackend = "cloud" /\ ~NeedsCloud(request.content)
    /\ ~Sensitive(request.content)

LookUpCache ==
    /\ pc = "cache"
    /\ \/ CacheEligible /\ response' = "cache" /\ pc' = "done"
       \/ response' = response /\ pc' = "dispatch"
    /\ UNCHANGED <<planVars, attempted, selfHostedAttempted, outcome,
                   fallbackUsed, allQuota, trail>>

-----------------------------------------------------------------------------
\* Attempts at an upstream.

\* Any key of the active pool not tried yet may be reserved, or none.
TryCloud(k, answer) ==
    /\ k \in pool \ attempted
    /\ attempted' = attempted \cup {k}
    /\ outcome' = [backend |-> "cloud", answer |-> answer]
    /\ trail' = Append(trail, k)
    /\ UNCHANGED <<selfHostedAttempted, response>>

TrySelfHosted(answer) ==
    /\ selfHostedAttempted' = TRUE
    /\ outcome' = [backend |-> "self-hosted", answer |-> answer]
    /\ trail' = Append(trail, "self-hosted")
    /\ UNCHANGED <<attempted, response>>

\* reserve() returned null.
TryNothing == UNCHANGED <<attempted, selfHostedAttempted, outcome, response, trail>>

\* takeFallbackKeys()
TakeFallbackKeys ==
    /\ pool' = reserve
    /\ reserve' = {}
    /\ UNCHANGED <<initialBackend, request>>

\* A first attempt at a pool: only a retryable answer starts a rotation.
FirstAttempt(rotation, otherwise) ==
    \E k \in Keys, answer \in CloudAnswers :
        /\ TryCloud(k, answer)
        /\ allQuota' = (answer \in Capacity)
        /\ pc' = IF answer \in Retryable THEN rotation ELSE otherwise

-----------------------------------------------------------------------------
\* dispatch()

DispatchCloud ==
    /\ pc = "dispatch" /\ initialBackend = "cloud"
    /\ FirstAttempt("rotate", "reserve after")
    /\ UNCHANGED <<planVars, fallbackUsed>>

\* No credit pool at all: self-hosted if policy allows, else the reserve.
DispatchNoCredit ==
    /\ pc = "dispatch" /\ initialBackend = "cloud"
    /\ \/ /\ IsCloudQuotaFallbackAllowed
          /\ \E answer \in SelfHostedAnswers : TrySelfHosted(answer)
          /\ fallbackUsed' = TRUE
          /\ pc' = "reserve after"
          /\ UNCHANGED <<planVars, allQuota>>
       \/ /\ ~IsCloudQuotaFallbackAllowed /\ reserve # {}
          /\ TakeFallbackKeys
          /\ TryNothing
          /\ pc' = "reserve"
          /\ UNCHANGED <<fallbackUsed, allQuota>>
       \/ /\ ~IsCloudQuotaFallbackAllowed /\ reserve = {}
          /\ RejectEarly("429")

DispatchReserve ==
    /\ pc = "reserve"
    /\ \/ /\ FirstAttempt("rotate", "reserve after")
          /\ fallbackUsed' = TRUE
          /\ UNCHANGED planVars
       \/ RejectEarly("429")

DispatchSelfHosted ==
    /\ pc = "dispatch" /\ initialBackend = "self-hosted"
    /\ \E answer \in SelfHostedAnswers :
          /\ TrySelfHosted(answer)
          /\ pc' = IF pool # {} /\ answer \in FallbackEligible /\ IsFallbackAllowed
                   THEN "eligible" ELSE "reserve after"
    /\ UNCHANGED <<planVars, fallbackUsed, allQuota>>

SelfHostedToCloud ==
    /\ pc = "eligible"
    /\ \/ FirstAttempt("rotate", "reserve after") /\ fallbackUsed' = TRUE
       \/ TryNothing /\ pc' = "reserve after" /\ UNCHANGED <<fallbackUsed, allQuota>>
    /\ UNCHANGED planVars

-----------------------------------------------------------------------------
\* rotateCloudKeys() and fallBackToSelfHosted(), then fallBackToFallbackKeys()
\* with a rotation of its own.

\* One more key.  Only an answer that is neither retryable nor missing ends it.
RotateKey(rotation, after) ==
    /\ pc = rotation
    /\ \E k \in Keys, answer \in CloudAnswers :
          /\ TryCloud(k, answer)
          /\ allQuota' = (allQuota /\ answer \in Capacity)
          /\ fallbackUsed' = (fallbackUsed \/ answer = "final")
          /\ pc' = IF answer = "final" THEN after ELSE rotation
    /\ UNCHANGED planVars

SelfHostedIsLastResort ==
    /\ allQuota
    /\ ~selfHostedAttempted
    /\ outcome.answer \in Capacity
    /\ IsCloudQuotaFallbackAllowed

\* No key is left to reserve: self-hosted if every key was out of quota.
EndRotation ==
    /\ pc = "rotate"
    /\ \/ /\ SelfHostedIsLastResort
          /\ \E answer \in SelfHostedAnswers : TrySelfHosted(answer)
          /\ fallbackUsed' = TRUE
       \/ /\ ~SelfHostedIsLastResort
          /\ TryNothing
          /\ UNCHANGED fallbackUsed
    /\ pc' = "reserve after"
    /\ UNCHANGED <<planVars, allQuota>>

CloudOutOfQuota ==
    /\ NeedsCloud(request.content)
    /\ outcome.backend = "cloud" /\ outcome.answer \in Capacity

SelfHostedFailed ==
    /\ outcome.backend = "self-hosted" /\ outcome.answer \in FallbackEligible
    /\ IsFallbackAllowed

ReserveTakesOver == reserve # {} /\ (CloudOutOfQuota \/ SelfHostedFailed)

FallBackToFallbackKeys ==
    /\ pc = "reserve after"
    /\ \/ /\ ReserveTakesOver
          /\ TakeFallbackKeys
          /\ TryNothing
          /\ pc' = "try reserve"
       \/ /\ ~ReserveTakesOver
          /\ TryNothing
          /\ pc' = "respond"
          /\ UNCHANGED planVars
    /\ UNCHANGED <<fallbackUsed, allQuota>>

TryReserve ==
    /\ pc = "try reserve"
    /\ \/ FirstAttempt("rotate reserve", "respond") /\ fallbackUsed' = TRUE
       \/ TryNothing /\ pc' = "respond" /\ UNCHANGED <<fallbackUsed, allQuota>>
    /\ UNCHANGED planVars

\* Mutant: the loop waits for a key as long as the last answer can be retried.
EndReserveRotationWaits ==
    /\ pc = "rotate reserve"
    /\ outcome.answer \notin Retryable
    /\ TryNothing
    /\ pc' = "respond"
    /\ UNCHANGED <<planVars, fallbackUsed, allQuota>>

EndReserveRotation ==
    /\ pc = "rotate reserve"
    /\ TryNothing
    /\ pc' = "respond"
    /\ UNCHANGED <<planVars, fallbackUsed, allQuota>>

Respond ==
    /\ pc = "respond"
    /\ response' = "sent"
    /\ pc' = "done"
    /\ UNCHANGED <<planVars, attempted, selfHostedAttempted, outcome,
                   fallbackUsed, allQuota, trail>>

Next ==
    \/ Authenticate \/ BuildPlan \/ LookUpCache
    \/ DispatchCloud \/ DispatchNoCredit \/ DispatchReserve
    \/ DispatchSelfHosted \/ SelfHostedToCloud
    \/ RotateKey("rotate", "reserve after") \/ EndRotation
    \/ FallBackToFallbackKeys \/ TryReserve
    \/ RotateKey("rotate reserve", "respond") \/ EndReserveRotation
    \/ Respond

Spec == Init /\ [][Next]_vars

\* Every await of the pipeline settles: each upstream call has a timeout.
FairSpec == Spec /\ WF_vars(Next)

-----------------------------------------------------------------------------
\* Properties.

Tried(upstream) == \E n \in 1..Len(trail) : trail[n] = upstream
TriedCloud == \E n \in 1..Len(trail) : trail[n] \in Keys

\* No upstream is tried twice for one request: not a key, whether it is met in
\* the first pool, in a rotation or in the reserve, and not self-hosted, which
\* three different fallbacks can choose.
NothingTriedTwice ==
    \A m, n \in 1..Len(trail) : trail[m] = trail[n] => m = n

\* A route mode that names one backend, and a request only Cloud can serve,
\* hold on every fallback path, not only for the first choice (README.md:28-34).
RouteModeRespected ==
    /\ request.mode = "self-hosted-only" => ~TriedCloud
    /\ request.mode = "cloud-only" => ~Tried("self-hosted")
    /\ NeedsCloud(request.content) => ~Tried("self-hosted")

\* What the client asked the gateway to keep private: a cookie or credentials of
\* its own, credentials in the body, a private target.
HoldsSecrets(r) ==
    \/ r.body \cap {"secret header", "private url"} # {}
    \/ "cookie" \in r.headers /\ ~r.admin
    \/ "authorization" \in r.headers /\ ~r.authEnabled

\* A request with secrets of the client's never moves on from self-hosted to
\* Cloud, on any path of any mode, wherever in the request they are.
SensitiveStaysHome ==
    HoldsSecrets(request.content) =>
        \A m, n \in 1..Len(trail) :
            m < n /\ trail[m] = "self-hosted" => trail[n] \notin Keys

CloudRoleKeys == KeysWithRole(Keys, "cloud")
FallbackRoleKeys == KeysWithRole(Keys, "fallback")

\* In hybrid mode the fallback-role keys come last: once one is tried nothing
\* else follows, and only after self-hosted had its chance, where it could
\* serve the request at all (README.md:32).
ReserveAfterSelfHosted ==
    request.mode = "hybrid" =>
        \A n \in 1..Len(trail) : trail[n] \in FallbackRoleKeys =>
            /\ \A m \in n..Len(trail) : trail[m] \in FallbackRoleKeys
            /\ ~NeedsCloud(request.content) => \E m \in 1..n : trail[m] = "self-hosted"

\* README.md:34 says that the hybrid path's fallback keys do not take over for
\* a sensitive request.  Where cloud-role keys are configured, so that the
\* fallback keys could only take over from them, none should be tried.
SensitiveSparesFallbackKeys ==
    request.mode = "hybrid" /\ HoldsSecrets(request.content) /\ CloudRoleKeys # {} =>
        \A n \in 1..Len(trail) : trail[n] \notin FallbackRoleKeys

\* Every request is answered.
Answered == <>(pc = "done" /\ response # "none")
=============================================================================

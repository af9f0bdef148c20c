------------------------- MODULE ProxyRoutingProofs -------------------------
(***************************************************************************)
(* Proofs about ProxyRouting, for any keys, any assignment of roles and    *)
(* any requests.                                                           *)
(*                                                                         *)
(* What may be tried next depends on where the request is (PlanInv): which *)
(* keys the active pool holds, and whether self-hosted had its turn.  What *)
(* was tried is TrailInv; two lemmas say when one more attempt, at a key   *)
(* or at self-hosted, keeps it.                                            *)
(***************************************************************************)
EXTENDS ProxyRouting, TLAPS

TrailInv ==
    /\ \A k \in Keys : k \in attempted <=> Tried(k)
    /\ selfHostedAttempted <=> Tried("self-hosted")
    /\ NothingTriedTwice
    /\ RouteModeRespected
    /\ SensitiveStaysHome
    /\ ReserveAfterSelfHosted

NoReserveTried == \A n \in 1..Len(trail) : trail[n] \notin FallbackRoleKeys

\* Hybrid, before the reserve: the cloud-role keys first, the reserve untouched.
ReserveAside ==
    /\ pool \subseteq CloudRoleKeys
    /\ NoReserveTried

\* Hybrid, with the fallback-role keys as the pool: self-hosted had its chance,
\* is about to have it, or cannot serve the request; or the client was answered.
ReserveActive ==
    /\ pool \subseteq FallbackRoleKeys
    /\ reserve = {}
    /\ \/ NeedsCloud(request.content)
       \/ selfHostedAttempted
       \/ initialBackend = "self-hosted" /\ pc \in {"cache", "dispatch", "done"}

HybridPools == request.mode = "hybrid" => ReserveAside \/ ReserveActive

PlanInv ==
    /\ pc \in {"authenticate", "plan", "cache", "dispatch"} =>
          trail = <<>> /\ attempted = {} /\ ~selfHostedAttempted
    /\ pc \in {"authenticate", "plan"} => pool = {} /\ reserve = {}
    /\ request.mode = "self-hosted-only" => pool = {} /\ reserve = {}
    /\ request.mode = "cloud-only" \/ NeedsCloud(request.content) =>
          initialBackend # "self-hosted"
    /\ pc = "eligible" => IsFallbackAllowed
    /\ Sensitive(request.content) /\ selfHostedAttempted =>
          pc \in {"reserve after", "respond", "done"}
    /\ outcome.backend = "self-hosted" => selfHostedAttempted
    /\ reserve \subseteq FallbackRoleKeys
    /\ request.mode # "hybrid" => reserve = {}
    /\ HybridPools

RoutingInv == TypeOK /\ TrailInv /\ PlanInv

-----------------------------------------------------------------------------
\* Lemmas about a request and about the trail.

\* Whatever the client keeps private, the policy takes for sensitive.
LEMMA SecretsAreSensitive ==
    ASSUME NEW r \in Requests, HoldsSecrets(r)
    PROVE  Sensitive(r)
BY DEF Requests, HoldsSecrets, Sensitive, HasSensitiveHeaders, HasPrivateTargetUrl,
       PrivacyHeaders, Headers

\* A key has one role.
LEMMA RolesApart == CloudRoleKeys \cap FallbackRoleKeys = {}
BY DEF CloudRoleKeys, FallbackRoleKeys, KeysWithRole

\* One more attempt is the last element of the trail.
LEMMA TrailGrows ==
    ASSUME NEW S, NEW s \in Seq(S), NEW x \in S
    PROVE  /\ Append(s, x) \in Seq(S)
           /\ Len(s) \in Nat
           /\ Len(Append(s, x)) = Len(s) + 1
           /\ \A n \in 1..Len(s) : Append(s, x)[n] = s[n]
           /\ Append(s, x)[Len(s) + 1] = x
OBVIOUS

\* An attempt at a key that was not tried keeps the trail in order, if policy
\* lets this key have its turn.
LEMMA KeyTried ==
    ASSUME TypeOK, TrailInv, NEW k \in Keys, k \notin attempted,
           attempted' = attempted \cup {k},
           trail' = Append(trail, k),
           UNCHANGED <<request, selfHostedAttempted>>,
           request.mode # "self-hosted-only",
           ~(Sensitive(request.content) /\ selfHostedAttempted),
           request.mode = "hybrid" =>
              \/ k \notin FallbackRoleKeys /\ NoReserveTried
              \/ /\ k \in FallbackRoleKeys
                 /\ NeedsCloud(request.content) \/ selfHostedAttempted
    PROVE  TrailInv'
<1> DEFINE L == Len(trail)
<1>1. /\ L \in Nat /\ Len(trail') = L + 1
      /\ \A n \in 1..L : trail'[n] = trail[n]
      /\ trail'[L + 1] = k
  BY TrailGrows DEF TypeOK
<1>2. k # "self-hosted"
  BY KeysAssumption
<1>3. \A x : Tried(x)' <=> Tried(x) \/ x = k
  BY <1>1 DEF Tried
<1>4. \A n \in 1..(L + 1) : n = L + 1 \/ n \in 1..L
  BY <1>1
<1> HIDE DEF L
<1>5. (\A j \in Keys : j \in attempted <=> Tried(j))'
  BY <1>3 DEF TrailInv
<1>6. (selfHostedAttempted <=> Tried("self-hosted"))'
  BY <1>2, <1>3 DEF TrailInv
<1>7. ~Tried(k)
  BY DEF TrailInv
<1>8. NothingTriedTwice'
  <2> SUFFICES ASSUME NEW m \in 1..(L + 1), NEW n \in 1..(L + 1), trail'[m] = trail'[n]
               PROVE  m = n
    BY <1>1 DEF NothingTriedTwice
  <2>1. CASE m \in 1..L /\ n \in 1..L
    BY <1>1, <2>1 DEF TrailInv, NothingTriedTwice, L
  <2>2. CASE m = L + 1 /\ n \in 1..L
    BY <1>1, <1>7, <2>2 DEF Tried, L
  <2>3. CASE m \in 1..L /\ n = L + 1
    BY <1>1, <1>7, <2>3 DEF Tried, L
  <2> QED
    BY <1>4, <2>1, <2>2, <2>3
<1>9. RouteModeRespected'
  BY <1>2, <1>3 DEF TrailInv, RouteModeRespected
<1>10. SensitiveStaysHome'
  <2> SUFFICES ASSUME HoldsSecrets(request.content),
                      NEW m \in 1..(L + 1), NEW n \in 1..(L + 1),
                      m < n, trail'[m] = "self-hosted"
               PROVE  trail'[n] \notin Keys
    BY <1>1 DEF SensitiveStaysHome
  <2>1. ~Tried("self-hosted")
    BY SecretsAreSensitive DEF TrailInv, TypeOK, RequestFacts
  <2> QED
    BY <1>1, <1>2, <1>4, <2>1 DEF Tried, L
<1>11. ReserveAfterSelfHosted'
  <2> SUFFICES ASSUME request.mode = "hybrid",
                      NEW n \in 1..(L + 1), trail'[n] \in FallbackRoleKeys
               PROVE  /\ \A m \in n..(L + 1) : trail'[m] \in FallbackRoleKeys
                      /\ ~NeedsCloud(request.content) =>
                            \E m \in 1..n : trail'[m] = "self-hosted"
    BY <1>1 DEF ReserveAfterSelfHosted, FallbackRoleKeys, KeysWithRole
  <2>1. CASE k \notin FallbackRoleKeys /\ NoReserveTried
    BY <1>1, <1>4, <2>1 DEF NoReserveTried, L
  <2>2. CASE k \in FallbackRoleKeys /\ (NeedsCloud(request.content) \/ selfHostedAttempted)
    <3>1. CASE n \in 1..L
      BY <1>1, <1>4, <2>2, <3>1 DEF TrailInv, ReserveAfterSelfHosted, L
    <3>2. CASE n = L + 1
      <4>1. \A m \in n..(L + 1) : m = L + 1
        BY <1>1, <3>2
      <4>2. ~NeedsCloud(request.content) => Tried("self-hosted")
        BY <2>2 DEF TrailInv
      <4> QED
        BY <1>1, <2>2, <3>2, <4>1, <4>2 DEF Tried, L
    <3> QED
      BY <1>4, <3>1, <3>2
  <2> QED
    BY <2>1, <2>2
<1> QED
  BY <1>5, <1>6, <1>8, <1>9, <1>10, <1>11 DEF TrailInv

\* So does self-hosted, if it was not tried, nothing keeps the request from it,
\* and the reserve was not touched.
LEMMA SelfHostedTried ==
    ASSUME TypeOK, TrailInv, ~selfHostedAttempted, selfHostedAttempted',
           trail' = Append(trail, "self-hosted"),
           UNCHANGED <<request, attempted>>,
           request.mode # "cloud-only", ~NeedsCloud(request.content),
           request.mode = "hybrid" => NoReserveTried
    PROVE  TrailInv'
<1> DEFINE L == Len(trail)
<1>1. /\ L \in Nat /\ Len(trail') = L + 1
      /\ \A n \in 1..L : trail'[n] = trail[n]
      /\ trail'[L + 1] = "self-hosted"
  BY TrailGrows DEF TypeOK
<1>2. \A x : Tried(x)' <=> Tried(x) \/ x = "self-hosted"
  BY <1>1 DEF Tried
<1>3. \A n \in 1..(L + 1) : n = L + 1 \/ n \in 1..L
  BY <1>1
<1> HIDE DEF L
<1>4. (\A j \in Keys : j \in attempted <=> Tried(j))'
  BY <1>2, KeysAssumption DEF TrailInv
<1>5. (selfHostedAttempted <=> Tried("self-hosted"))'
  BY <1>2
<1>6. ~Tried("self-hosted")
  BY DEF TrailInv
<1>7. NothingTriedTwice'
  <2> SUFFICES ASSUME NEW m \in 1..(L + 1), NEW n \in 1..(L + 1), trail'[m] = trail'[n]
               PROVE  m = n
    BY <1>1 DEF NothingTriedTwice
  <2>1. CASE m \in 1..L /\ n \in 1..L
    BY <1>1, <2>1 DEF TrailInv, NothingTriedTwice, L
  <2>2. CASE m = L + 1 /\ n \in 1..L
    BY <1>1, <1>6, <2>2 DEF Tried, L
  <2>3. CASE m \in 1..L /\ n = L + 1
    BY <1>1, <1>6, <2>3 DEF Tried, L
  <2> QED
    BY <1>3, <2>1, <2>2, <2>3
<1>8. RouteModeRespected'
  <2>1. TriedCloud' => TriedCloud
    BY <1>1, <1>3, KeysAssumption DEF TriedCloud, L
  <2> QED
    BY <1>2, <2>1 DEF TrailInv, RouteModeRespected
<1>9. SensitiveStaysHome'
  <2> SUFFICES ASSUME NEW m \in 1..(L + 1), NEW n \in 1..(L + 1),
                      m < n, trail'[m] = "self-hosted"
               PROVE  trail'[n] \notin Keys
    BY <1>1 DEF SensitiveStaysHome
  <2> QED
    BY <1>1, <1>3, <1>6, KeysAssumption DEF Tried, L
<1>10. ReserveAfterSelfHosted'
  <2> SUFFICES ASSUME request.mode = "hybrid",
                      NEW n \in 1..(L + 1), trail'[n] \in FallbackRoleKeys
               PROVE  FALSE
    BY <1>1 DEF ReserveAfterSelfHosted, FallbackRoleKeys, KeysWithRole
  <2> QED
    BY <1>1, <1>3, KeysAssumption DEF NoReserveTried, FallbackRoleKeys, KeysWithRole, L
<1> QED
  BY <1>4, <1>5, <1>7, <1>8, <1>9, <1>10 DEF TrailInv

\* Trying something else leaves the fallback-role keys untried.
LEMMA ReserveStaysUntried ==
    ASSUME TypeOK, NoReserveTried, NEW x \in Keys \cup {"self-hosted"},
           x \notin FallbackRoleKeys, trail' = Append(trail, x), UNCHANGED request
    PROVE  NoReserveTried'
<1>1. /\ Len(trail) \in Nat /\ Len(trail') = Len(trail) + 1
      /\ \A n \in 1..Len(trail) : trail'[n] = trail[n]
      /\ trail'[Len(trail) + 1] = x
  BY TrailGrows DEF TypeOK
<1>2. \A n \in 1..(Len(trail) + 1) : n = Len(trail) + 1 \/ n \in 1..Len(trail)
  BY <1>1
<1> QED
  BY <1>1, <1>2 DEF NoReserveTried, FallbackRoleKeys, KeysWithRole

\* An attempt at Cloud from any of the stages that make one.
LEMMA CloudAttempt ==
    ASSUME RoutingInv, NEW k \in Keys, NEW answer, TryCloud(k, answer), UNCHANGED planVars,
           pc \in {"dispatch", "reserve", "eligible", "rotate", "try reserve",
                   "rotate reserve"},
           pc = "dispatch" => initialBackend = "cloud"
    PROVE  TrailInv' /\ HybridPools'
<1>1. /\ k \in pool /\ k \notin attempted /\ attempted' = attempted \cup {k}
      /\ trail' = Append(trail, k)
      /\ UNCHANGED <<request, selfHostedAttempted, pool, reserve, initialBackend>>
  BY DEF TryCloud, planVars
<1>2. request.mode # "self-hosted-only"
  BY <1>1 DEF RoutingInv, PlanInv
<1>3. ~(Sensitive(request.content) /\ selfHostedAttempted)
  BY DEF RoutingInv, PlanInv
<1>4. ASSUME request.mode = "hybrid"
      PROVE  \/ k \notin FallbackRoleKeys /\ ReserveAside
             \/ /\ k \in FallbackRoleKeys /\ ReserveActive
                /\ NeedsCloud(request.content) \/ selfHostedAttempted
  BY <1>1, <1>4, RolesApart DEF RoutingInv, PlanInv, HybridPools, ReserveAside, ReserveActive
<1>5. TrailInv'
  BY <1>1, <1>2, <1>3, <1>4, KeyTried DEF RoutingInv, ReserveAside
<1>6. ASSUME request.mode = "hybrid" PROVE (ReserveAside \/ ReserveActive)'
  <2>1. CASE k \notin FallbackRoleKeys /\ ReserveAside
    <3>1. NoReserveTried'
      BY <1>1, <2>1, ReserveStaysUntried DEF RoutingInv, ReserveAside
    <3> QED
      BY <1>1, <2>1, <3>1 DEF ReserveAside, CloudRoleKeys, KeysWithRole
  <2>2. CASE ReserveActive /\ (NeedsCloud(request.content) \/ selfHostedAttempted)
    BY <1>1, <2>2 DEF ReserveActive, FallbackRoleKeys, KeysWithRole
  <2> QED
    BY <1>4, <1>6, <2>1, <2>2
<1> QED
  BY <1>1, <1>5, <1>6 DEF HybridPools

\* An attempt at self-hosted: the first choice, or one of two fallbacks.
LEMMA SelfHostedAttempt ==
    ASSUME RoutingInv, NEW answer, TrySelfHosted(answer), UNCHANGED planVars,
           pc \in {"dispatch", "rotate"},
           ~selfHostedAttempted, request.mode # "cloud-only", ~NeedsCloud(request.content)
    PROVE  TrailInv' /\ HybridPools'
<1>1. /\ trail' = Append(trail, "self-hosted") /\ selfHostedAttempted' = TRUE
      /\ UNCHANGED <<request, attempted, pool, reserve, initialBackend>>
  BY DEF TrySelfHosted, planVars
<1>2. request.mode = "hybrid" => NoReserveTried
  <2>1. trail = <<>> => NoReserveTried
    BY DEF NoReserveTried
  <2> QED
    BY <2>1 DEF RoutingInv, PlanInv, HybridPools, ReserveAside, ReserveActive
<1>3. TrailInv'
  BY <1>1, <1>2, SelfHostedTried DEF RoutingInv
<1>4. ASSUME request.mode = "hybrid" PROVE (ReserveAside \/ ReserveActive)'
  <2>1. CASE ReserveAside
    <3>1. "self-hosted" \notin FallbackRoleKeys
      BY KeysAssumption DEF FallbackRoleKeys, KeysWithRole
    <3>2. NoReserveTried'
      BY <1>1, <2>1, <3>1, ReserveStaysUntried DEF RoutingInv, ReserveAside
    <3> QED
      BY <1>1, <2>1, <3>2 DEF ReserveAside, CloudRoleKeys, KeysWithRole
  <2>2. CASE ReserveActive
    BY <1>1, <2>2 DEF ReserveActive, FallbackRoleKeys, KeysWithRole
  <2> QED
    BY <1>4, <2>1, <2>2 DEF RoutingInv, PlanInv, HybridPools
<1> QED
  BY <1>1, <1>3, <1>4 DEF HybridPools

-----------------------------------------------------------------------------
\* The steps that try nothing.

\* A step that leaves the trail and the plan alone keeps what is known of them.
LEMMA NothingTried ==
    ASSUME RoutingInv, UNCHANGED <<request, attempted, selfHostedAttempted, trail>>
    PROVE  TrailInv' /\ trail' \in Seq(Keys \cup {"self-hosted"})
<1>1. /\ NothingTriedTwice' /\ RouteModeRespected' /\ SensitiveStaysHome'
      /\ ReserveAfterSelfHosted'
  BY DEF RoutingInv, TrailInv, NothingTriedTwice, RouteModeRespected, SensitiveStaysHome,
         ReserveAfterSelfHosted, Tried, TriedCloud, CloudRoleKeys, FallbackRoleKeys,
         KeysWithRole
<1>2. (\A k \in Keys : k \in attempted <=> Tried(k))'
  BY DEF RoutingInv, TrailInv, Tried
<1>3. (selfHostedAttempted <=> Tried("self-hosted"))'
  BY DEF RoutingInv, TrailInv, Tried
<1> QED
  BY <1>1, <1>2, <1>3 DEF RoutingInv, TypeOK, TrailInv

\* The first state satisfies the invariant.
LEMMA InitInv == Init => RoutingInv
<1> SUFFICES ASSUME Init PROVE RoutingInv
  OBVIOUS
<1>1. Len(trail) = 0 /\ trail \in Seq(Keys \cup {"self-hosted"})
  BY DEF Init
<1>2. TypeOK
  BY <1>1 DEF Init, TypeOK, Stages, Backends, NoOutcome
<1>3. TrailInv
  BY <1>1 DEF Init, TrailInv, Tried, TriedCloud, NothingTriedTwice, RouteModeRespected,
              SensitiveStaysHome, ReserveAfterSelfHosted
<1>4. PlanInv
  BY <1>1 DEF Init, PlanInv, NoOutcome, HybridPools, ReserveAside, NoReserveTried
<1> QED
  BY <1>2, <1>3, <1>4 DEF RoutingInv

\* A rejection ends the request before anything else is tried.
LEMMA RejectEarlyInv ==
    ASSUME RoutingInv, NEW status \in Rejections, RejectEarly(status)
    PROVE  RoutingInv'
<1> USE DEF RejectEarly
<1>1. TrailInv' /\ trail' \in Seq(Keys \cup {"self-hosted"})
  BY NothingTried
<1>2. TypeOK'
  BY <1>1 DEF RoutingInv, TypeOK, Stages
<1>3. HybridPools'
  BY DEF RoutingInv, PlanInv, HybridPools, ReserveAside, ReserveActive, NoReserveTried,
         CloudRoleKeys, FallbackRoleKeys, KeysWithRole
<1>4. PlanInv'
  BY <1>3 DEF RoutingInv, PlanInv, IsFallbackAllowed, FallbackRoleKeys, KeysWithRole
<1> QED
  BY <1>1, <1>2, <1>4 DEF RoutingInv

\* authenticate() tries nothing.
LEMMA AuthenticateInv ==
    ASSUME RoutingInv, Authenticate
    PROVE  RoutingInv'
<1>1. CASE \E status \in {"400", "401", "429"} : RejectEarly(status)
  BY <1>1, RejectEarlyInv DEF Rejections
<1>2. CASE /\ pc = "authenticate" /\ pc' = "plan"
           /\ UNCHANGED <<planVars, attempted, selfHostedAttempted, outcome,
                          fallbackUsed, allQuota, response, trail>>
  <2> USE <1>2 DEF planVars
  <2>1. TrailInv' /\ trail' \in Seq(Keys \cup {"self-hosted"})
    BY NothingTried
  <2>2. TypeOK'
    BY <2>1 DEF RoutingInv, TypeOK, Stages
  <2>3. HybridPools'
    BY DEF RoutingInv, PlanInv, HybridPools, ReserveAside, ReserveActive, NoReserveTried,
           CloudRoleKeys, FallbackRoleKeys, KeysWithRole
  <2>4. PlanInv'
    BY <2>3 DEF RoutingInv, PlanInv, IsFallbackAllowed, FallbackRoleKeys, KeysWithRole
  <2> QED
    BY <2>1, <2>2, <2>4 DEF RoutingInv
<1> QED
  BY <1>1, <1>2 DEF Authenticate

\* The first backend fits the route mode and what the request needs.
LEMMA FirstBackend ==
    ASSUME TypeOK
    PROVE  /\ ChooseInitialBackend \in Backends
           /\ request.mode = "cloud-only" \/ NeedsCloud(request.content) =>
                 ChooseInitialBackend # "self-hosted"
           /\ request.mode = "hybrid" => ChooseInitialBackend = "cloud"
           /\ request.mode = "self-hosted-only" =>
                 ChooseInitialBackend # "cloud" /\ ~MayUseCloudKeys(ChooseInitialBackend)
<1>1. request.mode \in Modes
  BY DEF TypeOK, RequestFacts
<1>2. CASE request.mode \in {"cloud-first", "cloud-only", "hybrid"}
  BY <1>2 DEF ChooseInitialBackend, Backends
<1>3. CASE request.mode = "self-hosted-only"
  BY <1>3 DEF ChooseInitialBackend, Backends, MayUseCloudKeys, IsFallbackAllowed
<1>4. CASE request.mode = "self-hosted-first"
  BY <1>4 DEF ChooseInitialBackend, Backends
<1> QED
  BY <1>1, <1>2, <1>3, <1>4 DEF Modes

\* The pools hold keys of one role each; hybrid starts with the fallback-role keys
\* only if self-hosted goes first or cannot serve the request.
LEMMA SelectedPools ==
    ASSUME TypeOK, NEW first \in Backends, NEW entries \in SUBSET Keys,
           request.mode = "cloud-only" \/ NeedsCloud(request.content) => first # "self-hosted",
           request.mode = "hybrid" => first = "cloud"
    PROVE  LET plan == SelectKeyPools(first, entries)
           IN /\ plan[1] \in Backends
              /\ plan[2] \subseteq entries
              /\ plan[3] \subseteq entries \cap FallbackRoleKeys
              /\ request.mode # "hybrid" => plan[3] = {}
              /\ request.mode = "cloud-only" \/ NeedsCloud(request.content) =>
                    plan[1] # "self-hosted"
              /\ request.mode = "hybrid" =>
                    \/ plan[2] \subseteq CloudRoleKeys
                    \/ /\ plan[2] \subseteq FallbackRoleKeys /\ plan[3] = {}
                       /\ NeedsCloud(request.content) \/ plan[1] = "self-hosted"
<1> DEFINE cloud == KeysWithRole(entries, "cloud")
           fallback == KeysWithRole(entries, "fallback")
<1>1. /\ cloud \subseteq entries \cap CloudRoleKeys
      /\ fallback \subseteq entries \cap FallbackRoleKeys
  BY DEF KeysWithRole, CloudRoleKeys, FallbackRoleKeys
<1> HIDE DEF cloud, fallback
<1>2. CASE request.mode # "hybrid"
  <2>1. SelectKeyPools(first, entries) = <<first, entries, {}>>
    BY <1>2 DEF SelectKeyPools
  <2> QED
    BY <1>2, <2>1
<1>3. CASE request.mode = "hybrid" /\ cloud # {}
  <2>1. SelectKeyPools(first, entries) = <<first, cloud, fallback>>
    BY <1>3 DEF SelectKeyPools, cloud, fallback
  <2> QED
    BY <1>1, <1>3, <2>1
<1>4. CASE request.mode = "hybrid" /\ cloud = {}
  <2>1. SelectKeyPools(first, entries) =
           <<IF NeedsCloud(request.content) THEN "cloud" ELSE "self-hosted", fallback, {}>>
    BY <1>4 DEF SelectKeyPools, cloud, fallback
  <2> QED
    BY <1>1, <1>4, <2>1 DEF Backends
<1> QED
  BY <1>2, <1>3, <1>4

\* buildPlan() chooses the pools the rest of the pipeline relies on.
LEMMA BuildPlanInv ==
    ASSUME RoutingInv, BuildPlan
    PROVE  RoutingInv'
<1>1. CASE \E status \in {"400", "413"} : RejectEarly(status)
  BY <1>1, RejectEarlyInv DEF Rejections
<1>2. ASSUME NEW loaded \in BOOLEAN,
             LET first == ChooseInitialBackend
                 configured == {k \in Keys : request.role[k] # "absent"}
                 entries == IF loaded /\ MayUseCloudKeys(first) THEN configured ELSE {}
                 plan == SelectKeyPools(first, entries)
             IN CASE plan[1] = "cloud" /\ plan[2] = {} -> RejectEarly("502")
                  [] plan[1] = "reject" -> RejectEarly("409")
                  [] OTHER ->
                        /\ initialBackend' = plan[1]
                        /\ pool' = plan[2]
                        /\ reserve' = plan[3]
                        /\ pc' = "cache"
                        /\ UNCHANGED <<request, attempted, selfHostedAttempted, outcome,
                                       fallbackUsed, allQuota, response, trail>>,
             pc = "plan"
      PROVE  RoutingInv'
  <2> DEFINE first == ChooseInitialBackend
             configured == {k \in Keys : request.role[k] # "absent"}
             entries == IF loaded /\ MayUseCloudKeys(first) THEN configured ELSE {}
             plan == SelectKeyPools(first, entries)
  <2>1. \/ RejectEarly("502") \/ RejectEarly("409")
        \/ /\ initialBackend' = plan[1] /\ pool' = plan[2] /\ reserve' = plan[3]
           /\ pc' = "cache"
           /\ UNCHANGED <<request, attempted, selfHostedAttempted, outcome,
                          fallbackUsed, allQuota, response, trail>>
    BY <1>2
  <2>2. /\ first \in Backends /\ entries \in SUBSET Keys
        /\ request.mode = "cloud-only" \/ NeedsCloud(request.content) => first # "self-hosted"
        /\ request.mode = "hybrid" => first = "cloud"
        /\ request.mode = "self-hosted-only" => entries = {}
    BY FirstBackend DEF RoutingInv
  <2> HIDE DEF first, entries
  <2>3. /\ plan[1] \in Backends
        /\ plan[2] \subseteq entries /\ plan[3] \subseteq entries \cap FallbackRoleKeys
        /\ request.mode # "hybrid" => plan[3] = {}
        /\ request.mode = "cloud-only" \/ NeedsCloud(request.content) =>
              plan[1] # "self-hosted"
        /\ request.mode = "hybrid" =>
              \/ plan[2] \subseteq CloudRoleKeys
              \/ /\ plan[2] \subseteq FallbackRoleKeys /\ plan[3] = {}
                 /\ NeedsCloud(request.content) \/ plan[1] = "self-hosted"
    BY <2>2, SelectedPools DEF RoutingInv
  <2> HIDE DEF plan
  <2>4. CASE RejectEarly("502") \/ RejectEarly("409")
    BY <2>4, RejectEarlyInv DEF Rejections
  <2>5. CASE /\ initialBackend' = plan[1] /\ pool' = plan[2] /\ reserve' = plan[3]
             /\ pc' = "cache"
             /\ UNCHANGED <<request, attempted, selfHostedAttempted, outcome,
                            fallbackUsed, allQuota, response, trail>>
    <3> USE <2>5
    <3>1. TrailInv' /\ trail' \in Seq(Keys \cup {"self-hosted"})
      BY NothingTried
    <3>2. TypeOK'
      BY <2>2, <2>3, <3>1 DEF RoutingInv, TypeOK, Stages
    <3>3. trail = <<>> /\ attempted = {} /\ ~selfHostedAttempted
      BY <1>2 DEF RoutingInv, PlanInv
    <3>4. HybridPools'
      BY <2>3, <3>3 DEF HybridPools, ReserveAside, ReserveActive, NoReserveTried,
             CloudRoleKeys, FallbackRoleKeys, KeysWithRole
    <3>5. PlanInv'
      BY <2>2, <2>3, <3>3, <3>4
         DEF RoutingInv, PlanInv, IsFallbackAllowed, FallbackRoleKeys, KeysWithRole
    <3> QED
      BY <3>1, <3>2, <3>5 DEF RoutingInv
  <2> QED
    BY <2>1, <2>4, <2>5
<1> QED
  BY <1>1, <1>2 DEF BuildPlan

-----------------------------------------------------------------------------
\* Four kinds of steps after the plan is made; every action is one of them.

\* A step that only moves on.
LEMMA MoveOn ==
    ASSUME RoutingInv,
           UNCHANGED <<planVars, attempted, selfHostedAttempted, outcome, trail>>,
           fallbackUsed' \in BOOLEAN, allQuota' \in BOOLEAN,
           response' \in {"none", "sent", "cache"} \cup Rejections,
           \/ pc = "cache" /\ pc' \in {"dispatch", "done"}
           \/ /\ pc \in {"eligible", "rotate", "reserve after", "try reserve",
                         "rotate reserve", "respond"}
              /\ pc' \in {"reserve after", "respond", "done"}
    PROVE  RoutingInv'
<1> USE DEF planVars
<1>1. TrailInv' /\ trail' \in Seq(Keys \cup {"self-hosted"})
  BY NothingTried
<1>2. TypeOK'
  BY <1>1 DEF RoutingInv, TypeOK, Stages
<1>3. HybridPools'
  BY DEF RoutingInv, PlanInv, HybridPools, ReserveAside, ReserveActive, NoReserveTried,
         CloudRoleKeys, FallbackRoleKeys, KeysWithRole
<1>4. PlanInv'
  BY <1>3 DEF RoutingInv, PlanInv, IsFallbackAllowed, FallbackRoleKeys, KeysWithRole
<1> QED
  BY <1>1, <1>2, <1>4 DEF RoutingInv

\* A step that tries a key.
LEMMA CloudStep ==
    ASSUME RoutingInv, NEW k \in Keys, NEW answer \in CloudAnswers, TryCloud(k, answer),
           UNCHANGED planVars, fallbackUsed' \in BOOLEAN, allQuota' \in BOOLEAN,
           pc \in {"dispatch", "reserve", "eligible", "rotate", "try reserve",
                   "rotate reserve"},
           pc = "dispatch" => initialBackend = "cloud",
           pc' \in {"rotate", "reserve after", "rotate reserve", "respond"}
    PROVE  RoutingInv'
<1>1. TrailInv' /\ HybridPools'
  BY CloudAttempt
<1>2. /\ attempted' = attempted \cup {k} /\ trail' = Append(trail, k)
      /\ outcome' = [backend |-> "cloud", answer |-> answer]
      /\ UNCHANGED <<selfHostedAttempted, response, request, pool, reserve, initialBackend>>
  BY DEF TryCloud, planVars
<1>3. trail' \in Seq(Keys \cup {"self-hosted"})
  BY <1>2, TrailGrows DEF RoutingInv, TypeOK
<1>4. TypeOK'
  BY <1>2, <1>3 DEF RoutingInv, TypeOK, Stages
<1>5. PlanInv'
  BY <1>1, <1>2 DEF RoutingInv, PlanInv, IsFallbackAllowed, FallbackRoleKeys, KeysWithRole
<1> QED
  BY <1>1, <1>4, <1>5 DEF RoutingInv

\* A step that tries self-hosted.
LEMMA SelfHostedStep ==
    ASSUME RoutingInv, NEW answer \in SelfHostedAnswers, TrySelfHosted(answer),
           UNCHANGED planVars, UNCHANGED allQuota, fallbackUsed' \in BOOLEAN,
           pc \in {"dispatch", "rotate"},
           selfHostedAttempted = FALSE, request.mode # "cloud-only",
           ~NeedsCloud(request.content),
           pc' \in {"reserve after", "eligible"},
           pc' = "eligible" => IsFallbackAllowed
    PROVE  RoutingInv'
<1>1. TrailInv' /\ HybridPools'
  BY SelfHostedAttempt DEF planVars
<1>2. /\ selfHostedAttempted' = TRUE /\ trail' = Append(trail, "self-hosted")
      /\ outcome' = [backend |-> "self-hosted", answer |-> answer]
      /\ UNCHANGED <<attempted, response, request, pool, reserve, initialBackend>>
  BY DEF TrySelfHosted, planVars
<1>3. trail' \in Seq(Keys \cup {"self-hosted"})
  BY <1>2, TrailGrows DEF RoutingInv, TypeOK
<1>4. TypeOK'
  BY <1>2, <1>3 DEF RoutingInv, TypeOK, Stages
<1>5. PlanInv'
  BY <1>1, <1>2 DEF RoutingInv, PlanInv, IsFallbackAllowed, FallbackRoleKeys, KeysWithRole
<1> QED
  BY <1>1, <1>4, <1>5 DEF RoutingInv

\* A step that makes the reserve the pool: self-hosted had its chance or cannot
\* serve the request, and nothing sensitive was sent there.
LEMMA ReserveStep ==
    ASSUME RoutingInv, TakeFallbackKeys, TryNothing, UNCHANGED <<fallbackUsed, allQuota>>,
           NeedsCloud(request.content) \/ selfHostedAttempted,
           ~(Sensitive(request.content) /\ selfHostedAttempted),
           pc' \in {"reserve", "try reserve"}
    PROVE  RoutingInv'
<1> USE DEF TakeFallbackKeys, TryNothing
<1>1. TrailInv' /\ trail' \in Seq(Keys \cup {"self-hosted"})
  BY NothingTried
<1>2. TypeOK'
  BY <1>1 DEF RoutingInv, TypeOK, Stages
<1>3. HybridPools'
  BY DEF RoutingInv, PlanInv, HybridPools, ReserveActive, FallbackRoleKeys, KeysWithRole
<1>4. PlanInv'
  BY <1>3 DEF RoutingInv, PlanInv, IsFallbackAllowed, FallbackRoleKeys, KeysWithRole
<1> QED
  BY <1>1, <1>2, <1>4 DEF RoutingInv

\* To be in a set or not is a truth value.
LEMMA MembershipIsBoolean == ASSUME NEW x, NEW S PROVE (x \in S) \in BOOLEAN
OBVIOUS

\* A first attempt at a pool tries a key.
LEMMA FirstAttemptInv ==
    ASSUME RoutingInv, NEW rotation \in {"rotate", "rotate reserve"},
           NEW otherwise \in {"reserve after", "respond"},
           FirstAttempt(rotation, otherwise),
           UNCHANGED planVars, fallbackUsed' \in BOOLEAN,
           pc \in {"dispatch", "reserve", "eligible", "try reserve"},
           pc = "dispatch" => initialBackend = "cloud"
    PROVE  RoutingInv'
<1>1. PICK k \in Keys, answer \in CloudAnswers :
         /\ TryCloud(k, answer)
         /\ allQuota' = (answer \in Capacity)
         /\ pc' = IF answer \in Retryable THEN rotation ELSE otherwise
  BY DEF FirstAttempt
<1>2. allQuota' \in BOOLEAN
  <2>1. allQuota' = (answer \in Capacity)
    BY <1>1
  <2> QED
    BY <2>1, MembershipIsBoolean, Zenon
<1>3. pc' \in {"rotate", "reserve after", "rotate reserve", "respond"}
  BY <1>1
<1> QED
  BY <1>1, <1>2, <1>3, CloudStep

-----------------------------------------------------------------------------
\* The actions.

\* The cache answers, or the request goes on to an upstream.
LEMMA LookUpCacheInv == ASSUME RoutingInv, LookUpCache PROVE RoutingInv'
<1>1. /\ pc = "cache" /\ pc' \in {"dispatch", "done"}
      /\ UNCHANGED <<planVars, attempted, selfHostedAttempted, outcome, trail>>
      /\ fallbackUsed' \in BOOLEAN /\ allQuota' \in BOOLEAN
      /\ response' \in {"none", "sent", "cache"} \cup Rejections
  BY DEF LookUpCache, RoutingInv, TypeOK
<1> QED
  BY <1>1, MoveOn

\* Without any credit pool: self-hosted, the reserve or a rejection.
LEMMA DispatchNoCreditInv == ASSUME RoutingInv, DispatchNoCredit PROVE RoutingInv'
<1>1. pc = "dispatch" /\ initialBackend = "cloud" /\ selfHostedAttempted = FALSE
  BY DEF DispatchNoCredit, RoutingInv, PlanInv, TypeOK
<1>2. CASE /\ IsCloudQuotaFallbackAllowed
           /\ \E answer \in SelfHostedAnswers : TrySelfHosted(answer)
           /\ fallbackUsed' = TRUE
           /\ pc' = "reserve after"
           /\ UNCHANGED <<planVars, allQuota>>
  <2>1. PICK answer \in SelfHostedAnswers : TrySelfHosted(answer)
    BY <1>2
  <2>2. request.mode # "cloud-only" /\ ~NeedsCloud(request.content)
    BY <1>2 DEF IsCloudQuotaFallbackAllowed
  <2>3. UNCHANGED planVars /\ UNCHANGED allQuota /\ fallbackUsed' \in BOOLEAN
    BY <1>2
  <2> QED
    BY <1>1, <1>2, <2>1, <2>2, <2>3, SelfHostedStep
<1>3. CASE /\ ~IsCloudQuotaFallbackAllowed /\ reserve # {}
           /\ TakeFallbackKeys /\ TryNothing
           /\ pc' = "reserve"
           /\ UNCHANGED <<fallbackUsed, allQuota>>
  <2>1. NeedsCloud(request.content)
    BY <1>3 DEF IsCloudQuotaFallbackAllowed, RoutingInv, PlanInv
  <2> QED
    BY <1>1, <1>3, <2>1, ReserveStep
<1>4. CASE RejectEarly("429")
  BY <1>4, RejectEarlyInv DEF Rejections
<1> QED
  BY <1>2, <1>3, <1>4 DEF DispatchNoCredit

\* A first attempt at the reserve, or nothing left to try.
LEMMA DispatchReserveInv == ASSUME RoutingInv, DispatchReserve PROVE RoutingInv'
<1>1. CASE RejectEarly("429")
  BY <1>1, RejectEarlyInv DEF Rejections
<1>2. CASE FirstAttempt("rotate", "reserve after") /\ fallbackUsed' = TRUE /\ UNCHANGED planVars
  BY <1>2, FirstAttemptInv DEF DispatchReserve
<1> QED
  BY <1>1, <1>2 DEF DispatchReserve

\* Self-hosted as the first choice.
LEMMA DispatchSelfHostedInv == ASSUME RoutingInv, DispatchSelfHosted PROVE RoutingInv'
<1>1. PICK answer \in SelfHostedAnswers :
         /\ TrySelfHosted(answer)
         /\ pc' = IF pool # {} /\ answer \in FallbackEligible /\ IsFallbackAllowed
                  THEN "eligible" ELSE "reserve after"
  BY DEF DispatchSelfHosted
<1>2. /\ pc = "dispatch" /\ initialBackend = "self-hosted"
      /\ UNCHANGED planVars /\ UNCHANGED allQuota
      /\ fallbackUsed' \in BOOLEAN
  BY DEF DispatchSelfHosted, RoutingInv, TypeOK
<1>3. /\ selfHostedAttempted = FALSE
      /\ request.mode # "cloud-only" /\ ~NeedsCloud(request.content)
  BY <1>2 DEF RoutingInv, PlanInv, TypeOK
<1> QED
  BY <1>1, <1>2, <1>3, SelfHostedStep

\* The fallback from self-hosted to Cloud.
LEMMA SelfHostedToCloudInv == ASSUME RoutingInv, SelfHostedToCloud PROVE RoutingInv'
<1>1. CASE FirstAttempt("rotate", "reserve after") /\ fallbackUsed' = TRUE
  BY <1>1, FirstAttemptInv DEF SelfHostedToCloud
<1>2. CASE TryNothing /\ pc' = "reserve after" /\ UNCHANGED <<fallbackUsed, allQuota>>
  BY <1>2, MoveOn DEF SelfHostedToCloud, TryNothing, RoutingInv, TypeOK
<1> QED
  BY <1>1, <1>2 DEF SelfHostedToCloud

\* One more key of a rotation, of the first pool or of the reserve.
LEMMA RotateKeyInv ==
    ASSUME RoutingInv, NEW rotation \in {"rotate", "rotate reserve"},
           NEW after \in {"reserve after", "respond"}, RotateKey(rotation, after)
    PROVE  RoutingInv'
<1>1. PICK k \in Keys, answer \in CloudAnswers :
         /\ TryCloud(k, answer)
         /\ allQuota' = (allQuota /\ answer \in Capacity)
         /\ fallbackUsed' = (fallbackUsed \/ answer = "final")
         /\ pc' = IF answer = "final" THEN after ELSE rotation
  BY DEF RotateKey
<1>2. pc = rotation /\ UNCHANGED planVars
  BY DEF RotateKey
<1>3. allQuota' \in BOOLEAN /\ fallbackUsed' \in BOOLEAN
  BY <1>1
<1> QED
  BY <1>1, <1>2, <1>3, CloudStep

\* The end of a rotation, with self-hosted as the last resort.
LEMMA EndRotationInv == ASSUME RoutingInv, EndRotation PROVE RoutingInv'
<1>1. pc = "rotate" /\ pc' = "reserve after" /\ UNCHANGED <<planVars, allQuota>>
  BY DEF EndRotation
<1>2. CASE /\ SelfHostedIsLastResort
           /\ \E answer \in SelfHostedAnswers : TrySelfHosted(answer)
           /\ fallbackUsed' = TRUE
  <2>1. PICK answer \in SelfHostedAnswers : TrySelfHosted(answer)
    BY <1>2
  <2>2. /\ selfHostedAttempted = FALSE
        /\ request.mode # "cloud-only" /\ ~NeedsCloud(request.content)
    BY <1>2 DEF SelfHostedIsLastResort, IsCloudQuotaFallbackAllowed, RoutingInv, TypeOK
  <2>3. UNCHANGED planVars /\ UNCHANGED allQuota /\ fallbackUsed' \in BOOLEAN
    BY <1>1, <1>2
  <2> QED
    BY <1>1, <2>1, <2>2, <2>3, SelfHostedStep
<1>3. CASE TryNothing /\ UNCHANGED fallbackUsed
  BY <1>1, <1>3, MoveOn DEF TryNothing, RoutingInv, TypeOK
<1> QED
  BY <1>2, <1>3 DEF EndRotation

\* The reserve takes over, or the answer in hand is the one.
LEMMA FallBackToFallbackKeysInv ==
    ASSUME RoutingInv, FallBackToFallbackKeys PROVE RoutingInv'
<1>1. pc = "reserve after" /\ UNCHANGED <<fallbackUsed, allQuota>>
  BY DEF FallBackToFallbackKeys
<1>2. CASE ReserveTakesOver /\ TakeFallbackKeys /\ TryNothing /\ pc' = "try reserve"
  <2>1. NeedsCloud(request.content) \/ selfHostedAttempted
    BY <1>2 DEF ReserveTakesOver, CloudOutOfQuota, SelfHostedFailed, RoutingInv, PlanInv
  <2>2. NeedsCloud(request.content) => ~selfHostedAttempted
    BY DEF RoutingInv, TrailInv, RouteModeRespected
  <2>3. ~(Sensitive(request.content) /\ selfHostedAttempted)
    BY <1>2, <2>2 DEF ReserveTakesOver, CloudOutOfQuota, SelfHostedFailed, IsFallbackAllowed
  <2> QED
    BY <1>1, <1>2, <2>1, <2>3, ReserveStep
<1>3. CASE TryNothing /\ pc' = "respond" /\ UNCHANGED planVars
  BY <1>1, <1>3, MoveOn DEF TryNothing, RoutingInv, TypeOK
<1> QED
  BY <1>2, <1>3 DEF FallBackToFallbackKeys

\* The reserve's first attempt, or none.
LEMMA TryReserveInv == ASSUME RoutingInv, TryReserve PROVE RoutingInv'
<1>1. CASE FirstAttempt("rotate reserve", "respond") /\ fallbackUsed' = TRUE
  BY <1>1, FirstAttemptInv DEF TryReserve
<1>2. CASE TryNothing /\ pc' = "respond" /\ UNCHANGED <<fallbackUsed, allQuota>>
  BY <1>2, MoveOn DEF TryReserve, TryNothing, RoutingInv, TypeOK
<1> QED
  BY <1>1, <1>2 DEF TryReserve

\* The end of the reserve's rotation, and the answer to the client.
LEMMA LastStepsInv ==
    ASSUME RoutingInv, EndReserveRotation \/ Respond PROVE RoutingInv'
BY MoveOn DEF EndReserveRotation, Respond, TryNothing, RoutingInv, TypeOK

\* Every step keeps the invariant.
LEMMA NextInv == ASSUME RoutingInv, [Next]_vars PROVE RoutingInv'
<1>1. CASE DispatchCloud
  BY <1>1, FirstAttemptInv DEF DispatchCloud, RoutingInv, TypeOK
<1>2. CASE UNCHANGED vars
  <2> USE <1>2 DEF vars
  <2>1. TrailInv' /\ trail' \in Seq(Keys \cup {"self-hosted"})
    BY NothingTried
  <2>2. TypeOK'
    BY <2>1 DEF RoutingInv, TypeOK
  <2>3. HybridPools'
    BY DEF RoutingInv, PlanInv, HybridPools, ReserveAside, ReserveActive, NoReserveTried,
           CloudRoleKeys, FallbackRoleKeys, KeysWithRole
  <2>4. PlanInv'
    BY <2>3 DEF RoutingInv, PlanInv, IsFallbackAllowed, FallbackRoleKeys, KeysWithRole
  <2> QED
    BY <2>1, <2>2, <2>4 DEF RoutingInv
<1> QED
  BY <1>1, <1>2, AuthenticateInv, BuildPlanInv, LookUpCacheInv, DispatchNoCreditInv,
     DispatchReserveInv, DispatchSelfHostedInv, SelfHostedToCloudInv, RotateKeyInv,
     EndRotationInv, FallBackToFallbackKeysInv, TryReserveInv, LastStepsInv DEF Next

-----------------------------------------------------------------------------
\* The theorems.

\* The invariant holds of every routing of every request.
THEOREM RoutingInvariant == Spec => []RoutingInv
<1>1. RoutingInv /\ [Next]_vars => RoutingInv'
  BY NextInv
<1> QED
  BY InitInv, <1>1, PTL DEF Spec

\* Every variable keeps its type.
THEOREM RoutingTypeCorrect == Spec => []TypeOK
<1>1. RoutingInv => TypeOK
  BY DEF RoutingInv
<1> QED
  BY RoutingInvariant, <1>1, PTL

\* No request reaches the same key or self-hosted twice, whichever fallbacks it meets.
THEOREM NoSecondAttempt == Spec => []NothingTriedTwice
<1>1. RoutingInv => NothingTriedTwice
  BY DEF RoutingInv, TrailInv
<1> QED
  BY RoutingInvariant, <1>1, PTL

\* No fallback leaves the backends that the route mode and the request allow.
THEOREM ModeDecides == Spec => []RouteModeRespected
<1>1. RoutingInv => RouteModeRespected
  BY DEF RoutingInv, TrailInv
<1> QED
  BY RoutingInvariant, <1>1, PTL

\* What the client keeps private never moves on from self-hosted to Cloud.
THEOREM SecretsStay == Spec => []SensitiveStaysHome
<1>1. RoutingInv => SensitiveStaysHome
  BY DEF RoutingInv, TrailInv
<1> QED
  BY RoutingInvariant, <1>1, PTL

\* Hybrid's fallback-role keys come last, and after self-hosted.
THEOREM ReserveComesLast == Spec => []ReserveAfterSelfHosted
<1>1. RoutingInv => ReserveAfterSelfHosted
  BY DEF RoutingInv, TrailInv
<1> QED
  BY RoutingInvariant, <1>1, PTL
=============================================================================

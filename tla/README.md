# Verification of firecrawl-gateway

TLA+ models of the parts of the gateway whose correctness depends on order,
concurrency and failure, TLC configurations that check them on small instances,
and proofs that hold for every instance. Paths below are relative to
`apps/api/src/` of the repository unless they begin with `admin/`, which stands
for `apps/admin/src/`.

## The system

A gateway instance is one Node process. Client requests arrive on the proxy
pipeline; every `await` lets other requests run. Several instances may share one
Redis (the credit ledger) and one PostgreSQL (settings, keys, rate limits, audit).
Administrators use a dashboard in the browser that polls and calls the same API.

| component | state it keeps | operations | interacts with |
|---|---|---|---|
| circuit breaker `proxy/circuit-breaker.ts` | state, failure count, openedAt, probe flag, generation (memory) | `execute` = `acquire`, await, `release` | called by the pipeline, reports transitions to metrics |
| credit ledger `credits/credit-ledger.store.ts` | per key a pool hash, a sorted set and one hash per reservation (Redis) | five Lua scripts; 750 ms timeout | called by credit routing of every instance |
| credit routing `credits/credit-routing.service.ts` | local marks (disabled, cooling down), Redis back-off, refreshes in flight (memory) | `reserve`, `recordResponse`, `refreshCreditUsage`, the scanner for `creditsUsed` | pipeline, ledger, Firecrawl Cloud, maintenance job |
| proxy pipeline `proxy/proxy.service.ts`, `proxy/policy.ts` | the plan of each request, the two copies of a streamed answer | `handle`: authenticate, plan, cache, dispatch, rotate, fall back, respond, collect | everything |
| response cache `proxy/response-cache.ts` | entries by key, lifetime, bytes (memory) | `get`, `set`, `setTtlMs` | pipeline, settings |
| rate-limit counter `common/rate-limit-counter.ts` | buckets, flushes in flight, timers (memory); rows (PostgreSQL) | `hit`, flush, `drain` | per-IP middleware, key limits and quotas |
| virtual API keys `api-keys/api-keys.service.ts` | validation cache, reads in flight (memory); rows (PostgreSQL) | `validateApiKey`, `revokeApiKey`, limits, creation, touch | pipeline, maintenance job, dashboard |
| settings `settings/settings.service.ts`, `settings/cloud-keys.ts`, `settings/settings.controller.ts` | 5 s cache, reads in flight (memory); rows (PostgreSQL) | `getSettings`, `list`, `update`, compare-and-set of legacy keys | pipeline, dashboard, alerts |
| alerts `alerts/alert.service.ts` | incident state per rule, destination (memory) | `evaluate` every minute | settings, metrics, credit routing, Telegram |
| metrics `metrics/metrics.service.ts` | counters, window of fallbacks (memory) | observe, count in window | pipeline, alerts |
| maintenance job `cron/cron.service.ts` | none | refresh credits, revoke idle keys, prune | all stores |
| audit log `audit/` | rows (PostgreSQL) | append, list, totals, delete | pipeline, dashboard, maintenance job |
| dashboard `admin/pages`, `admin/hooks`, `admin/lib` | what each page loaded, was edited to and has in flight (browser) | poll, filter, page, select, delete, edit, save | audit, settings, keys, credits |
| sessions and guards, bootstrap, configuration, encryption, health, deployment | none of their own | stateless checks, wiring, I/O | not modelled |

What is hard in it, and what makes each component correct:

* **Breaker.** Calls overlap and end in any order, long after the circuit that
  admitted them is gone. Correct: one probe at a time, late calls without effect,
  opens exactly at the threshold, closes again once the backend is back.
* **Ledger and routing.** A credit can be reserved, refunded, charged, expired and
  reconciled by parties that do not wait for each other; a script may run without
  its caller ever hearing of it; snapshots of Cloud's own count arrive late; the
  usage is read off a stream that is not parsed. Correct: counters and records
  agree, no credit is created, a reservation in flight is left to its request, the
  ledger returns to Cloud's count, and what is settled is what Cloud reported.
* **Pipeline.** Up to two key pools with a rotation each, and self-hosted as a
  first choice or as one of three fallbacks. Correct: nothing is tried twice, the
  route mode and the privacy flags hold on every path, and one answer is sent.
* **Caches** (settings, keys, responses): a read in flight against a write, an
  entry that use keeps alive, a copy that ends early. Correct: nobody who begins
  after a change was answered gets what was before it, every cache catches up,
  only whole answers are stored, and no upstream is kept open for ever.
* **Counters**: flushes overlap with hits, fail, are replayed and outlive their
  window. Correct: every hit is accounted for and none leaks into another window.
* **Alerts**: messages fail, and settings change, during an evaluation. Correct:
  whoever hears of an end heard of the incident; a lasting problem is announced.
* **Dashboard**: answers arrive late and out of order while what they are about is
  edited, filtered or deleted; the filters are written twice, once in the browser
  and once in SQL. Correct: what is shown belongs to the filters and page that are
  set, what is called saved is stored, and the two agree.

`PROJECT.json` lists each hazard at its line with the properties about it.

## Modules

| module | models | checked by | theorems |
|---|---|---|---|
| `BreakerPromise` | abstract: what the breaker promises, without generation or flag | refined by `CircuitBreaker` | |
| `CircuitBreaker` | `execute`, `acquire`, `release`, `open`, with many callers | `breaker` | `CircuitBreakerProofs` |
| `CreditLedger` | the Lua scripts, one action each; abstract for `CreditRouting` | `routing` | `CreditRoutingProofs` |
| `CreditRouting` | extends the ledger by instances, requests, refreshes and Cloud | `routing`, `routing_converges` | `CreditRoutingProofs` |
| `CreditsUsed` | the scanner for `creditsUsed`, beside the writer of the document | `responses` | `CreditRoutingProofs` |
| `RequestInspection` | what is read off a request before it is routed | with `ProxyRouting` | |
| `ProxyRouting` | one request through `handle()` | `proxy`, `proxy_sensitive_fallback` | `ProxyRoutingProofs` |
| `ResponseCache` | the cache and the collection of a streamed answer for it | `responses` | `AccountingProofs` |
| `RateLimitCounter` | one key's buckets, flushes and row, shared with other instances | `rate_limit`, `rate_limit_idle` | `AccountingProofs` |
| `FreshReads` | abstract: a row read through no cache, by calls that know what their instance has heard | refined by `KeyValidation` | |
| `KeyValidation` | one virtual key's validation on several instances | `keys` | `KeyValidationProofs` |
| `Settings` | settings behind the cache of an instance, saves and legacy keys | `settings` | `SettingsProofs` |
| `AlertService` | evaluations, incidents and messages, and the window they read | `alerts` | `AlertServiceProofs` |
| `AuditFeed` | the request log and the dashboard page that follows it | `dashboard` | `DashboardProofs` |
| `SettingsPages` | the pages for Cloud keys and settings, and what `update()` merges | `dashboard` | `DashboardProofs` |
| `VirtualKeysPage` | the page for virtual keys, and the operations it calls | `dashboard` | `DashboardProofs` |

`MC<module>` instantiates a module for TLC; `MCDashboard` has the three pages,
`MCResponseCache` both readers of a streamed answer, and `MCCircuitBreaker`,
`MCCreditRouting` and `MCRateLimitCounter` several uses of one component, told
apart by a variable that never changes (`disabled`, `scene`, `use`).

A definition whose comment begins with "Mutant:" is a plausible bug of the
definition after it. No specification uses it; it is there to confirm that a
property notices the bug.

### CircuitBreaker

`acquire()` splits into `AdmitClosed`, `AdmitProbe` and `Reject`, `release()` into
`ReleaseProbe`, `ReleaseStale` and `ReleaseClosed`; `execute()` with a threshold of
0 is `Bypass` and `ReleaseBypass`. A call's permit is kept in `permit`, with a flag
that tells whether the backend was down during its flight, so that failures have a
cause: `failed` stands for `isSelfHostedUnavailable`, and a backend too slow to
answer within `requestTimeoutMs` counts as down. The clock is `elapsed`, the ticks
since `openedAt`, kept up to `Cooldown`, because the code only compares the
difference with `cooldownMs`.

### CreditLedger

A script of Redis is atomic, so a script is an action. `open` is the set of
reservations whose hash exists, `tracked` the sorted set; the hash expires and the
set does not, which is why the two differ. `reserve()` draws a random UUID for each
reservation: `Ids` are the UUIDs there are, none is drawn twice, and `sequenceOf` is the
pool's sequence that the script writes into the hash, by which `ReconcileScript` tells
what a snapshot has seen. The scripts write
the states `refund`, `cooldown`, `disabled` and `reconciled` into a hash that they
delete before they end, so that no other script ever reads them, and the model
leaves them out. Every reservation is for one credit (`estimateCreditCost`).
`budget` is a history variable: what the last reconcile granted. In this module the
callers are unconstrained: any script, any reservation, any snapshot, in any order.

### CreditRouting and CreditsUsed

`CreditRouting` adds the callers. A request is idle, sent with a key and a
reservation (or `Local`, none), and answered; `recordResponse()` is one action per
branch, each with the settlement done or lost. A refresh captures the sequence,
fetches, and reconciles, with other steps between each two. `ReserveOrphaned` is the
script that ran after its caller gave up; `redisDown` is `redisUnavailableUntil`.
Firecrawl Cloud is external: it serves and charges, refuses, and renews. `Restart`
loses what the process kept in memory. Abstractions: a script whose caller gave up
has run by then or never runs; a time to live always exceeds the request it covers
(`reservationTtlSeconds` adds a minute to `requestTimeoutMs`); which key
`reserveLocally` ranks first is any choice. `Local` in place of a UUID is a reservation
that `reserveLocally` made and Redis does not know.

`CreditsUsed` has a writer beside the scanner. The writer emits any JSON text token by
token, with a stack of the containers that are open and the key last written in each, so
that it knows when a number it ends is `metadata.creditsUsed` of the outermost object:
`reported` is the first such number that is a safe integer. `Push` is one call of the
scanner, `ProcessToken` one handler per state; the scanner has no stack but two depths
and the mark of `metadata`. A string is one token (`other` for every other one, also one
with an escape), a character of a number in another notation or of a literal is `x`, and
where the text is cut into chunks makes no difference, because the fields of the scanner
outlive a chunk. Texts are valid JSON; how an invalid one is read is not modelled.

### RequestInspection and ProxyRouting

`RequestInspection` says what makes a request sensitive and when only Cloud can
serve it: headers that are the client's and not the gateway's own, what
`walk()` meets in a JSON body, the path. A body is the set of what it holds.

In `ProxyRouting` `pc` names the stage of `handle()`; an action is one await with
everything decided on its answer. `request` holds its content, the route mode and a
role per key, and takes every value initially. Answers are classes of statuses:
`quota` (402, 429), `auth` (401, 403), `final` (anything else that is not retried),
`network`; for self-hosted `failing` is what `isFallbackEligible` accepts. Which key
a pool reserves is free, or none at all. `trail` is a history variable: the
upstreams tried, in order.

### ResponseCache

A request reads the lifetime with its settings (`Plan`), applies it and looks its
key up without an await in between (`LookUp`), and on a miss may get a streamed
answer that is split in two (`Dispatched`). `both`, `client` and `collector` say who
still reads. The collector's loop is state: a chunk is a step (`Sends`), which adds to
what is `held` or gives up because it is too much; the timer sets `abandoned`
(`Abandon`), which the loop notices when its read returns (`CollectorReturns`). The
upstream may end the body early (`UpstreamEnds`), fail (`UpstreamFails`) or stall. `body`
says what it had to send and whether that parses to `success: true`; it stays with the
entry as history. Once the upstream has ended, the client reads what is buffered
(`draining`); after an upstream error its answer is left open (`stranded`, see
Observations) until it goes away itself. The copies' buffers and what the client has
received of them are left out. `entries` is the Map in
insertion order; `totalBytes` is counted beside it, as in the code, and `Evicted` drops
entries from its front until that count is within the bound. The key of an entry stands
for `cacheLookupFor()`'s hash.

### RateLimitCounter

A bucket is a record as in the code; its `resetAt` and `lastFlushAt` become `window`
(the window of the row it last heard of, 0 before), `ended` (a provisional window
is over) and `stale` (the flush interval has passed), and time is three actions.
A timer belongs to the key and remembers the bucket it was set for. A query is
sent, committed and acknowledged, and fails before or after it commits. `hits`,
`acked` and `dropped` are history variables. `Scheduled` tells the counter of
`ApiKeysService` (true) from the per-IP middleware's (false, and never drained),
`Pinned` a monthly quota from a window of one minute. Other instances meet this
one in the row only, so that they are an action, `OthersFlush`. The clocks of the
instances and of PostgreSQL are taken to agree; a key that other keys push out of the map is
`Evict`. Resumed waiters run in the order in which they began to wait.

### KeyValidation

`validateApiKey()` splits at its one await: `ValidateApiKey` looks at the cache,
joins the read in flight or begins one, `Find` is PostgreSQL, and `Found` and
`FindFails` are what follows for the reader and all who joined it. A change
(`revokeApiKey()`, `updateApiKeyLimits()`) is `Change` at PostgreSQL and then
`ChangeAnswered` or, if the answer never comes, `ChangeLost`. A row is its version and
whether it is revoked. `floor` and `acked` are history variables. Abstractions: other
keys appear only as `Evict`; the condition of `revokeInactiveKeys()` on age and last
use is "at any time"; a request may run on any instance.

`ServesFresh` is what the whole promises, without cache, joined reads or flight:
`FreshReads`, where a call is answered with a version that was stored and that is no
older than what its instance had heard when the call began. `newest` is the row's
version, `heard` is `acked`, and a call is open while its request waits (`Viewed`).
`ChangeTakesEffect` is the part of it that README.md:41 of the repository states.

### Settings

A call of `getSettings()` begins by taking what is cached, joining what is in flight
and asking for the rest in one query (`Begin`); `Query` is PostgreSQL, `Arrive` and
`QueryFails` end the query for its caller and all who joined it. `batch` is the query
each call sent, `inflight` whose query a setting waits for. A proxied request then
uses the keys (`Use`): an encrypted row is parsed and kept (`parsed`), a plaintext one
is encrypted by compare-and-set (`Encrypt`, `Replaced`). `update()` saves one setting
after the other, each stored (`Upsert`) before it is forgotten here (`Upserted`).
A row is the number of the save that wrote it and whether it is encrypted. `floor`
and `saved` are history variables. Other instances write the same table
(`SavedElsewhere`). Which settings a PUT may hold, and what it merges, is in
`SettingsPages`.

### AlertService

`evaluate()` splits at its awaits: the settings are read (`LoadNothing`,
`CollectChecks`), then the rules are applied in their order, each message being sent
and acknowledged, delivered without an acknowledgement, or lost. `heard` is a history
variable: what the current audience was last told of each rule, where `over` is a
RESOLVED that was delivered and not acknowledged, after which the code goes on as if the
incident were firing. Minutes pass while an evaluation is
in progress, up to `MaxLag`; the timer starts no second one. `minutes` is the window
of fallbacks, bucket by bucket. The rule for low credits is in the module and not in
the run, where it would repeat the other two.

### AuditFeed, SettingsPages, VirtualKeysPage

Each has the page's React state as variables, the calls it has in flight with what
they carry, and the server's part of each call. An answer is used or dropped by the
page's own rule (an aborted controller, a sequence number, a ref). `AuditFeed` stamps
an entry before it writes it, so that rows appear out of order, and gives the totals'
query with all its filters beside the table's filter function. Of the balances on the
page for Cloud keys `SettingsPages` only has that a save ends with loading them.
`VirtualKeysPage` has the dialog for
limits, whose inputs cannot show every stored value. Leaving a page forgets its calls:
a save that had reached only the refresh of the balances leaves nothing behind. `AuditFeed` counts whole days of a
small calendar, and `VirtualKeysPage` clock ticks of which `Minute` make a minute.

## Runs

| run | shows | bounds |
|---|---|---|
| `breaker` | one probe at a time; refinement of `BreakerPromise`; the circuit closes once the backend stays up; the same with the breaker disabled | 4 callers, threshold 2 or 0, cooldown 2 ticks, circuit opens 3 times |
| `routing` | counters exact and no credit created, for any callers; a reservation in flight is held until it is settled or seen by a snapshot | scene `ledger`: 2 keys with different renewal days, 3 reservations; `requests`: 1 instance, 2 requests, 2 reservations; `instances`: 2 instances, 1 request, 1 reservation; snapshots 0 to 2, usages 0 and 2 |
| `routing_converges` | orphans drain, the ledger converges to Cloud, local marks lift | 1 key, 1 instance, 1 request, 2 reservations |
| `proxy` | mode and privacy respected, reserve last, every request answered | 3 keys, every role assignment, every mode, 5 kinds of body, 3 of headers |
| `proxy_sensitive_fallback` | violation, see below | 2 keys |
| `rate_limit` | no hit lost or leaked into another window, the row counts everyone, the drain tries thrice; a quota's hits are written without another request | 3 hits, 1 flush by another instance, 2 windows (1 for the quota), 1 replayed hit, evictions |
| `rate_limit_idle` | violation, see below | 3 hits, 2 windows |
| `keys` | refinement of `FreshReads`: answers follow changes on the instance that made them; revocations spread, validations end | 2 instances, 2 requests, 2 changes, time to live 2 ticks |
| `settings` | reads follow saves, no save is undone, caches converge, legacy keys end up encrypted | 2 calls, 2 settings, 1 save of each, 1 fault, time to live 1 tick |
| `responses` | only whole answers are cached, bytes are counted, a cache turned off ends up empty, upstreams are let go of; the usage settled is the one reported | 2 requests, 2 keys, the cache off or a lifetime of 1 tick, answers of up to 3 chunks, of which an entry and the cache hold 2; numbers of up to three digits, largest safe integer 10, documents up to a depth of 3 |
| `alerts` | an end is only told to who heard of the incident, who was told of it last is told of a lasting problem again, incidents end | 2 audiences, 2 rules, reminder after 4 minutes, 2 clean checks, window of 1 minute, evaluations of up to 1 minute |
| `dashboard` | cards match the filters, the page has rows, the feed converges, saved means stored, untouched limits are kept | 3 entries of which 2 are loaded, 2 filters chosen, 1 fault; 1 Cloud key and one too short to be accepted; 1 save by others, 1 failure; 2 virtual keys, 4 ticks |

Why the bounds suffice: four callers are a probe, a straggler of an older
generation and two calls of the current one, and three generations let a straggler
meet a circuit that has closed and opened again since. Two reservations are one
before and one after the capture of a refresh, and usages of 0 and 2 lie on both
sides of the one credit reserved; a snapshot of 1 is smaller than the number of
pending reservations. Three keys give a pool and a reserve of which one needs a
rotation. Three hits are one that is flushed, one that arrives during the flush and
one for the bucket of the next window. Two requests are a reader and
one that joins it, or two readers one of which a change has displaced; the second
setting makes a call wait for two queries, or hold one answer while it waits for the
other. A cache of two units holds two small entries or one large one, so that
storing evicts; an answer of three chunks outgrows an entry. With one lifetime besides
0 a request's `maxAge` never narrows it in the run, which no property is about. Two audiences are the one that was told and the one that was not; two
clean checks let a problem come back between them, and four minutes to the reminder let
it come back after a RESOLVED and stay unmentioned for a while. Three entries with a limit of two
have one that is pushed out of the table and comes back when another is deleted; two
choices of filters let an answer for the first arrive under the second. What the
proofs cover does not depend on bounds.

`MaxGeneration`, `MaxSaves`, `MaxChanges`, `MaxHits`, `MaxTime` and
their like bound counters that grow without limit: in the last outage no more calls
are sent, and no reservation is made once the UUIDs of `Ids` are drawn. `MaxFaults`,
`MaxFailures`, `MaxReplays` and `MaxLostCalls` bound what goes wrong. Symmetry
is used for requests, instances and UUIDs of `CreditRouting`, without liveness only. The scenes
of `MCCreditRouting` and the modes of `MCDashboard` leave actors out, never a
step of those that act, except where `MCDashboard` lists the steps a mode is about.

`CHECK_DEADLOCK FALSE` in `ProxyRouting`, where a request ends when it is
answered, in `RateLimitCounter`, where the instances stop, and in `MCDashboard`, where
a page may be left with nothing to do.

### Fairness

* Breaker: time passes, every call ends (at the latest when its
  `requestTimeoutMs` abort fires), and callers keep calling; without the last a
  breaker nobody uses stays open, as it does in the code, where only a call turns
  it half-open.
* Routing: Cloud calls end and are recorded. The refresh steps are strongly fair:
  the maintenance job comes back, and neither Redis nor Cloud is down for ever, but
  each may fail any number of times.
* Counter: timers fire, the drain goes on, a query ends, and PostgreSQL does not
  fail for ever (strong fairness of the commit and of its answer). Nothing makes
  a request arrive or a window end.
* Keys: time passes, queries end, and requests go on. Nothing makes a request or a
  change happen, and a busy key is not taken to fall silent.
* Settings: queries end, a request that holds a row goes on with it, time passes, and
  some requests keep needing the keys. Nothing makes a save happen or finish.
* Responses: requests go on and armed timers fire. Nothing makes the upstream send,
  the client read or leave, or the body end: upstreams are let go of by the timers
  alone. `OffMeansEmpty` supposes that requests go on coming, as its formula says.
* Alerts: the timer fires and an evaluation ends. Neither PostgreSQL nor Telegram
  fails for ever (strong fairness of a successful read and of a delivered message).
* Dashboard: the poll and the timers fire, the server answers, answers arrive. An
  answer for totals that is displaced again and again arrives in the end (strong
  fairness), because filters are not changed for ever.
* Pipeline: weak fairness of the next step, since each await has a timeout.

`LocalDisableLifts` is a property of one instance: the maintenance job is served
by whichever instance receives it, and `localDisabled` of another instance is only
lifted by a refresh of its own. `LedgerConverges` is checked with one instance too; of
two that refresh at once `routing` says that neither closes what its snapshot has not
seen (`ReservationHeld`). `Answered` says that a request is answered; which answer it
gets is not stated, beyond what the other properties say of its backends.

### Disagreements with comments and documentation

`SensitiveSparesFallbackKeys` is violated. `README.md:34` of the repository says
that the hybrid path's fallback keys do not take over when sensitive headers or
private targets are present. `proxy/proxy.service.ts:503` and `:615` let them take
over from the cloud-role keys for a request that only Cloud can serve, without
looking at the privacy flags; only the takeover after self-hosted failed (`:622`)
looks. The trace: hybrid, one cloud-role and one fallback-role key, no cloud-role
credit, a sensitive Cloud-required request goes to the fallback-role key.

`IdleUsagePersisted` holds for quotas and is violated for limits per minute.
`common/rate-limit-counter.ts:24` promises that a bucket's pending hits are flushed
"even if no further request arrives". `scheduleFlush()` keeps one timer per key
(`:129`). A timer set near the end of a window is still set when the next window's
bucket has hits to write, so that none is set for it; when it fires it sees that
its own bucket was replaced (`:134`) and returns. The new hits stay in memory until
another request comes.

### Observations

Behaviour met while modelling that no comment or document of the repository
contradicts, and that the models contain where they model the place:

* The page number of the virtual keys is not clamped (`admin/pages/ApiKeys.tsx:868`),
  and the pagination hides with one page left: after the last key of the last page was
  revoked the table is empty until the filter is changed.
* After a failed load the pages for Cloud keys and settings say that nothing is to be
  saved over an empty form, and a save from it replaces everything stored.
  `SavedMeansStored` therefore asks for a page that has loaded.
* The settings page sends all its fields on each save, so that two administrators
  overwrite each other's. The page for limits sends only what was edited
  (`UntouchedFieldsKept`).
* Lists of the virtual keys' page that overtake each other are shown in the order of
  arrival; the answer to a save of limits closes whichever dialog is open by then.
* A selection of log entries keeps those that filters hide or others have deleted.
* The response cache's key does not contain `maxAge`; an entry too old for one request
  stays for the next (`Get`).
* The repository's `README.md:43` says that a rule "alerts once" and sends one
  "resolved" message. That is so while messages are acknowledged. A message that was
  delivered without an acknowledgement is sent again, an alert of that kind whose
  signal then goes away is never resolved, and a problem that comes back after such a
  RESOLVED is not announced before the reminder is due
  (`alerts/alert.service.ts:199-217`, `:223-228`).
* When the upstream fails in the middle of a streamed answer, `sendProxyResponse()`
  rejects and destroys its source (`proxy/proxy.service.ts:919-937`), but the hijacked
  answer is neither ended nor destroyed: `pipe` does not end its target on an error,
  and Fastify only logs. The client waits until it or its connection gives up
  (`stranded`).
* The comment at `admin/lib/credits.ts:10-15` calls the dashboard's prediction of the
  next key the gateway's selection rule. It knows neither roles, of which hybrid mode
  spends the cloud-role keys first (`README.md:30`), nor cooldowns, nor that the gateway
  keeps what it last knew of a key whose usage cannot be read
  (`credits/credit-routing.service.ts:412-475`). The prediction is not modelled.
* A key whose pool Redis does not know yet is skipped as long as another candidate is
  known (`credits/credit-ledger.store.ts:66`).
* A flush sent just before its window ends and committed just after counts toward the
  next, which `README.md:40` of the repository accepts. `FlushesAreCurrent` is
  about sending.

## Proofs

Checked by tlapm for every value of the constants.

* **`CircuitBreakerProofs`**, from `ThresholdAssumption` and `CooldownAssumption`
  (both in Nat). The inductive invariant `BreakerInv` is `TypeOK`,
  `ProbeDiscipline`, `GenerationsSeparate` and `ClosedBelowThreshold` together:
  none is inductive alone. That a late call cannot open the circuit needs the
  generations, and that `Open` never happens from half-open by anything but the
  probe needs the probe discipline. From it follow the four invariants and, with
  one lemma per group of actions, the refinement `Spec => Promise!Spec`. With a threshold
  of 0 the circuit never opens (`DisabledStaysOut`).
* **`CreditRoutingProofs`** has the ledger first, from the assumptions that snapshots
  and usages are natural numbers and that the UUIDs are finitely many. `LedgerInv` is `LedgerTypeOK`, `ReservedIsTracked`,
  `OpenIsTracked` and `NoCreditCreated`. `OpenIsTracked` says
  that what is open is tracked and what is tracked has a number no larger than
  `reserveSequence`: a UUID that was not drawn is in neither record, and the
  cardinalities of the others rest on that. `reserved` stays a natural number because
  it is the size of a set.
  The gateway follows, from `AllowanceAssumption` and `LocalAssumption` besides.
  `GatewayUsesLedger` is the refinement `Spec => LedgerSpec`: whatever is lost,
  restarted or late, a step of the gateway is a script with arguments that
  `CreditLedger` allows. It carries the ledger's theorems over, and needs to know that
  a request's reservation is one that was made. `GatewayInv` says that no request
  holds a UUID that was not drawn, no two hold the same, and no refresh captured a
  sequence its pool has not reached, so that what is reserved later is numbered beyond it.
  `HeldUntilSettled` proves the action property `ReservationHeld` from both.
* Of the scanner, in the same module, for documents of any depth, any numbers and any
  safe limit of at least 9: `SettlesReportedUse` says nothing of the fields that lead to
  it. `ScanInv` adds, as long as nothing is found, that the depths are the numbers of
  open objects and arrays and the mark says whether `metadata` is open (`DepthsAgree`),
  and for each place in the text what the scanner's state is there (`StatesAgree`).
  Its heart is `MeantDepths`: two numbers and a mark tell the scanner what the writer
  reads off a whole stack, since inside `metadata` depths of two and zero leave no
  room for another container. `OverflowsExactly` is that the test before a digit is
  added fails exactly when the number would pass the limit. Once something is found the
  scanner stops and its depths with it, hence the condition.
* **`ProxyRoutingProofs`**, for any keys and roles. `RoutingInv` is `TypeOK`, what was
  tried (`TrailInv`) and what may be tried next at each stage (`PlanInv`): in hybrid
  mode either the reserve is untouched, or self-hosted had its chance before it. The
  privacy property needs the plan, since self-hosted is reached on three paths.
* **`AccountingProofs`** is about the two counts that the gateway keeps beside what they
  count, and has the lemmas about sums that both need. Of the rate-limit counter, for
  any mode and any bounds: `CounterInv` is `TypeOK` with `HitsAccounted`, since the
  account of the bucket a flush belongs to is even only if the flush points to a bucket
  there is. Each step is a change of one bucket and of the flight (`ReplaceSound`,
  `ChangeSound`, `AppendSound`). `NothingLateIsSent` proves the action property
  `FlushesAreCurrent` from it. `RowIsComplete` adds `RowInv`: no bucket, nor a flush
  whose answer is on its way, knows of a later window than the row's (`WindowsOrdered`),
  and the row's count is the acknowledged hits of its window, those whose answer is on
  its way, those of other instances, and at most the replayed ones (`RowAccount`). The
  property only says that the row is neither behind nor ahead; that is not inductive
  because an acknowledgement moves hits from one of these to another.
  `DrainIsThorough` adds `DrainInv`, which relates the failures to the passes made: what
  a pass has in flight left nothing behind, and failed or not, the next pass sees it.
* Of the response cache, in the same module, from `LifetimesAssumption` and
  `SizesAssumption`: `CacheInv` is the types with `CacheKept`, that no key has two
  entries, that every entry is a whole successful body of an allowed size, and that
  `totalBytes` is the sum of the sizes and within the bound. That no key has two entries
  is what a Map gives the code; the model's sequence has it because `set()` and `get()`
  take an entry out before they append it. Its lemmas go operation by operation
  (`RemovedKeeps`, `GetKeeps`, `EvictedKeeps`, `PutKeeps`): each maps a cache with a true
  count to one. `UpstreamEndsKeeps` is the step that stores: what the loop holds when
  the upstream ends is whole only by the test that follows it. `BytesAreCounted` and
  `CachedIsComplete` follow.
* **`KeyValidationProofs`**, for any instances, requests and changes. `KeyInv` adds
  to `TypeOK` and `ChangeTakesEffect` that nothing is newer than the row (`Bounded`),
  that the cache and the read in flight are as new as what their instance has
  answered (`Current`), and that a read is new enough for everybody who waits for it
  (`ReadsServe`). The last is why a change must drop the read in flight, and not
  only the cached entry. `ValidationServesFresh` is the refinement
  `Spec => Promise!Spec`, with one lemma per action: a request that joins or reads is
  the abstract `Begin`, a hit is `BeginAnswered`, an answer is one `Answer` to all who
  wait for the read, a committed change is `Store` and its answer `Hear`; queries, lost
  answers, time and eviction stutter. It also needs that nothing kept is newer than the
  row (`Past`).
* **`SettingsProofs`**, for any settings, callers, batches and lifetimes, from
  `NamesAssumption` and `BoundsAssumption`. `SettingsInv` adds to `TypeOK` that what
  is cached and what may be joined is as new as what was saved and answered
  (`CacheFresh`, `JoinFresh`), and that every call waits for queries as new as it needs
  (`Served`, in which a call may wait for several). `ReadsFollowSaves` follows from
  the last; `NoSaveUndone` proves the action property `SavesSurvive`.
* **`AlertServiceProofs`**, for any audiences, rules and delays. `AlertInv` is `TypeOK`
  with `FiringWasHeard`: every step that forgets whom it told also forgets the
  incident, and an audience that was told of an end keeps the incident open until the
  gateway knows it was. `NoUnheardEnd` proves the action property `ResolvedWasHeard` from it.
* **`DashboardProofs`**, for any keys, log, calendar and choices that meet
  the named assumptions of the three pages' modules.
  `OnlyEditedLimits` needs `KeysInv`: keys are never removed, so that what was listed
  names a key still; what differs in the dialog from what was listed was touched; and a
  save in progress sends nothing else.
  `CardsAreTrue` needs `FeedInv`: totals are of a log that was read under the query
  they carry. Its heart is `SameFilter`, that the SQL condition and the browser's filter
  select the same entries, with its arithmetic of days, weeks and months.
  `NoEmptyPage` needs only what the view may be, and the rank of an entry in the order
  of the table.
  `SavedIsStored` needs `PagesInv`: of what only this page has stored since it was read,
  each field is what the snapshot says or what it will say when the save in progress
  ends (`AgreeOK`), although a save stores one field after the other; the other parts
  say what the page may have in flight.

A recursive fact, such as what a sum over a set is or that a set of numbers has a least
element, is proved by the smallest counterexample: the library's theorems on
well-founded orders (`WFMin` with the order on the naturals or on finite subsets) take no
operator as a parameter, unlike its induction rules, so that the provers can use them.

What the proofs brought to light: with `MaxWindows` 0 the counter's first commit would
have opened a window beyond the bound, so the bound is now at least 1; and a save that
was only refreshing balances when its page was left used to stay in progress in the
model for ever, where the code's callbacks belong to a page that is gone, so that no
later save could begin (`Leave` in `SettingsPages`).

Only model-checked: the liveness properties (`Recovers`, `ReservationsDrain`,
`LedgerConverges`, `LocalDisableLifts`, `Answered`, `QuotaUsagePersisted`,
`RevocationSpreads`, `ValidationsEnd`, `CachesConverge`, `LegacyEncrypted`,
`OffMeansEmpty`, `UpstreamsReleased`, `ProblemsAnnounced`, `IncidentsEnd`, `DashboardConverges`), since the
prover reaches neither fairness nor ENABLED.

## Not modelled

* Sessions, guards and login: a signature check per request, no state.
* Bootstrap, configuration, encryption, health and deployment: parsing and I/O.
* The pipeline's copying of headers, building of URLs and the fields of an audit entry.
* The counters of `metrics.service.ts` and their text format, which nothing reads back.
* The balances that the page for Cloud keys shows, and its prediction of the next key.
* The dashboard's login, account, playground, charts and layout.
* The cache of usage answers for the dashboard in `credit-routing.service.ts`, the
  debounce of `touchApiKey()`, and the batches in which the maintenance job prunes:
  none is read by anything whose result depends on the order.

## What is left

1. A composition of pipeline, breaker and ledger in one module: today each is free in
   what the others answer, which covers every composition's safety but not, for
   instance, that a rotation ends with the keys the ledger really has left.
2. `Settings` as a refinement of `FreshReads`, setting by setting; its promise is stated
   and proved as the invariant `ReadYourSaves`.

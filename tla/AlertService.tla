---------------------------- MODULE AlertService ----------------------------
(***************************************************************************)
(* The Telegram alerts of one gateway instance (alerts/alert.service.ts)   *)
(* and the window of recent requests they read (metrics.service.ts).       *)
(* Every minute a timer starts an evaluation unless one is still running:  *)
(* it reads the Configure settings, compares each rule with what the       *)
(* process knows, and sends what has changed, one message after the other. *)
(* A message may be delivered although its answer is lost.                 *)
(*                                                                         *)
(* Time is counted in minutes since an event and kept no longer than the   *)
(* code looks back.  `heard' is a history variable: what the current       *)
(* audience was last told of each rule.                                    *)
(***************************************************************************)
EXTENDS Integers

CONSTANTS Audiences,      \* pairs of a bot token and a chat id
          Nobody,         \* no valid pair is stored
          Rules,          \* the rules of the instance, among Position's
          Reminder,       \* REMINDER_MS, in minutes
          ResolveAfter,   \* RESOLVE_AFTER_CLEAN_CHECKS
          Window,         \* FALLBACK_WINDOW_MINUTES
          MinRequests,    \* FALLBACK_MIN_REQUESTS
          RatioPercent,   \* alert_fallback_ratio_percent, while it is not 0
          MaxPerMinute,   \* bound: requests in one minute
          MaxLag          \* bound: minutes an evaluation may take

ASSUME NobodyAssumption == Nobody \notin Audiences
ASSUME MinutesAssumption == /\ Reminder \in Nat \ {0} /\ ResolveAfter \in Nat \ {0}
                            /\ Window \in Nat \ {0} /\ MaxLag \in Nat
                            /\ MaxPerMinute \in Nat

\* The order the rules are applied in.
Position == [credits_low |-> 1, fallback_rate |-> 2, circuit_open |-> 3]
ASSUME RulesAssumption == Rules \subseteq DOMAIN Position /\ "circuit_open" \in Rules

VARIABLES audience,       \* the pair the Configure page stores, or Nobody
          switchedOn,     \* the rules whose threshold is not 0
          signals,        \* rules that would be active: the estimated credits lie
                          \* below the threshold, currentCircuit is not closed
          minutes,        \* minuteBuckets, by age
          incident,       \* states
          destination,
          eval,           \* the evaluation in progress
          heard           \* history: what the audience was last told of each rule

worldVars == <<audience, switchedOn, signals>>
vars == <<worldVars, minutes, incident, destination, eval, heard>>

Ages == 0..(Window + MaxLag - 1)
Buckets == {b \in [total : 0..MaxPerMinute, fallbacks : 0..MaxPerMinute] :
              b.fallbacks <= b.total}

\* since: minutes since lastNotifiedAt, which is the start of the evaluation that
\* sent the message.
Incidents == [firing : BOOLEAN, since : 0..(Reminder + MaxLag),
              cleanChecks : 0..(ResolveAfter + 1)]
NoIncident == [firing |-> FALSE, since |-> 0, cleanChecks |-> 0]

\* "over": a RESOLVED reached the audience, but the gateway does not know it did.
Hearings == {"nothing", "firing", "over"}
Unheard == [r \in Rules |-> "nothing"]

Idle == [pc |-> "idle"]
Evaluations ==
    [pc : {"idle"}] \cup [pc : {"loading"}, lag : 0..MaxLag]
    \cup [pc : {"applying"}, lag : 0..MaxLag, active : SUBSET Rules, todo : SUBSET Rules]

\* What is not firing has no clean checks left over from an earlier incident.
TypeOK ==
    /\ audience \in Audiences \cup {Nobody}
    /\ switchedOn \in SUBSET Rules
    /\ signals \in SUBSET (Rules \ {"fallback_rate"})
    /\ minutes \in [Ages -> Buckets]
    /\ incident \in [Rules -> Incidents]
    /\ \A r \in Rules : incident[r].firing \/ incident[r] = NoIncident
    /\ destination \in Audiences \cup {Nobody}
    /\ eval \in Evaluations
    /\ heard \in [Rules -> Hearings]

NoRequests == [total |-> 0, fallbacks |-> 0]

Init ==
    /\ audience \in Audiences \cup {Nobody}
    /\ switchedOn = Rules
    /\ signals = {}
    /\ minutes = [a \in Ages |-> NoRequests]
    /\ incident = [r \in Rules |-> NoIncident]
    /\ destination = Nobody
    /\ eval = Idle
    /\ heard = Unheard

-----------------------------------------------------------------------------
\* The world: what the administrator saves and what the gateway observes.

Configure ==
    /\ \/ /\ audience' \in (Audiences \cup {Nobody}) \ {audience}
          /\ UNCHANGED switchedOn
       \/ \E r \in Rules \ {"circuit_open"} :
             /\ switchedOn' = IF r \in switchedOn THEN switchedOn \ {r}
                              ELSE switchedOn \cup {r}
             /\ UNCHANGED audience
    /\ UNCHANGED <<signals, minutes, incident, destination, eval, heard>>

\* The estimate of the credits crosses the threshold, or the circuit opens or
\* closes (half-open alerts as open does).
SignalChanges ==
    /\ \E r \in Rules \ {"fallback_rate"} :
          signals' = IF r \in signals THEN signals \ {r} ELSE signals \cup {r}
    /\ UNCHANGED <<audience, switchedOn, minutes, incident, destination, eval, heard>>

\* observeRequest() of a request that reached a backend, and countInWindow().
ObserveRequest(fallbackUsed) ==
    /\ minutes[0].total < MaxPerMinute
    /\ minutes' = [minutes EXCEPT ![0] =
          [total |-> @.total + 1, fallbacks |-> @.fallbacks + IF fallbackUsed THEN 1 ELSE 0]]
    /\ UNCHANGED <<worldVars, incident, destination, eval, heard>>

-----------------------------------------------------------------------------
\* The rules.

Sum(lag, field) ==
    LET recent == {a \in Ages : lag <= a /\ a < lag + Window}
        upTo[a \in -1..(Window + MaxLag - 1)] ==
            IF a = -1 THEN 0
            ELSE upTo[a - 1] + IF a \in recent THEN minutes[a][field] ELSE 0
    IN upTo[Window + MaxLag - 1]

\* recentFallbackStats() as of the minute the evaluation began in.
FallbacksHigh(lag) ==
    LET total == Sum(lag, "total")
        percent == (200 * Sum(lag, "fallbacks") + total) \div (2 * total)   \* Math.round()
    IN total > 0 /\ total >= MinRequests /\ percent >= RatioPercent

Active(r, lag) == IF r = "fallback_rate" THEN FallbacksHigh(lag) ELSE r \in signals

Checked == {r \in Rules : r = "circuit_open" \/ r \in switchedOn}

-----------------------------------------------------------------------------
\* evaluate()

\* A minute passes and the timer fires: an evaluation that is still running is
\* not disturbed.
Tick ==
    /\ eval.pc # "idle" => eval.lag < MaxLag
    /\ eval' = IF eval.pc = "idle" THEN [pc |-> "loading", lag |-> 0]
               ELSE [eval EXCEPT !.lag = @ + 1]
    /\ minutes' = [a \in Ages |-> IF a = 0 THEN NoRequests ELSE minutes[a - 1]]
    /\ incident' = [r \in Rules |->
          IF incident[r].firing /\ incident[r].since < Reminder + MaxLag
          THEN [incident[r] EXCEPT !.since = @ + 1] ELSE incident[r]]
    /\ UNCHANGED <<worldVars, destination, heard>>

\* The settings cannot be read: the evaluation is given up.
LoadFails ==
    /\ eval.pc = "loading"
    /\ eval' = Idle
    /\ UNCHANGED <<worldVars, minutes, incident, destination, heard>>

LoadNothing ==
    /\ eval.pc = "loading"
    /\ audience = Nobody
    /\ incident' = [r \in Rules |-> NoIncident]
    /\ destination' = Nobody
    /\ heard' = Unheard
    /\ eval' = Idle
    /\ UNCHANGED <<worldVars, minutes>>

\* Mutant: incidents survive a change of the audience.
KeptAnyAudience == Checked

\* A new audience starts without incidents, and so does a rule that was off.
Kept == IF audience = destination THEN Checked ELSE {}

CollectChecks ==
    /\ eval.pc = "loading"
    /\ audience # Nobody
    /\ incident' = [r \in Rules |-> IF r \in Kept THEN incident[r] ELSE NoIncident]
    /\ heard' = [r \in Rules |->
          IF audience = destination /\ r \in Checked THEN heard[r] ELSE "nothing"]
    /\ destination' = audience
    /\ eval' = [pc |-> "applying", lag |-> eval.lag,
                active |-> {r \in Checked : Active(r, eval.lag)},
                todo |-> Checked]
    /\ UNCHANGED <<worldVars, minutes>>

-----------------------------------------------------------------------------
\* apply()

Applying(r) ==
    /\ eval.pc = "applying" /\ r \in eval.todo
    /\ \A s \in eval.todo : Position[r] <= Position[s]

NextCheck(r) ==
    /\ eval' = IF eval.todo = {r} THEN Idle ELSE [eval EXCEPT !.todo = @ \ {r}]
    /\ UNCHANGED <<worldVars, minutes, destination>>

Set(r, record) == incident' = [incident EXCEPT ![r] = record]
Notified == [firing |-> TRUE, since |-> eval.lag, cleanChecks |-> 0]

\* The audience reads what is delivered, acknowledged or not.
Hears(r, delivery, text) ==
    heard' = IF delivery = "undelivered" THEN heard ELSE [heard EXCEPT ![r] = text]

\* send(): true only when Telegram acknowledges the message in time.
Deliveries == {"acknowledged", "unanswered", "undelivered"}

\* Mutant: an alert counts as sent whatever became of it.
AnnounceAnyway(r, delivery) ==
    /\ Applying(r) /\ r \in eval.active /\ ~incident[r].firing
    /\ Set(r, Notified)
    /\ Hears(r, delivery, "firing")
    /\ NextCheck(r)

Announce(r, delivery) ==
    /\ Applying(r) /\ r \in eval.active /\ ~incident[r].firing
    /\ Set(r, IF delivery = "acknowledged" THEN Notified ELSE NoIncident)
    /\ Hears(r, delivery, "firing")
    /\ NextCheck(r)

Remind(r, delivery) ==
    /\ Applying(r) /\ r \in eval.active /\ incident[r].firing
    /\ incident[r].since - eval.lag >= Reminder
    /\ Set(r, IF delivery = "acknowledged" THEN Notified
              ELSE [incident[r] EXCEPT !.cleanChecks = 0])
    /\ Hears(r, delivery, "firing")
    /\ NextCheck(r)

\* Mutant: lastNotifiedAt is set on every check of what is firing.
StayFiringRenews(r) ==
    /\ Applying(r) /\ r \in eval.active /\ incident[r].firing
    /\ incident[r].since - eval.lag < Reminder
    /\ Set(r, Notified)
    /\ UNCHANGED heard
    /\ NextCheck(r)

StayFiring(r) ==
    /\ Applying(r) /\ r \in eval.active /\ incident[r].firing
    /\ incident[r].since - eval.lag < Reminder
    /\ Set(r, [incident[r] EXCEPT !.cleanChecks = 0])
    /\ UNCHANGED heard
    /\ NextCheck(r)

\* cleanChecks, counted no further than one above what resolves.
Cleaner(r) ==
    LET n == incident[r].cleanChecks + 1 IN IF n > ResolveAfter THEN ResolveAfter + 1 ELSE n

CountClean(r) ==
    /\ Applying(r) /\ r \notin eval.active
    /\ ~incident[r].firing \/ Cleaner(r) < ResolveAfter
    /\ Set(r, IF incident[r].firing
              THEN [incident[r] EXCEPT !.cleanChecks = Cleaner(r)] ELSE incident[r])
    /\ UNCHANGED heard
    /\ NextCheck(r)

\* Mutant: a message that failed on the first possible check is not sent again.
ResolveOnce(r, delivery) ==
    /\ Applying(r) /\ r \notin eval.active /\ incident[r].firing
    /\ Cleaner(r) >= ResolveAfter
    /\ IF delivery = "acknowledged" /\ Cleaner(r) = ResolveAfter
       THEN Set(r, NoIncident) /\ Hears(r, delivery, "nothing")
       ELSE /\ Set(r, [incident[r] EXCEPT !.cleanChecks = Cleaner(r)])
            /\ Hears(r, delivery, "over")
    /\ NextCheck(r)

Resolve(r, delivery) ==
    /\ Applying(r) /\ r \notin eval.active /\ incident[r].firing
    /\ Cleaner(r) >= ResolveAfter
    /\ IF delivery = "acknowledged"
       THEN Set(r, NoIncident) /\ Hears(r, delivery, "nothing")
       ELSE /\ Set(r, [incident[r] EXCEPT !.cleanChecks = Cleaner(r)])
            /\ Hears(r, delivery, "over")
    /\ NextCheck(r)

Send(r, delivery) == Announce(r, delivery) \/ Remind(r, delivery) \/ Resolve(r, delivery)
Apply(r) == StayFiring(r) \/ CountClean(r) \/ \E d \in Deliveries : Send(r, d)

Next ==
    \/ Configure \/ SignalChanges
    \/ \E fallbackUsed \in BOOLEAN : ObserveRequest(fallbackUsed)
    \/ Tick \/ LoadFails \/ LoadNothing \/ CollectChecks
    \/ \E r \in Rules : Apply(r)

Spec == Init /\ [][Next]_vars

\* The timer keeps firing and an evaluation ends: the settings' read is
\* answered or fails, a message is given up after ten seconds.  Neither
\* PostgreSQL nor Telegram fails for ever; of the rules only the circuit's, which
\* the properties are about, is said to be fair to.
Fairness ==
    /\ WF_vars(Tick)
    /\ SF_vars(LoadNothing \/ CollectChecks)
    /\ \A r \in Rules : WF_vars(Apply(r))
    /\ SF_vars(Send("circuit_open", "acknowledged"))

FairSpec == Spec /\ Fairness

-----------------------------------------------------------------------------
\* Properties.

\* The gateway takes an incident for announced only if the audience it now talks to
\* was told of it: not when the message failed, and not when another chat, or
\* nobody, was told.  It may last have been told that it is over, if the answer to
\* that message was lost; then, and only then, the gateway goes on as if it were
\* firing, so that it repeats the message, or reminds of a problem that came back.
FiringWasHeard ==
    \A r \in Rules :
        /\ incident[r].firing => heard[r] # "nothing"
        /\ heard[r] = "over" => incident[r].firing

\* Nobody is told that an incident is over that they were not told of, across
\* failed messages, settings that change during an evaluation and flapping.
ResolvedWasHeard ==
    [][\A r \in Rules, d \in {"acknowledged", "unanswered"} :
          Resolve(r, d) => heard[r] # "nothing"]_vars

\* Whoever is set up to hear of a problem that lasts has in the end been told last
\* that it fires, and not that it is over, in spite of failed reads, lost messages
\* and answers, and changes of the settings before.
ProblemsAnnounced ==
    \A a \in Audiences :
        (<>[](audience = a /\ "circuit_open" \in signals))
            => <>[](heard["circuit_open"] = "firing")

\* Once the problem is gone for good, so is the incident.
IncidentsEnd ==
    (<>[]("circuit_open" \notin signals)) => <>[](~incident["circuit_open"].firing)
=============================================================================

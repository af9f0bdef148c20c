------------------------- MODULE AlertServiceProofs -------------------------
(***************************************************************************)
(* Proofs about AlertService, for any audiences, rules, bounds and         *)
(* thresholds.                                                             *)
(*                                                                         *)
(* FiringWasHeard is inductive once the variables have their types: every  *)
(* step that forgets what it told also forgets the incident, and a message *)
(* whose answer is lost ends no incident.                                  *)
(***************************************************************************)
EXTENDS AlertService, TLAPS

AlertInv == TypeOK /\ FiringWasHeard

\* What a rule's record can be after a message or a check.
LEMMA Records ==
    /\ NoIncident \in Incidents
    /\ \A n \in 0..MaxLag : [firing |-> TRUE, since |-> n, cleanChecks |-> 0] \in Incidents
    /\ \A i \in Incidents, n \in 0..(ResolveAfter + 1) :
          [i EXCEPT !.cleanChecks = n] \in Incidents
    /\ \A i \in Incidents : i.since < Reminder + MaxLag =>
          [i EXCEPT !.since = @ + 1] \in Incidents
BY MinutesAssumption DEF Incidents, NoIncident

\* Counting one more clean check stays in range.
LEMMA CleanerInRange ==
    ASSUME TypeOK, NEW r \in Rules PROVE Cleaner(r) \in 0..(ResolveAfter + 1)
<1>1. incident[r].cleanChecks \in 0..(ResolveAfter + 1)
  BY DEF TypeOK, Incidents
<1> QED
  BY <1>1, MinutesAssumption DEF Cleaner

\* An evaluation that applies the rules, one rule further on.
LEMMA NextCheckType ==
    ASSUME TypeOK, NEW r \in Rules, Applying(r), NextCheck(r)
    PROVE  eval' \in Evaluations
<1>1. /\ eval \in [pc : {"applying"}, lag : 0..MaxLag, active : SUBSET Rules,
                   todo : SUBSET Rules]
  BY DEF TypeOK, Evaluations, Applying
<1>2. CASE eval' = Idle
  BY <1>2 DEF Evaluations, Idle
<1>3. CASE eval' = [eval EXCEPT !.todo = @ \ {r}]
  BY <1>1, <1>3 DEF Evaluations
<1> QED
  BY <1>2, <1>3 DEF NextCheck

\* A rule's record changes together with whom it was announced to.
LEMMA RuleApplied ==
    ASSUME AlertInv, NEW r \in Rules, Applying(r), NextCheck(r),
           NEW record \in Incidents, Set(r, record),
           record.firing \/ record = NoIncident,
           NEW h \in Hearings, heard' = [heard EXCEPT ![r] = h],
           record.firing => h # "nothing",
           h = "over" => record.firing
    PROVE  AlertInv'
<1>1. eval' \in Evaluations
  BY NextCheckType DEF AlertInv
<1>2. /\ incident' \in [Rules -> Incidents] /\ incident'[r] = record
      /\ \A s \in Rules \ {r} : incident'[s] = incident[s]
  BY DEF Set, AlertInv, TypeOK
<1>3. /\ heard' \in [Rules -> Hearings] /\ heard'[r] = h
      /\ \A s \in Rules \ {r} : heard'[s] = heard[s]
  BY DEF AlertInv, TypeOK
<1>4. TypeOK'
  BY <1>1, <1>2, <1>3 DEF AlertInv, TypeOK, NextCheck, worldVars
<1>5. FiringWasHeard'
  <2> SUFFICES ASSUME NEW s \in Rules
               PROVE  /\ incident'[s].firing => heard'[s] # "nothing"
                      /\ heard'[s] = "over" => incident'[s].firing
    BY DEF FiringWasHeard
  <2>1. CASE s = r
    BY <1>2, <1>3, <2>1
  <2>2. CASE s # r
    BY <1>2, <1>3, <2>2 DEF AlertInv, FiringWasHeard
  <2> QED
    BY <2>1, <2>2
<1> QED
  BY <1>4, <1>5 DEF AlertInv

\* What the audience of a message was last told.
LEMMA HeardAfter ==
    ASSUME AlertInv, NEW r \in Rules, NEW d, NEW text \in Hearings, Hears(r, d, text)
    PROVE  \E h \in Hearings :
              /\ heard' = [heard EXCEPT ![r] = h]
              /\ h = heard[r] \/ h = text
<1>1. heard \in [Rules -> Hearings]
  BY DEF AlertInv, TypeOK
<1>2. CASE d = "undelivered"
  <2>1. heard' = [heard EXCEPT ![r] = heard[r]]
    BY <1>1, <1>2 DEF Hears
  <2> QED
    BY <1>1, <2>1
<1>3. CASE d # "undelivered"
  BY <1>3 DEF Hears
<1> QED
  BY <1>2, <1>3

\* Nobody was told of anything yet.
LEMMA InitInv == Init => AlertInv
<1> SUFFICES ASSUME Init PROVE AlertInv
  OBVIOUS
<1>1. NoRequests \in Buckets
  BY MinutesAssumption DEF NoRequests, Buckets
<1>2. TypeOK
  BY <1>1, Records DEF Init, TypeOK, Evaluations, Idle, Unheard, Hearings
<1>3. FiringWasHeard
  BY DEF Init, FiringWasHeard, NoIncident, Unheard
<1> QED
  BY <1>2, <1>3 DEF AlertInv

\* The world around the evaluation changes no incident.
LEMMA WorldInv ==
    ASSUME AlertInv, Configure \/ SignalChanges
    PROVE  AlertInv'
<1>1. UNCHANGED <<minutes, incident, destination, eval, heard>>
  BY DEF Configure, SignalChanges
<1>2. /\ audience' \in Audiences \cup {Nobody} /\ switchedOn' \in SUBSET Rules
      /\ signals' \in SUBSET (Rules \ {"fallback_rate"})
  BY DEF Configure, SignalChanges, AlertInv, TypeOK
<1> QED
  BY <1>1, <1>2 DEF AlertInv, TypeOK, FiringWasHeard

\* Counting a request changes no incident.
LEMMA ObserveInv ==
    ASSUME AlertInv, NEW fallbackUsed \in BOOLEAN, ObserveRequest(fallbackUsed)
    PROVE  AlertInv'
<1> DEFINE bucket == [total |-> minutes[0].total + 1,
                      fallbacks |-> minutes[0].fallbacks + IF fallbackUsed THEN 1 ELSE 0]
<1>1. 0 \in Ages
  BY MinutesAssumption DEF Ages
<1>2. minutes' = [minutes EXCEPT ![0] = bucket]
  BY DEF ObserveRequest
<1>3. minutes[0] \in Buckets /\ minutes[0].total < MaxPerMinute
  BY <1>1 DEF AlertInv, TypeOK, ObserveRequest
<1>4. bucket \in Buckets
  BY <1>3, MinutesAssumption DEF Buckets
<1> HIDE DEF bucket
<1>5. minutes' \in [Ages -> Buckets]
  BY <1>2, <1>4 DEF AlertInv, TypeOK
<1> QED
  BY <1>5 DEF ObserveRequest, AlertInv, TypeOK, FiringWasHeard, worldVars

\* A minute passes.
LEMMA TickInv == ASSUME AlertInv, Tick PROVE AlertInv'
<1>1. minutes' \in [Ages -> Buckets]
  <2>1. NoRequests \in Buckets
    BY MinutesAssumption DEF NoRequests, Buckets
  <2>2. \A a \in Ages : a # 0 => a - 1 \in Ages
    BY MinutesAssumption DEF Ages
  <2> QED
    BY <2>1, <2>2 DEF Tick, AlertInv, TypeOK
<1>2. ASSUME NEW r \in Rules
      PROVE  /\ incident'[r] \in Incidents
             /\ incident'[r].firing = incident[r].firing
             /\ incident'[r].firing \/ incident'[r] = NoIncident
  <2>1. incident[r] \in Incidents /\ (incident[r].firing \/ incident[r] = NoIncident)
    BY DEF AlertInv, TypeOK
  <2>2. CASE incident[r].firing /\ incident[r].since < Reminder + MaxLag
    <3>1. incident'[r] = [incident[r] EXCEPT !.since = @ + 1]
      BY <2>2 DEF Tick
    <3> QED
      BY <2>1, <2>2, <3>1, Records DEF Incidents
  <2>3. CASE ~(incident[r].firing /\ incident[r].since < Reminder + MaxLag)
    BY <2>1, <2>3 DEF Tick
  <2> QED
    BY <2>2, <2>3
<1>3. incident' \in [Rules -> Incidents]
  BY <1>2 DEF Tick
<1>4. eval' \in Evaluations
  <2>1. CASE eval.pc = "idle"
    BY <2>1, MinutesAssumption DEF Tick, Evaluations
  <2>2. CASE eval \in [pc : {"loading"}, lag : 0..MaxLag]
    <3>1. eval.lag + 1 \in 0..MaxLag
      BY <2>2, MinutesAssumption DEF Tick
    <3> QED
      BY <2>2, <3>1 DEF Tick, Evaluations
  <2>3. CASE eval \in [pc : {"applying"}, lag : 0..MaxLag, active : SUBSET Rules,
                       todo : SUBSET Rules]
    <3>1. eval.lag + 1 \in 0..MaxLag
      BY <2>3, MinutesAssumption DEF Tick
    <3> QED
      BY <2>3, <3>1 DEF Tick, Evaluations
  <2> QED
    BY <2>1, <2>2, <2>3 DEF AlertInv, TypeOK, Evaluations
<1>5. TypeOK'
  BY <1>1, <1>2, <1>3, <1>4 DEF Tick, AlertInv, TypeOK, worldVars
<1>6. FiringWasHeard'
  BY <1>2 DEF Tick, AlertInv, FiringWasHeard
<1> QED
  BY <1>5, <1>6 DEF AlertInv

\* An evaluation that cannot read the settings, or finds nobody to tell.
LEMMA LoadInv ==
    ASSUME AlertInv, LoadFails \/ LoadNothing
    PROVE  AlertInv'
<1>1. Idle \in Evaluations
  BY DEF Idle, Evaluations
<1>2. CASE LoadFails
  BY <1>1, <1>2 DEF LoadFails, AlertInv, TypeOK, FiringWasHeard, worldVars
<1>3. CASE LoadNothing
  <2>1. TypeOK'
    BY <1>1, <1>3, Records DEF LoadNothing, AlertInv, TypeOK, worldVars, Unheard, Hearings
  <2>2. FiringWasHeard'
    BY <1>3 DEF LoadNothing, FiringWasHeard, NoIncident, Unheard
  <2> QED
    BY <2>1, <2>2 DEF AlertInv
<1> QED
  BY <1>2, <1>3

\* A new audience, and a rule that was off, start without incidents.
LEMMA CollectChecksInv == ASSUME AlertInv, CollectChecks PROVE AlertInv'
<1>1. Checked \subseteq Rules /\ Kept \subseteq Rules
  BY DEF Checked, Kept
<1>2. eval' \in Evaluations
  <2>1. eval.lag \in 0..MaxLag
    BY DEF CollectChecks, AlertInv, TypeOK, Evaluations
  <2>2. {r \in Checked : Active(r, eval.lag)} \in SUBSET Rules
    BY <1>1
  <2> QED
    BY <1>1, <2>1, <2>2 DEF CollectChecks, Evaluations
<1>3. incident' = [r \in Rules |-> IF r \in Kept THEN incident[r] ELSE NoIncident]
  BY DEF CollectChecks
<1>4. /\ heard' \in [Rules -> Hearings]
      /\ \A r \in Rules : heard'[r] = IF r \in Kept THEN heard[r] ELSE "nothing"
  BY DEF CollectChecks, Kept, AlertInv, TypeOK, Hearings
<1>5. TypeOK'
  BY <1>1, <1>2, <1>3, <1>4, Records DEF CollectChecks, AlertInv, TypeOK, worldVars
<1>6. FiringWasHeard'
  <2> SUFFICES ASSUME NEW r \in Rules
               PROVE  /\ incident'[r].firing => heard'[r] # "nothing"
                      /\ heard'[r] = "over" => incident'[r].firing
    BY DEF FiringWasHeard
  <2>1. CASE r \in Kept
    BY <1>3, <1>4, <2>1 DEF AlertInv, FiringWasHeard
  <2>2. CASE r \notin Kept
    BY <1>3, <1>4, <2>2 DEF NoIncident
  <2> QED
    BY <2>1, <2>2
<1> QED
  BY <1>5, <1>6 DEF AlertInv

\* The first message about a problem.
LEMMA AnnounceInv ==
    ASSUME AlertInv, NEW r \in Rules, NEW d \in Deliveries, Announce(r, d)
    PROVE  AlertInv'
<1>1. eval.lag \in 0..MaxLag
  BY DEF Announce, Applying, AlertInv, TypeOK, Evaluations
<1>2. Notified \in Incidents /\ NoIncident \in Incidents /\ ~NoIncident.firing
  BY <1>1, Records DEF Notified, NoIncident
<1>3. /\ Applying(r) /\ NextCheck(r) /\ Hears(r, d, "firing")
      /\ heard[r] # "over" /\ "firing" \in Hearings
  BY DEF Announce, Hearings, AlertInv, FiringWasHeard
<1>4. PICK h \in Hearings :
         heard' = [heard EXCEPT ![r] = h] /\ (h = heard[r] \/ h = "firing")
  BY <1>3, HeardAfter
<1>5. CASE d = "acknowledged"
  <2>1. Set(r, Notified) /\ heard' = [heard EXCEPT ![r] = "firing"]
    BY <1>3, <1>5 DEF Announce, Hears
  <2> QED
    BY <1>2, <1>3, <2>1, RuleApplied DEF Notified
<1>6. CASE d # "acknowledged"
  <2>1. Set(r, NoIncident)
    BY <1>6 DEF Announce
  <2> QED
    BY <1>2, <1>3, <1>4, <2>1, RuleApplied
<1> QED
  BY <1>5, <1>6

\* A rule that fires and goes on firing, or is clean for the time being.
LEMMA StillFiringInv ==
    ASSUME AlertInv, NEW r \in Rules, NEW d \in Deliveries,
           Remind(r, d) \/ StayFiring(r) \/ CountClean(r)
    PROVE  AlertInv'
<1>1. /\ Applying(r) /\ NextCheck(r)
      /\ eval.lag \in 0..MaxLag
      /\ incident[r] \in Incidents /\ (incident[r].firing \/ incident[r] = NoIncident)
  BY DEF Remind, StayFiring, CountClean, Applying, AlertInv, TypeOK, Evaluations
<1>2. Cleaner(r) \in 0..(ResolveAfter + 1) /\ 0 \in 0..(ResolveAfter + 1)
  BY CleanerInRange, MinutesAssumption DEF AlertInv
<1>3. PICK record \in {Notified, incident[r], [incident[r] EXCEPT !.cleanChecks = 0],
                       [incident[r] EXCEPT !.cleanChecks = Cleaner(r)]} :
         /\ Set(r, record)
         /\ record = incident[r] \/ incident[r].firing
  BY DEF Remind, StayFiring, CountClean
<1>4. record \in Incidents
  BY <1>1, <1>2, Records DEF Notified
<1>5. record.firing \/ record = NoIncident
  BY <1>1, <1>3 DEF Notified, Incidents
<1>6. /\ incident[r].firing => heard[r] # "nothing"
      /\ heard[r] = "over" => incident[r].firing
      /\ heard \in [Rules -> Hearings]
  BY DEF AlertInv, TypeOK, FiringWasHeard
<1>7. record.firing <=> incident[r].firing
  <2>1. CASE record = incident[r]
    BY <2>1
  <2>2. CASE incident[r].firing
    BY <1>1, <2>2 DEF Notified, Incidents
  <2> QED
    BY <1>3, <2>1, <2>2
<1>8. CASE heard' = heard
  <2>1. heard' = [heard EXCEPT ![r] = heard[r]] /\ heard[r] \in Hearings
    BY <1>6, <1>8
  <2> QED
    BY <1>1, <1>3, <1>4, <1>5, <1>6, <1>7, <2>1, RuleApplied
<1>9. CASE Remind(r, d)
  <2>1. Hears(r, d, "firing") /\ "firing" \in Hearings /\ incident[r].firing
    BY <1>9 DEF Remind, Hearings
  <2>2. PICK h \in Hearings :
           heard' = [heard EXCEPT ![r] = h] /\ (h = heard[r] \/ h = "firing")
    BY <2>1, HeardAfter
  <2> QED
    BY <1>1, <1>3, <1>4, <1>5, <1>6, <1>7, <2>1, <2>2, RuleApplied
<1> QED
  BY <1>8, <1>9 DEF StayFiring, CountClean

\* The message that a problem is over.
LEMMA ResolveInv ==
    ASSUME AlertInv, NEW r \in Rules, NEW d \in Deliveries, Resolve(r, d)
    PROVE  AlertInv'
<1>1. /\ Applying(r) /\ NextCheck(r) /\ incident[r].firing /\ incident[r] \in Incidents
  BY DEF Resolve, AlertInv, TypeOK
<1>2. CASE d = "acknowledged"
  <2>1. Set(r, NoIncident) /\ heard' = [heard EXCEPT ![r] = "nothing"]
    BY <1>2 DEF Resolve, Hears
  <2>2. NoIncident \in Incidents /\ ~NoIncident.firing /\ "nothing" \in Hearings
    BY Records DEF NoIncident, Hearings
  <2> QED
    BY <1>1, <2>1, <2>2, RuleApplied
<1>3. CASE d # "acknowledged"
  <2> DEFINE record == [incident[r] EXCEPT !.cleanChecks = Cleaner(r)]
  <2>1. Set(r, record) /\ Hears(r, d, "over") /\ "over" \in Hearings
    BY <1>3 DEF Resolve, Hearings
  <2>2. record \in Incidents /\ record.firing
    BY <1>1, Records, CleanerInRange DEF AlertInv, Incidents
  <2>3. heard[r] # "nothing"
    BY <1>1 DEF AlertInv, FiringWasHeard
  <2>4. PICK h \in Hearings :
           heard' = [heard EXCEPT ![r] = h] /\ (h = heard[r] \/ h = "over")
    BY <2>1, HeardAfter
  <2> HIDE DEF record
  <2> QED
    BY <1>1, <2>1, <2>2, <2>3, <2>4, RuleApplied
<1> QED
  BY <1>2, <1>3

\* Every step keeps the invariant.
LEMMA NextInv == ASSUME AlertInv, [Next]_vars PROVE AlertInv'
<1>1. CASE UNCHANGED vars
  BY <1>1 DEF vars, worldVars, AlertInv, TypeOK, FiringWasHeard
<1>2. ASSUME NEW r \in Rules, Apply(r) PROVE AlertInv'
  <2>1. "acknowledged" \in Deliveries
    BY DEF Deliveries
  <2> QED
    BY <1>2, <2>1, AnnounceInv, StillFiringInv, ResolveInv DEF Apply, Send
<1> QED
  BY <1>1, <1>2, WorldInv, ObserveInv, TickInv, LoadInv, CollectChecksInv DEF Next

\* The invariant holds of every history of settings, signals and messages.
THEOREM AlertInvariant == Spec => []AlertInv
<1>1. AlertInv /\ [Next]_vars => AlertInv'
  BY NextInv
<1> QED
  BY InitInv, <1>1, PTL DEF Spec

\* Every variable keeps its type, and a rule that is not firing has no clean checks
\* left over.
THEOREM AlertTypeCorrect == Spec => []TypeOK
<1>1. AlertInv => TypeOK
  BY DEF AlertInv
<1> QED
  BY AlertInvariant, <1>1, PTL

\* An incident counts as announced only if the current audience was told of it, and
\* who was told that it is over, in a message whose answer was lost, is still written
\* to about it.
THEOREM NoSilentIncident == Spec => []FiringWasHeard
<1>1. AlertInv => FiringWasHeard
  BY DEF AlertInv
<1> QED
  BY AlertInvariant, <1>1, PTL

\* Nobody hears of the end of an incident they never heard of.
THEOREM NoUnheardEnd == Spec => ResolvedWasHeard
<1>1. ASSUME AlertInv, NEW r \in Rules, NEW d \in {"acknowledged", "unanswered"}, Resolve(r, d)
      PROVE  heard[r] # "nothing"
  BY <1>1 DEF Resolve, AlertInv, FiringWasHeard
<1>2. AlertInv => [\A r \in Rules, d \in {"acknowledged", "unanswered"} :
                      Resolve(r, d) => heard[r] # "nothing"]_vars
  BY <1>1
<1> QED
  BY AlertInvariant, <1>2, PTL DEF ResolvedWasHeard
=============================================================================

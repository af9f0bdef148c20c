---------------------------- MODULE CreditLedger ----------------------------
(***************************************************************************)
(* The credit ledger every gateway instance shares in Redis                *)
(* (credits/credit-ledger.store.ts).  Each Lua script runs atomically, so  *)
(* one script is one action.  This module constrains its callers in        *)
(* nothing: any instance may run any script with any reservation and any   *)
(* snapshot, in any order, twice, or long after it was due.                *)
(*                                                                         *)
(* A reservation is named by a random UUID, drawn for it by reserve() and  *)
(* always used together with the key it was made for.  It lives in two     *)
(* places: a hash that expires (open) and a sorted set that does not       *)
(* (tracked).  A hash whose state is not 'open' is deleted by the script   *)
(* that wrote the state, so a hash exists exactly while it is open.        *)
(* Every reservation is for one credit, as estimateCreditCost says.        *)
(* A cooldown is in force or not; when it ends is up to the clock.         *)
(***************************************************************************)
EXTENDS Integers, FiniteSets

CONSTANTS Keys,         \* the Cloud API keys, each with a pool
          RenewalDay,   \* per key: the day its credits renew
          Snapshots,    \* the remaining credits Cloud may report
          Usages,       \* the credits Cloud may report for one request
          Ids           \* the UUIDs of the reservations; bound: how many there are

ASSUME RenewalDayAssumption == RenewalDay \in [Keys -> Nat]
ASSUME SnapshotsAssumption == Snapshots \subseteq Nat
ASSUME UsagesAssumption == Usages \subseteq Nat
ASSUME IdsAssumption == IsFiniteSet(Ids)

VARIABLES known,            \* the pool's hash has a 'credits' field
          credits,          \* credits left to reserve
          reserved,         \* credits reserved, as the pool counts them
          reserveSequence,  \* number of the pool's last reservation
          disabled,
          cooling,          \* cooldownUntil > now
          open,             \* reservations whose hash exists
          tracked,          \* members of the sorted set
          sequenceOf,       \* per UUID: 'sequence' in its hash, 0 if it was never drawn
          budget            \* history: what the last reconcile granted

ledgerVars == <<known, credits, reserved, reserveSequence, disabled, cooling,
                open, tracked, sequenceOf, budget>>

LedgerTypeOK ==
    /\ known \in [Keys -> BOOLEAN]
    /\ credits \in [Keys -> Nat]
    /\ reserved \in [Keys -> Nat]
    /\ reserveSequence \in [Keys -> Nat]
    /\ disabled \in [Keys -> BOOLEAN]
    /\ cooling \in [Keys -> BOOLEAN]
    /\ open \in [Keys -> SUBSET Ids]
    /\ tracked \in [Keys -> SUBSET Ids]
    /\ sequenceOf \in [Ids -> Nat]
    /\ budget \in [Keys -> Nat]

LedgerInit ==
    /\ known = [k \in Keys |-> FALSE]
    /\ credits = [k \in Keys |-> 0]
    /\ reserved = [k \in Keys |-> 0]
    /\ reserveSequence = [k \in Keys |-> 0]
    /\ disabled = [k \in Keys |-> FALSE]
    /\ cooling = [k \in Keys |-> FALSE]
    /\ open = [k \in Keys |-> {}]
    /\ tracked = [k \in Keys |-> {}]
    /\ sequenceOf = [id \in Ids |-> 0]
    /\ budget = [k \in Keys |-> 0]

-----------------------------------------------------------------------------
\* RESERVE_SCRIPT

Eligible(candidates) ==
    {k \in candidates : known[k] /\ ~disabled[k] /\ ~cooling[k] /\ credits[k] >= 1}

\* The earliest renewal day first, then the most credits; ties are drawn.
Preferred(candidates) ==
    {k \in candidates : \A j \in candidates :
        \/ RenewalDay[k] < RenewalDay[j]
        \/ RenewalDay[k] = RenewalDay[j] /\ credits[k] >= credits[j]}

\* Reserves one credit of k under a UUID that was never drawn before.
ReserveScript(candidates, k, id) ==
    /\ sequenceOf[id] = 0
    /\ k \in Preferred(Eligible(candidates))
    /\ reserveSequence' = [reserveSequence EXCEPT ![k] = @ + 1]
    /\ sequenceOf' = [sequenceOf EXCEPT ![id] = reserveSequence[k] + 1]
    /\ credits' = [credits EXCEPT ![k] = @ - 1]
    /\ reserved' = [reserved EXCEPT ![k] = @ + 1]
    /\ open' = [open EXCEPT ![k] = @ \cup {id}]
    /\ tracked' = [tracked EXCEPT ![k] = @ \cup {id}]
    /\ UNCHANGED <<known, disabled, cooling, budget>>

-----------------------------------------------------------------------------
\* SETTLE_SCRIPT and ACTUAL_USAGE_SCRIPT

\* Takes reservation id of k off both records.
CloseReservation(k, id) ==
    /\ open' = [open EXCEPT ![k] = @ \ {id}]
    /\ tracked' = [tracked EXCEPT ![k] = @ \ {id}]
    /\ reserved' = [reserved EXCEPT ![k] = @ - 1]

\* Mutant: the reservation is settled without looking at its state.
SettleScriptUnchecked(k, id, action) ==
    /\ CloseReservation(k, id)
    /\ credits' = [credits EXCEPT ![k] = IF action = "disabled" THEN 0 ELSE @ + 1]
    /\ known' = [known EXCEPT ![k] = @ \/ action = "disabled"]
    /\ disabled' = [disabled EXCEPT ![k] = @ \/ action = "disabled"]
    /\ cooling' = [cooling EXCEPT ![k] =
                     (@ \/ action = "cooldown") /\ action # "disabled"]
    /\ UNCHANGED <<reserveSequence, sequenceOf, budget>>

\* The credit goes back only with the reservation it was taken for; what the
\* action says of the key holds in any case.
SettleScript(k, id, action) ==
    LET refunded == IF id \in open[k] THEN credits[k] + 1 ELSE credits[k]
    IN /\ IF id \in open[k]
          THEN CloseReservation(k, id)
          ELSE UNCHANGED <<open, tracked, reserved>>
       /\ credits' = [credits EXCEPT ![k] =
                        IF action = "disabled" THEN 0 ELSE refunded]
       /\ known' = [known EXCEPT ![k] = @ \/ action = "disabled"]
       /\ disabled' = [disabled EXCEPT ![k] = @ \/ action = "disabled"]
       /\ cooling' = [cooling EXCEPT ![k] =
                        (@ \/ action = "cooldown") /\ action # "disabled"]
       /\ UNCHANGED <<reserveSequence, sequenceOf, budget>>

\* What the request cost beyond (or below) its reservation, never below zero.
ActualUsageScript(k, id, actual) ==
    /\ id \in open[k]
    /\ CloseReservation(k, id)
    /\ credits' = [credits EXCEPT ![k] =
                     IF @ + 1 - actual >= 0 THEN @ + 1 - actual ELSE 0]
    /\ UNCHANGED <<known, reserveSequence, sequenceOf, disabled, cooling, budget>>

-----------------------------------------------------------------------------
\* RECONCILE_SCRIPT

\* Mutant: every open reservation counts as unseen by the snapshot.
PendingAny(k, sequence) == open[k] \cap tracked[k]

\* Mutant: the first reservation after the capture counts as seen.
PendingOffByOne(k, sequence) == {id \in open[k] \cap tracked[k] : sequenceOf[id] > sequence + 1}

\* The open reservations Cloud's snapshot cannot know of.
Pending(k, sequence) == {id \in open[k] \cap tracked[k] : sequenceOf[id] > sequence}

\* Mutant: members whose hash is gone stay in the sorted set.
ReconcileScriptKeepsExpired(k, snapshot, sequence) ==
    LET pending == Cardinality(Pending(k, sequence))
        settled == open[k] \ Pending(k, sequence)
    IN /\ open' = [open EXCEPT ![k] = @ \ settled]
       /\ tracked' = [tracked EXCEPT ![k] = @ \ settled]
       /\ reserved' = [reserved EXCEPT ![k] = pending]
       /\ credits' = [credits EXCEPT ![k] =
                        IF snapshot >= pending THEN snapshot - pending ELSE 0]
       /\ budget' = [budget EXCEPT ![k] =
                        IF snapshot >= pending THEN snapshot ELSE pending]
       /\ disabled' = [disabled EXCEPT ![k] = snapshot <= 0]
       /\ known' = [known EXCEPT ![k] = TRUE]
       /\ UNCHANGED <<reserveSequence, sequenceOf, cooling>>

ReconcileScript(k, snapshot, sequence) ==
    LET pending == Cardinality(Pending(k, sequence))
        settled == tracked[k] \ Pending(k, sequence)
    IN /\ open' = [open EXCEPT ![k] = @ \ settled]
       /\ tracked' = [tracked EXCEPT ![k] = @ \ settled]
       /\ reserved' = [reserved EXCEPT ![k] = pending]
       /\ credits' = [credits EXCEPT ![k] =
                        IF snapshot >= pending THEN snapshot - pending ELSE 0]
       /\ budget' = [budget EXCEPT ![k] =
                        IF snapshot >= pending THEN snapshot ELSE pending]
       /\ disabled' = [disabled EXCEPT ![k] = snapshot <= 0]
       /\ known' = [known EXCEPT ![k] = TRUE]
       /\ UNCHANGED <<reserveSequence, sequenceOf, cooling>>

-----------------------------------------------------------------------------
\* Time: the hash of a reservation expires; a cooldown ends.

Expire(k, id) ==
    /\ id \in open[k]
    /\ open' = [open EXCEPT ![k] = @ \ {id}]
    /\ UNCHANGED <<known, credits, reserved, reserveSequence, disabled, cooling,
                   tracked, sequenceOf, budget>>

CooldownEnds(k) ==
    /\ cooling[k]
    /\ cooling' = [cooling EXCEPT ![k] = FALSE]
    /\ UNCHANGED <<known, credits, reserved, reserveSequence, disabled,
                   open, tracked, sequenceOf, budget>>

Actions == {"refund", "cooldown", "disabled"}

LedgerNext ==
    \E k \in Keys :
        \/ \E id \in Ids :
              \/ \E candidates \in SUBSET Keys : ReserveScript(candidates, k, id)
              \/ \E action \in Actions : SettleScript(k, id, action)
              \/ \E actual \in Usages : ActualUsageScript(k, id, actual)
              \/ Expire(k, id)
        \/ \E snapshot \in Snapshots, sequence \in 0..reserveSequence[k] :
              ReconcileScript(k, snapshot, sequence)
        \/ CooldownEnds(k)

LedgerSpec == LedgerInit /\ [][LedgerNext]_ledgerVars

-----------------------------------------------------------------------------
\* Properties.

\* The pool's running count of reserved credits, which five scripts adjust, is
\* the size of the sorted set, which the same scripts edit member by member,
\* also after hashes expired or a settlement came twice: the count never
\* drifts, and reserved credits never go negative.
ReservedIsTracked ==
    \A k \in Keys : reserved[k] = Cardinality(tracked[k])

\* No reservation can lose its place in the sorted set while its hash is open:
\* otherwise no refresh would ever find it again.  Nor is one numbered beyond
\* reserveSequence: a refresh that captures the sequence now leaves none of those
\* there are pending.
OpenIsTracked ==
    \A k \in Keys : /\ open[k] \subseteq tracked[k]
                    /\ \A id \in tracked[k] : sequenceOf[id] \in 1..reserveSequence[k]

\* No script creates credits: the credits left and those of open reservations,
\* which may still come back, never exceed what the last reconcile granted.  A
\* settlement done twice, a refund of a reservation a refresh already counted,
\* or a usage correction after it would break this.
NoCreditCreated ==
    \A k \in Keys : credits[k] + Cardinality(open[k]) <= budget[k]
=============================================================================

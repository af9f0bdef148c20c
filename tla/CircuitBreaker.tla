--------------------------- MODULE CircuitBreaker ---------------------------
(***************************************************************************)
(* The in-process circuit breaker in front of the self-hosted backend      *)
(* (proxy/circuit-breaker.ts).  Many requests share one breaker: each call *)
(* of execute() takes a permit, awaits the upstream call and hands the     *)
(* permit back, and any number of other calls run between those two steps. *)
(*                                                                         *)
(* The clock is modelled by `elapsed', the ticks since openedAt: the code  *)
(* only ever compares now() - openedAt with cooldownMs, so it is kept up   *)
(* to Cooldown.  The backend is up or down; a call can only fail if the    *)
(* backend was down at some moment of its flight.                          *)
(***************************************************************************)
EXTENDS Integers

CONSTANTS Calls,          \* the concurrent callers of execute()
          Threshold,      \* failureThreshold; 0 disables the breaker
          Cooldown,       \* cooldownMs, in ticks
          MaxGeneration   \* bound: outages end once the circuit opened so often

ASSUME ThresholdAssumption == Threshold \in Nat
ASSUME CooldownAssumption == Cooldown \in Nat
ASSUME MaxGenerationAssumption == MaxGeneration \in Nat

VARIABLES state, consecutiveFailures, elapsed, probeInFlight, generation,
          permit,         \* per caller: the permit its call runs under
          backendUp

breakerVars == <<state, consecutiveFailures, elapsed, probeInFlight, generation>>
vars == <<state, consecutiveFailures, elapsed, probeInFlight, generation,
          permit, backendUp>>

States == {"closed", "open", "half-open"}

\* "none": no call in flight; "bypass": a call of a disabled breaker.  A call
\* is `hit' when the backend was down while it was in flight.
Permits == [kind : {"none", "bypass", "closed", "probe"},
            generation : Nat, hit : BOOLEAN]
NoPermit == [kind |-> "none", generation |-> 0, hit |-> FALSE]

Idle(c) == permit[c].kind = "none"

TypeOK ==
    /\ state \in States
    /\ consecutiveFailures \in Nat
    /\ elapsed \in 0..Cooldown
    /\ probeInFlight \in BOOLEAN
    /\ generation \in Nat
    /\ permit \in [Calls -> Permits]
    /\ backendUp \in BOOLEAN

Init ==
    /\ state = "closed"
    /\ consecutiveFailures = 0
    /\ elapsed = 0
    /\ probeInFlight = FALSE
    /\ generation = 0
    /\ permit = [c \in Calls |-> NoPermit]
    /\ backendUp = TRUE

-----------------------------------------------------------------------------
\* acquire()

Grant(c, kind) ==
    permit' = [permit EXCEPT ![c] = [kind |-> kind, generation |-> generation,
                                     hit |-> ~backendUp]]

CoolingDown == state = "open" /\ elapsed < Cooldown

\* The bound of the model: in the last outage no more calls are sent.
Admissible == backendUp \/ generation < MaxGeneration

Bypass(c) ==
    /\ Idle(c) /\ Admissible
    /\ Threshold = 0
    /\ Grant(c, "bypass")
    /\ UNCHANGED <<breakerVars, backendUp>>

AdmitClosed(c) ==
    /\ Idle(c) /\ Admissible
    /\ Threshold > 0
    /\ state = "closed"
    /\ Grant(c, "closed")
    /\ UNCHANGED <<breakerVars, backendUp>>

AdmitProbe(c) ==
    /\ Idle(c) /\ Admissible
    /\ Threshold > 0
    /\ state # "closed"
    /\ ~CoolingDown
    /\ ~probeInFlight
    /\ state' = "half-open"
    /\ probeInFlight' = TRUE
    /\ Grant(c, "probe")
    /\ UNCHANGED <<consecutiveFailures, elapsed, generation, backendUp>>

\* The caller gets shortCircuit() at once.  An open circuit whose cooldown is
\* over turns half-open even if the probe slot is then found taken.
Reject(c) ==
    /\ Idle(c) /\ Admissible
    /\ Threshold > 0
    /\ state # "closed"
    /\ CoolingDown \/ probeInFlight
    /\ state' = IF CoolingDown THEN state ELSE "half-open"
    /\ UNCHANGED <<consecutiveFailures, elapsed, probeInFlight, generation,
                   permit, backendUp>>

Execute(c) == Bypass(c) \/ AdmitClosed(c) \/ AdmitProbe(c) \/ Reject(c)

-----------------------------------------------------------------------------
\* release()

Open ==
    /\ state' = "open"
    /\ generation' = generation + 1
    /\ elapsed' = 0

GiveBack(c) ==
    /\ permit' = [permit EXCEPT ![c] = NoPermit]
    /\ UNCHANGED backendUp

ReleaseBypass(c) ==
    /\ permit[c].kind = "bypass"
    /\ GiveBack(c)
    /\ UNCHANGED breakerVars

\* The outcome of a call; a thrown call counts as failed.
Outcomes(c) == IF permit[c].hit THEN BOOLEAN ELSE {FALSE}

\* Mutant: without `finally', a probe that throws releases nothing.
ReleaseProbeThrown(c) ==
    /\ permit[c].kind = "probe"
    /\ GiveBack(c)
    /\ \E failed \in Outcomes(c) :
          \/ failed /\ UNCHANGED breakerVars
          \/ /\ ~failed
             /\ state' = "closed"
             /\ consecutiveFailures' = 0
             /\ probeInFlight' = FALSE
             /\ UNCHANGED <<generation, elapsed>>

\* Mutant: a probe that succeeds leaves the circuit half-open.
ReleaseProbeNotClosed(c) ==
    /\ permit[c].kind = "probe"
    /\ GiveBack(c)
    /\ probeInFlight' = FALSE
    /\ \E failed \in Outcomes(c) :
          \/ failed /\ Open /\ UNCHANGED consecutiveFailures
          \/ /\ ~failed
             /\ consecutiveFailures' = 0
             /\ UNCHANGED <<state, generation, elapsed>>

ReleaseProbe(c) ==
    /\ permit[c].kind = "probe"
    /\ GiveBack(c)
    /\ probeInFlight' = FALSE
    /\ \E failed \in Outcomes(c) :
          \/ failed /\ Open /\ UNCHANGED consecutiveFailures
          \/ /\ ~failed
             /\ state' = "closed"
             /\ consecutiveFailures' = 0
             /\ UNCHANGED <<generation, elapsed>>

\* Mutant: the generation is not compared.
StaleByState(c) == state # "closed"

\* A call admitted before the circuit last opened says nothing any more.
Stale(c) == permit[c].generation # generation \/ state # "closed"

ReleaseStale(c) ==
    /\ permit[c].kind = "closed"
    /\ Stale(c)
    /\ GiveBack(c)
    /\ UNCHANGED breakerVars

ReleaseClosed(c) ==
    /\ permit[c].kind = "closed"
    /\ ~Stale(c)
    /\ GiveBack(c)
    /\ UNCHANGED probeInFlight
    /\ \E failed \in Outcomes(c) :
          /\ consecutiveFailures' = IF failed THEN consecutiveFailures + 1 ELSE 0
          /\ IF failed /\ consecutiveFailures + 1 >= Threshold
             THEN Open
             ELSE UNCHANGED <<state, generation, elapsed>>

Release(c) ==
    ReleaseBypass(c) \/ ReleaseProbe(c) \/ ReleaseStale(c) \/ ReleaseClosed(c)

-----------------------------------------------------------------------------
\* The world around the breaker.

Tick ==
    /\ elapsed < Cooldown
    /\ elapsed' = elapsed + 1
    /\ UNCHANGED <<state, consecutiveFailures, probeInFlight, generation,
                   permit, backendUp>>

BackendFails ==
    /\ backendUp /\ generation < MaxGeneration
    /\ backendUp' = FALSE
    /\ permit' = [c \in Calls |-> [kind |-> permit[c].kind,
                                   generation |-> permit[c].generation,
                                   hit |-> ~Idle(c)]]
    /\ UNCHANGED breakerVars

BackendRecovers ==
    /\ ~backendUp
    /\ backendUp' = TRUE
    /\ UNCHANGED <<breakerVars, permit>>

Next ==
    \/ \E c \in Calls : Execute(c) \/ Release(c)
    \/ Tick \/ BackendFails \/ BackendRecovers

Spec == Init /\ [][Next]_vars

\* Time passes; every upstream call ends, at the latest when its
\* requestTimeoutMs abort fires; and requests keep arriving.
Fairness ==
    /\ WF_vars(Tick)
    /\ \A c \in Calls : WF_vars(Execute(c)) /\ WF_vars(Release(c))

FairSpec == Spec /\ Fairness

-----------------------------------------------------------------------------
\* Properties.

\* The half-open state, the in-flight flag and the probe permit are three
\* records of one fact, written at different moments: at every moment the
\* circuit is half-open exactly when one call, and only one, holds the probe
\* permit, and the flag says so.  A flag left behind would reject every call
\* for ever; a flag dropped early would send a second probe.
ProbeDiscipline ==
    /\ probeInFlight <=> state = "half-open"
    /\ (state = "half-open") <=> \E c \in Calls : permit[c].kind = "probe"
    /\ \A c, d \in Calls :
          permit[c].kind = "probe" /\ permit[d].kind = "probe" => c = d

\* A call admitted while the circuit was closed never carries the generation
\* of a circuit that is not closed: the generation alone tells whether such a
\* call may still count.
GenerationsSeparate ==
    \A c \in Calls :
        permit[c].kind = "closed" =>
            /\ permit[c].generation <= generation
            /\ state # "closed" => permit[c].generation < generation

\* A closed circuit has seen fewer than Threshold failures in a row.
ClosedBelowThreshold ==
    state = "closed" /\ Threshold > 0 => consecutiveFailures < Threshold

\* A disabled breaker (threshold 0) never interferes, however often the
\* backend fails.
DisabledNeverOpens ==
    Threshold = 0 =>
        /\ state = "closed" /\ generation = 0
        /\ \A c \in Calls : permit[c].kind \in {"none", "bypass"}

\* The breaker keeps the promise of BreakerPromise: trusted calls are those
\* admitted under the current generation of a closed circuit.
Promise == INSTANCE BreakerPromise WITH
    mode    <- state,
    trusted <- IF state = "closed"
               THEN {c \in Calls : permit[c].kind = "closed"
                                   /\ permit[c].generation = generation}
               ELSE {},
    probing <- {c \in Calls : permit[c].kind = "probe"},
    streak  <- IF state = "closed" THEN consecutiveFailures ELSE 0,
    rested  <- IF state = "open" THEN elapsed ELSE 0

KeepsPromise == Promise!Spec

\* Once the backend stays up, the circuit closes and stays closed: no probe is
\* lost, and no straggler of an old outage opens it again for ever.
Recovers == (<>[]backendUp) => <>[](state = "closed")
=============================================================================

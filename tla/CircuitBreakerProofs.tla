------------------------ MODULE CircuitBreakerProofs ------------------------
(***************************************************************************)
(* Proofs about CircuitBreaker, for any set of callers, any threshold, any *)
(* cooldown and any bound on the generations: the inductive invariant of   *)
(* the breaker, and that the breaker implements BreakerPromise.            *)
(***************************************************************************)
EXTENDS CircuitBreaker, TLAPS

\* The inductive invariant: no part of it is inductive alone.  Type correctness
\* aside, that a probe's permit and the half-open state come and go together
\* needs GenerationsSeparate to know which permits can still trip the circuit.
BreakerInv ==
    /\ TypeOK
    /\ ProbeDiscipline
    /\ GenerationsSeparate
    /\ ClosedBelowThreshold
    /\ DisabledNeverOpens

USE DEF States, Permits, NoPermit, Idle

\* The breaker starts closed, with no call in flight.
LEMMA InitInv == Init => BreakerInv
<1> SUFFICES ASSUME Init PROVE BreakerInv
  OBVIOUS
<1>1. \A c \in Calls : permit[c] = NoPermit
  BY DEF Init
<1>2. TypeOK
  <2>1. NoPermit \in Permits
    OBVIOUS
  <2>2. permit \in [Calls -> Permits]
    BY <2>1 DEF Init
  <2>3. probeInFlight \in BOOLEAN /\ backendUp \in BOOLEAN
    BY DEF Init
  <2>4. elapsed \in 0..Cooldown
    BY CooldownAssumption DEF Init
  <2> QED
    BY <2>2, <2>3, <2>4 DEF Init, TypeOK
<1>3. ProbeDiscipline /\ GenerationsSeparate
  BY <1>1 DEF Init, ProbeDiscipline, GenerationsSeparate
<1>4. ClosedBelowThreshold /\ DisabledNeverOpens
  BY <1>1, ThresholdAssumption DEF Init, ClosedBelowThreshold, DisabledNeverOpens
<1> QED
  BY <1>2, <1>3, <1>4 DEF BreakerInv

\* Admitting or rejecting a call keeps the invariant.
LEMMA ExecuteInv ==
    ASSUME BreakerInv, NEW c \in Calls, Execute(c)
    PROVE  BreakerInv'
<1> USE ThresholdAssumption, CooldownAssumption
<1> USE DEF BreakerInv, TypeOK, ProbeDiscipline, GenerationsSeparate,
            ClosedBelowThreshold, DisabledNeverOpens, breakerVars, Grant
<1>1. CASE Bypass(c)
  BY <1>1 DEF Bypass
<1>2. CASE AdmitClosed(c)
  BY <1>2 DEF AdmitClosed
<1>3. CASE AdmitProbe(c)
  BY <1>3 DEF AdmitProbe
<1>4. CASE Reject(c)
  BY <1>4 DEF Reject, CoolingDown
<1> QED
  BY <1>1, <1>2, <1>3, <1>4 DEF Execute

\* The end of a call keeps the invariant, however late it comes.
LEMMA ReleaseInv ==
    ASSUME BreakerInv, NEW c \in Calls, Release(c)
    PROVE  BreakerInv'
<1> USE ThresholdAssumption, CooldownAssumption
<1> USE DEF BreakerInv, TypeOK, ProbeDiscipline, GenerationsSeparate,
            ClosedBelowThreshold, DisabledNeverOpens, breakerVars, GiveBack
<1>1. CASE ReleaseBypass(c)
  BY <1>1 DEF ReleaseBypass
<1>2. CASE ReleaseProbe(c)
  <2>1. PICK failed \in Outcomes(c) :
            \/ failed /\ Open /\ UNCHANGED consecutiveFailures
            \/ /\ ~failed
               /\ state' = "closed"
               /\ consecutiveFailures' = 0
               /\ UNCHANGED <<generation, elapsed>>
    BY <1>2 DEF ReleaseProbe
  <2>2. /\ state = "half-open" /\ Threshold > 0
        /\ \A d \in Calls : d # c => permit[d].kind # "probe"
    BY <1>2 DEF ReleaseProbe
  <2>3. permit' = [permit EXCEPT ![c] = NoPermit] /\ probeInFlight' = FALSE
        /\ UNCHANGED backendUp
    BY <1>2 DEF ReleaseProbe
  <2>4. CASE failed /\ Open /\ UNCHANGED consecutiveFailures
    <3>1. TypeOK'
      <4>1. permit' \in [Calls -> Permits]
        BY <2>3
      <4>2. probeInFlight' \in BOOLEAN /\ backendUp' \in BOOLEAN
        BY <2>3
      <4> QED
        BY <2>4, <4>1, <4>2 DEF Open
    <3>2. ProbeDiscipline'
      BY <2>2, <2>3, <2>4 DEF Open
    <3>3. GenerationsSeparate'
      BY <2>2, <2>3, <2>4 DEF Open
    <3>4. ClosedBelowThreshold' /\ DisabledNeverOpens'
      BY <2>2, <2>3, <2>4 DEF Open
    <3> QED
      BY <3>1, <3>2, <3>3, <3>4
  <2>5. CASE ~failed /\ state' = "closed" /\ consecutiveFailures' = 0
             /\ UNCHANGED <<generation, elapsed>>
    BY <2>2, <2>3, <2>5
  <2> QED
    BY <2>1, <2>4, <2>5
<1>3. CASE ReleaseStale(c)
  BY <1>3 DEF ReleaseStale
<1>4. CASE ReleaseClosed(c)
  <2>1. PICK failed \in Outcomes(c) :
            /\ consecutiveFailures' = IF failed THEN consecutiveFailures + 1 ELSE 0
            /\ IF failed /\ consecutiveFailures + 1 >= Threshold
               THEN Open
               ELSE UNCHANGED <<state, generation, elapsed>>
    BY <1>4 DEF ReleaseClosed
  <2>2. /\ state = "closed" /\ Threshold > 0
        /\ permit' = [permit EXCEPT ![c] = NoPermit]
        /\ UNCHANGED <<backendUp, probeInFlight>>
    BY <1>4 DEF ReleaseClosed, Stale
  <2>3. CASE failed /\ consecutiveFailures + 1 >= Threshold
    BY <2>1, <2>2, <2>3 DEF Open
  <2>4. CASE ~(failed /\ consecutiveFailures + 1 >= Threshold)
    BY <2>1, <2>2, <2>4
  <2> QED
    BY <2>3, <2>4
<1> QED
  BY <1>1, <1>2, <1>3, <1>4 DEF Release

\* So do time and the backend.
LEMMA WorldInv ==
    ASSUME BreakerInv, Tick \/ BackendFails \/ BackendRecovers
    PROVE  BreakerInv'
<1> USE ThresholdAssumption, CooldownAssumption
<1> USE DEF BreakerInv, TypeOK, ProbeDiscipline, GenerationsSeparate,
            ClosedBelowThreshold, DisabledNeverOpens, breakerVars
<1>1. CASE Tick
  BY <1>1 DEF Tick
<1>2. CASE BackendFails
  <2>1. \A d \in Calls : /\ permit'[d].kind = permit[d].kind
                         /\ permit'[d].generation = permit[d].generation
    BY <1>2 DEF BackendFails
  <2>2. permit' \in [Calls -> Permits]
    BY <1>2 DEF BackendFails
  <2>3. backendUp' \in BOOLEAN
    BY <1>2 DEF BackendFails
  <2>4. TypeOK'
    BY <1>2, <2>2, <2>3 DEF BackendFails
  <2>5. ProbeDiscipline'
    BY <1>2, <2>1 DEF BackendFails
  <2>6. GenerationsSeparate' /\ ClosedBelowThreshold' /\ DisabledNeverOpens'
    BY <1>2, <2>1 DEF BackendFails
  <2> QED
    BY <2>4, <2>5, <2>6
<1>3. CASE BackendRecovers
  BY <1>3 DEF BackendRecovers
<1> QED
  BY <1>1, <1>2, <1>3

\* Every step keeps the invariant, and so does a stuttering one.
LEMMA NextInv == BreakerInv /\ [Next]_vars => BreakerInv'
<1> SUFFICES ASSUME BreakerInv, [Next]_vars PROVE BreakerInv'
  OBVIOUS
<1>1. ASSUME NEW c \in Calls, Execute(c) PROVE BreakerInv'
  BY <1>1, ExecuteInv
<1>2. ASSUME NEW c \in Calls, Release(c) PROVE BreakerInv'
  BY <1>2, ReleaseInv
<1>3. CASE Tick \/ BackendFails \/ BackendRecovers
  BY <1>3, WorldInv
<1>4. CASE UNCHANGED vars
  BY <1>4 DEF vars, BreakerInv, TypeOK, ProbeDiscipline, GenerationsSeparate,
     ClosedBelowThreshold, DisabledNeverOpens
<1> QED
  BY <1>1, <1>2, <1>3, <1>4 DEF Next

\* Every reachable state of the breaker satisfies the inductive invariant.
THEOREM InvariantTheorem == Spec => []BreakerInv
<1>1. Init => BreakerInv
  BY InitInv
<1>2. BreakerInv /\ [Next]_vars => BreakerInv'
  BY NextInv
<1> QED
  BY <1>1, <1>2, PTL DEF Spec

\* The variables of the breaker always have their types.
THEOREM TypeCorrect == Spec => []TypeOK
BY InvariantTheorem, PTL DEF BreakerInv

\* Never two probes, and the flag and the half-open state never disagree
\* (acquire() and release() of circuit-breaker.ts).
THEOREM OneProbe == Spec => []ProbeDiscipline
BY InvariantTheorem, PTL DEF BreakerInv

\* A call admitted before the circuit opened is recognised by its generation.
THEOREM StaleCallsRecognised == Spec => []GenerationsSeparate
BY InvariantTheorem, PTL DEF BreakerInv

\* A closed circuit is below the threshold.
THEOREM BelowThreshold == Spec => []ClosedBelowThreshold
BY InvariantTheorem, PTL DEF BreakerInv

\* A disabled breaker never opens and never counts a call: every request goes
\* to self-hosted.
THEOREM DisabledStaysOut == Spec => []DisabledNeverOpens
BY InvariantTheorem, PTL DEF BreakerInv

-----------------------------------------------------------------------------
\* The refinement: the sets of BreakerPromise, as the proof names them.

\* The abstract variables, under the refinement mapping of Promise.
Trusted == IF state = "closed"
           THEN {d \in Calls : permit[d].kind = "closed"
                               /\ permit[d].generation = generation}
           ELSE {}
Probing == {d \in Calls : permit[d].kind = "probe"}
Streak  == IF state = "closed" THEN consecutiveFailures ELSE 0
Rested  == IF state = "open" THEN elapsed ELSE 0

AbstractState == <<state, Trusted, Probing, Streak, Rested>>

\* The initial breaker is the initial abstract one.
LEMMA InitPromise == Init => Promise!Init
BY DEF Init, Promise!Init

\* Admitting a call is the abstract Admit or Probe; a call of a disabled
\* breaker and a rejected one leave the abstract state alone.
LEMMA ExecutePromise ==
    ASSUME BreakerInv, NEW c \in Calls, Execute(c)
    PROVE  Promise!Next \/ UNCHANGED AbstractState
<1> USE DEF BreakerInv, TypeOK, breakerVars, Grant, AbstractState,
            Trusted, Probing, Streak, Rested
<1>1. CASE Bypass(c)
  <2>1. Trusted' = Trusted /\ Probing' = Probing
    BY <1>1 DEF Bypass, DisabledNeverOpens
  <2> QED
    BY <1>1, <2>1 DEF Bypass
<1>2. CASE AdmitClosed(c)
  <2>1. Trusted' = Trusted \cup {c} /\ Probing' = Probing
    BY <1>2 DEF AdmitClosed
  <2>2. Promise!Admit(c)
    BY <1>2, <2>1 DEF AdmitClosed, Promise!Admit
  <2> QED
    BY <2>2 DEF Promise!Next
<1>3. CASE AdmitProbe(c)
  <2>1. state = "open" /\ elapsed = Cooldown
    BY <1>3, CooldownAssumption DEF AdmitProbe, ProbeDiscipline, CoolingDown
  <2>2. Trusted' = {} /\ Trusted = {} /\ Probing' = {c}
    BY <1>3, <2>1 DEF AdmitProbe, ProbeDiscipline
  <2>3. Promise!Probe(c)
    BY <1>3, <2>1, <2>2 DEF AdmitProbe, Promise!Probe
  <2> QED
    BY <2>3 DEF Promise!Next
<1>4. CASE Reject(c)
  <2>1. state' = state
    BY <1>4 DEF Reject, ProbeDiscipline
  <2> QED
    BY <1>4, <2>1 DEF Reject
<1> QED
  BY <1>1, <1>2, <1>3, <1>4 DEF Execute

\* The end of a trusted call is the abstract Succeed, Fail or LastFail, the end
\* of the probe ProbeSucceed or ProbeFail, and any other call ends unnoticed.
LEMMA ReleasePromise ==
    ASSUME BreakerInv, NEW c \in Calls, Release(c)
    PROVE  Promise!Next \/ UNCHANGED AbstractState
<1> USE DEF BreakerInv, TypeOK, breakerVars, GiveBack, AbstractState,
            Trusted, Probing, Streak, Rested
<1>1. CASE ReleaseBypass(c)
  <2>1. Trusted' = Trusted /\ Probing' = Probing
    BY <1>1 DEF ReleaseBypass
  <2> QED
    BY <1>1, <2>1 DEF ReleaseBypass
<1>2. CASE ReleaseProbe(c)
  <2>1. PICK failed \in Outcomes(c) :
            \/ failed /\ Open /\ UNCHANGED consecutiveFailures
            \/ /\ ~failed
               /\ state' = "closed"
               /\ consecutiveFailures' = 0
               /\ UNCHANGED <<generation, elapsed>>
    BY <1>2 DEF ReleaseProbe
  <2>2. state = "half-open" /\ Probing = {c} /\ Trusted = {}
    BY <1>2 DEF ReleaseProbe, ProbeDiscipline
  <2>3. Probing' = {} /\ permit' = [permit EXCEPT ![c] = NoPermit]
    BY <1>2, <2>2 DEF ReleaseProbe
  <2>4. CASE failed /\ Open
    <3>1. Promise!ProbeFail(c)
      BY <2>2, <2>3, <2>4 DEF Open, Promise!ProbeFail, Promise!Trip
    <3> QED
      BY <3>1 DEF Promise!Next
  <2>5. CASE state' = "closed" /\ consecutiveFailures' = 0
             /\ UNCHANGED <<generation, elapsed>>
    <3>1. Trusted' = {}
      BY <2>2, <2>3, <2>5 DEF GenerationsSeparate
    <3>2. Promise!ProbeSucceed(c)
      BY <2>2, <2>3, <2>5, <3>1 DEF Promise!ProbeSucceed
    <3> QED
      BY <3>2 DEF Promise!Next
  <2> QED
    BY <2>1, <2>4, <2>5
<1>3. CASE ReleaseStale(c)
  <2>1. Trusted' = Trusted /\ Probing' = Probing
    BY <1>3 DEF ReleaseStale, Stale
  <2> QED
    BY <1>3, <2>1 DEF ReleaseStale
<1>4. CASE ReleaseClosed(c)
  <2>1. PICK failed \in Outcomes(c) :
            /\ consecutiveFailures' = IF failed THEN consecutiveFailures + 1 ELSE 0
            /\ IF failed /\ consecutiveFailures + 1 >= Threshold
               THEN Open
               ELSE UNCHANGED <<state, generation, elapsed>>
    BY <1>4 DEF ReleaseClosed
  <2>2. /\ state = "closed" /\ Threshold > 0 /\ c \in Trusted
        /\ Probing = {} /\ consecutiveFailures < Threshold
    BY <1>4, ThresholdAssumption
    DEF ReleaseClosed, Stale, ProbeDiscipline, DisabledNeverOpens,
        ClosedBelowThreshold
  <2>3. permit' = [permit EXCEPT ![c] = NoPermit] /\ Probing' = {}
    BY <1>4, <2>2 DEF ReleaseClosed
  <2>4. CASE failed /\ consecutiveFailures + 1 >= Threshold
    <3>1. consecutiveFailures + 1 = Threshold
      BY <2>2, <2>4, ThresholdAssumption
    <3>2. Promise!LastFail(c)
      BY <2>1, <2>2, <2>3, <2>4, <3>1 DEF Open, Promise!LastFail, Promise!Trip
    <3> QED
      BY <3>2 DEF Promise!Next
  <2>5. CASE ~(failed /\ consecutiveFailures + 1 >= Threshold)
    <3>1. Trusted' = Trusted \ {c}
      BY <2>1, <2>2, <2>3, <2>5
    <3>2. CASE failed
      <4>1. Promise!Fail(c)
        BY <2>1, <2>2, <2>3, <2>5, <3>1, <3>2, ThresholdAssumption
        DEF Promise!Fail
      <4> QED
        BY <4>1 DEF Promise!Next
    <3>3. CASE ~failed
      <4>1. Promise!Succeed(c)
        BY <2>1, <2>2, <2>3, <2>5, <3>1, <3>3 DEF Promise!Succeed
      <4> QED
        BY <4>1 DEF Promise!Next
    <3> QED
      BY <3>2, <3>3
  <2> QED
    BY <2>4, <2>5
<1> QED
  BY <1>1, <1>2, <1>3, <1>4 DEF Release

\* Time is the abstract Rest; the backend is no part of the promise.
LEMMA WorldPromise ==
    ASSUME BreakerInv, Tick \/ BackendFails \/ BackendRecovers
    PROVE  Promise!Next \/ UNCHANGED AbstractState
<1> USE DEF BreakerInv, TypeOK, breakerVars, AbstractState,
            Trusted, Probing, Streak, Rested
<1>1. CASE Tick
  <2>1. CASE state = "open"
    <3>1. Promise!Rest
      BY <1>1, <2>1 DEF Tick, Promise!Rest
    <3> QED
      BY <3>1 DEF Promise!Next
  <2>2. CASE state # "open"
    BY <1>1, <2>2 DEF Tick
  <2> QED
    BY <2>1, <2>2
<1>2. CASE BackendFails
  <2>1. \A d \in Calls : /\ permit'[d].kind = permit[d].kind
                         /\ permit'[d].generation = permit[d].generation
    BY <1>2 DEF BackendFails
  <2>2. Trusted' = Trusted /\ Probing' = Probing
    BY <1>2, <2>1 DEF BackendFails
  <2> QED
    BY <1>2, <2>2 DEF BackendFails
<1>3. CASE BackendRecovers
  BY <1>3 DEF BackendRecovers
<1> QED
  BY <1>1, <1>2, <1>3

\* The breaker of circuit-breaker.ts implements BreakerPromise: only Threshold
\* consecutive failures of calls admitted since the circuit last closed, or a
\* failed probe, open it, it rests for the whole cooldown, and one probe at a
\* time goes through.
THEOREM BreakerKeepsPromise == Spec => KeepsPromise
<1>1. Init => Promise!Init
  BY InitPromise
<1>2. BreakerInv /\ [Next]_vars => [Promise!Next]_(Promise!vars)
  <2> SUFFICES ASSUME BreakerInv, [Next]_vars
               PROVE  Promise!Next \/ UNCHANGED Promise!vars
    OBVIOUS
  <2>1. UNCHANGED AbstractState => UNCHANGED Promise!vars
    BY DEF AbstractState, Promise!vars, Trusted, Probing, Streak, Rested
  <2>2. ASSUME NEW c \in Calls, Execute(c)
        PROVE  Promise!Next \/ UNCHANGED AbstractState
    BY <2>2, ExecutePromise
  <2>3. ASSUME NEW c \in Calls, Release(c)
        PROVE  Promise!Next \/ UNCHANGED AbstractState
    BY <2>3, ReleasePromise
  <2>4. CASE Tick \/ BackendFails \/ BackendRecovers
    BY <2>1, <2>4, WorldPromise
  <2>5. CASE UNCHANGED vars
    BY <2>5 DEF vars, Promise!vars
  <2> QED
    BY <2>1, <2>2, <2>3, <2>4, <2>5 DEF Next
<1> QED
  BY <1>1, <1>2, InvariantTheorem, PTL DEF Spec, KeepsPromise, Promise!Spec
=============================================================================

--------------------------- MODULE BreakerPromise ---------------------------
(***************************************************************************)
(* What the circuit breaker of the self-hosted backend promises, without   *)
(* the generation counter and the in-flight flag its code uses to keep the *)
(* promise.  While the circuit is closed, the calls admitted since it last *)
(* closed are "trusted": Threshold of them failing in a row opens it.  An  *)
(* open circuit rests for Cooldown ticks and then sends one probe, whose   *)
(* outcome alone decides what happens next.  A call that is neither        *)
(* trusted nor the probe can finish at any time without any effect.        *)
(***************************************************************************)
EXTENDS Naturals

CONSTANTS Calls,      \* the calls that can be in flight
          Threshold,  \* consecutive failures that open the circuit
          Cooldown    \* ticks an open circuit waits before it probes

VARIABLES mode,       \* "closed", "open" or "half-open"
          trusted,    \* the calls in flight whose outcome counts
          probing,    \* the probe in flight, if any
          streak,     \* consecutive failures of trusted calls
          rested      \* ticks since the circuit opened, up to Cooldown

vars == <<mode, trusted, probing, streak, rested>>

Init ==
    /\ mode = "closed"
    /\ trusted = {}
    /\ probing = {}
    /\ streak = 0
    /\ rested = 0

\* The circuit trips: whatever was trusted no longer is.
Trip ==
    /\ mode' = "open"
    /\ trusted' = {}
    /\ probing' = {}
    /\ streak' = 0
    /\ rested' = 0

Admit(c) ==
    /\ mode = "closed"
    /\ trusted' = trusted \cup {c}
    /\ UNCHANGED <<mode, probing, streak, rested>>

Succeed(c) ==
    /\ c \in trusted
    /\ trusted' = trusted \ {c}
    /\ streak' = 0
    /\ UNCHANGED <<mode, probing, rested>>

Fail(c) ==
    /\ c \in trusted
    /\ streak + 1 < Threshold
    /\ trusted' = trusted \ {c}
    /\ streak' = streak + 1
    /\ UNCHANGED <<mode, probing, rested>>

LastFail(c) ==
    /\ c \in trusted
    /\ streak + 1 = Threshold
    /\ Trip

Probe(c) ==
    /\ mode = "open"
    /\ rested = Cooldown
    /\ mode' = "half-open"
    /\ probing' = {c}
    /\ rested' = 0
    /\ UNCHANGED <<trusted, streak>>

ProbeSucceed(c) ==
    /\ probing = {c}
    /\ mode' = "closed"
    /\ probing' = {}
    /\ UNCHANGED <<trusted, streak, rested>>

ProbeFail(c) ==
    /\ probing = {c}
    /\ Trip

Rest ==
    /\ mode = "open"
    /\ rested < Cooldown
    /\ rested' = rested + 1
    /\ UNCHANGED <<mode, trusted, probing, streak>>

Next ==
    \/ \E c \in Calls :
          \/ Admit(c) \/ Succeed(c) \/ Fail(c) \/ LastFail(c)
          \/ Probe(c) \/ ProbeSucceed(c) \/ ProbeFail(c)
    \/ Rest

Spec == Init /\ [][Next]_vars
=============================================================================

-------------------------- MODULE MCCircuitBreaker --------------------------
(***************************************************************************)
(* CircuitBreaker with a small set of callers.  A behaviour is that of a   *)
(* breaker with the configured threshold, or of one whose threshold of 0   *)
(* disables it; the second must keep every property as well.               *)
(***************************************************************************)
EXTENDS CircuitBreaker

VARIABLE disabled

Disabled == INSTANCE CircuitBreaker WITH Threshold <- 0

MCInit == Init /\ disabled \in BOOLEAN

MCNext ==
    /\ UNCHANGED disabled
    /\ \/ ~disabled /\ Next
       \/ disabled /\ Disabled!Next

MCFairness == IF disabled THEN Disabled!Fairness ELSE Fairness

MCSpec == MCInit /\ [][MCNext]_<<vars, disabled>> /\ MCFairness
=============================================================================

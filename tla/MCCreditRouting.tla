-------------------------- MODULE MCCreditRouting --------------------------
(***************************************************************************)
(* CreditRouting in three scenes.  "ledger": any caller runs any script on *)
(* the pools of two keys that renew on different days, in any order, twice *)
(* or late.  "requests": two requests and a refresh of one instance share  *)
(* a key.  "instances": two instances refresh the same key at once.        *)
(***************************************************************************)
EXTENDS CreditRouting, TLC

CONSTANTS k1, k2

VARIABLE scene

MCRenewalDay == [k \in Keys |-> IF k = k1 THEN 1 ELSE 2]
MCSymmetry == Permutations(Requests) \cup Permutations(Instances) \cup Permutations(Ids)

Scenes ==
    [name : {"ledger"}, sequence : {Cardinality(Ids)}, requests : {{}}, instances : {{}}]
    \cup [name : {"requests"}, sequence : {2}, requests : {Requests},
          instances : {I \in SUBSET Instances : Cardinality(I) = 1}]
    \cup [name : {"instances"}, sequence : {1}, instances : {Instances},
          requests : {R \in SUBSET Requests : Cardinality(R) = 1}]

\* Only the actors of the scene act, and only on k1.
InScene ==
    /\ \A r \in Requests : request'[r].pc # "idle" =>
          /\ r \in scene.requests
          /\ request'[r].at \in scene.instances /\ request'[r].key = k1
    /\ \A p \in Instances \X Keys : p \notin scene.instances \X {k1} =>
          /\ refresh'[p].pc = "idle"
          /\ p \notin localDisabled'
    /\ redisDown' \subseteq scene.instances
    /\ reserveSequence'[k1] <= scene.sequence
    /\ \A k \in Keys \ {k1} : remaining'[k] = Allowance

MCInit == Init /\ scene \in Scenes

MCNext ==
    /\ UNCHANGED scene
    /\ \/ scene.name = "ledger" /\ LedgerNext /\ UNCHANGED gatewayVars
       \/ scene.name # "ledger" /\ Next /\ InScene

MCSpec == MCInit /\ [][MCNext]_<<vars, scene>>

\* The liveness properties are about the gateway alone, with nothing left out.
MCFairSpec ==
    /\ MCInit /\ scene.name = "requests"
    /\ [][Next /\ UNCHANGED scene]_<<vars, scene>>
    /\ Fairness
=============================================================================

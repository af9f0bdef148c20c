------------------------- MODULE CreditRoutingProofs -------------------------
(***************************************************************************)
(* Proofs about CreditLedger and CreditRouting, for any instances,         *)
(* requests, keys and usages, and about CreditsUsed, for documents of any  *)
(* depth and any numbers.                                                  *)
(*                                                                         *)
(* The ledger first: whatever the gateway instances do with its scripts,   *)
(* in any number and any order, the pool's counters agree with its         *)
(* reservations and no credit is created.  The gateway, with its lost      *)
(* answers, restarts and late refreshes, does nothing to the ledger that   *)
(* CreditLedger does not allow (GatewayUsesLedger), so that this holds in  *)
(* the gateway too.                                                        *)
(*                                                                         *)
(* That the reservation of a request is closed by that request alone       *)
(* (ReservationHeld) needs more: no other request may hold its UUID.  The  *)
(* invariant says so, and that a UUID which a request holds is not one     *)
(* that is yet to be drawn, also after a restart forgot other requests.    *)
(*                                                                         *)
(* The scanner of the answers last.  It keeps no stack, only two counts    *)
(* and a mark: the invariant says that these tell it, as long as it has    *)
(* found nothing, whether a digit belongs to the value that is meant.      *)
(***************************************************************************)
EXTENDS CreditRouting, CreditsUsed, FiniteSetTheorems, SequenceTheorems, TLAPS

-----------------------------------------------------------------------------
\* The ledger.

\* The inductive invariant.  A new reservation adds a member to the sorted set
\* because, by OpenIsTracked, the UUID of a member was drawn before.
LedgerInv ==
    /\ LedgerTypeOK
    /\ ReservedIsTracked
    /\ OpenIsTracked
    /\ NoCreditCreated

\* The reservations of a key are finitely many.
LEMMA FiniteReservations ==
    ASSUME LedgerTypeOK, NEW k \in Keys
    PROVE  /\ IsFiniteSet(tracked[k]) /\ Cardinality(tracked[k]) \in Nat
           /\ IsFiniteSet(open[k]) /\ Cardinality(open[k]) \in Nat
<1>1. tracked[k] \subseteq Ids /\ open[k] \subseteq Ids
  BY DEF LedgerTypeOK
<1>2. IsFiniteSet(tracked[k]) /\ IsFiniteSet(open[k])
  BY <1>1, IdsAssumption, FS_Subset
<1> QED
  BY <1>2, FS_CardinalityType

\* The same after a step.
LEMMA FiniteReservationsAfter ==
    ASSUME LedgerTypeOK', NEW k \in Keys
    PROVE  /\ IsFiniteSet(tracked'[k]) /\ Cardinality(tracked'[k]) \in Nat
           /\ IsFiniteSet(open'[k]) /\ Cardinality(open'[k]) \in Nat
<1>1. tracked'[k] \subseteq Ids /\ open'[k] \subseteq Ids
  BY DEF LedgerTypeOK
<1>2. IsFiniteSet(tracked'[k]) /\ IsFiniteSet(open'[k])
  BY <1>1, IdsAssumption, FS_Subset
<1> QED
  BY <1>2, FS_CardinalityType

\* Initially there is no reservation and nothing to reserve.
LEMMA LedgerInitInv == LedgerInit => LedgerInv
<1> SUFFICES ASSUME LedgerInit PROVE LedgerInv
  OBVIOUS
<1>1. LedgerTypeOK
  <2>1. /\ known \in [Keys -> BOOLEAN]
        /\ disabled \in [Keys -> BOOLEAN]
        /\ cooling \in [Keys -> BOOLEAN]
    BY DEF LedgerInit
  <2>2. /\ credits \in [Keys -> Nat]
        /\ reserved \in [Keys -> Nat]
        /\ reserveSequence \in [Keys -> Nat]
        /\ budget \in [Keys -> Nat]
    BY DEF LedgerInit
  <2>3. /\ open \in [Keys -> SUBSET Ids] /\ tracked \in [Keys -> SUBSET Ids]
        /\ sequenceOf \in [Ids -> Nat]
    BY DEF LedgerInit
  <2> QED
    BY <2>1, <2>2, <2>3 DEF LedgerTypeOK
<1>2. ReservedIsTracked /\ NoCreditCreated
  BY FS_EmptySet DEF LedgerInit, ReservedIsTracked, NoCreditCreated
<1>3. OpenIsTracked
  BY DEF LedgerInit, OpenIsTracked
<1> QED
  BY <1>1, <1>2, <1>3 DEF LedgerInv

\* A reservation takes one credit and adds one new member to both records.
LEMMA ReserveInv ==
    ASSUME LedgerInv, NEW candidates \in SUBSET Keys, NEW k \in Keys, NEW id \in Ids,
           ReserveScript(candidates, k, id)
    PROVE  LedgerInv'
<1>1. credits[k] \in Nat /\ credits[k] >= 1
  BY DEF LedgerInv, LedgerTypeOK, ReserveScript, Preferred, Eligible
<1>2. /\ sequenceOf[id] = 0
      /\ \A j \in Keys : id \notin tracked[j] /\ id \notin open[j]
  BY DEF LedgerInv, LedgerTypeOK, OpenIsTracked, ReserveScript
<1>3. LedgerTypeOK'
  BY <1>1 DEF LedgerInv, LedgerTypeOK, ReserveScript
<1>4. OpenIsTracked'
  <2>1. /\ open' = [open EXCEPT ![k] = @ \cup {id}]
        /\ tracked' = [tracked EXCEPT ![k] = @ \cup {id}]
        /\ sequenceOf' = [sequenceOf EXCEPT ![id] = reserveSequence[k] + 1]
        /\ reserveSequence' = [reserveSequence EXCEPT ![k] = @ + 1]
    BY DEF ReserveScript
  <2>2. \A j \in Keys : open'[j] \subseteq tracked'[j]
    BY <2>1 DEF LedgerInv, LedgerTypeOK, OpenIsTracked
  <2>3. ASSUME NEW j \in Keys, NEW d \in tracked'[j]
        PROVE  sequenceOf'[d] \in 1..reserveSequence'[j]
    <3>1. CASE d = id
      <4>1. j = k
        BY <1>2, <2>1, <3>1 DEF LedgerInv, LedgerTypeOK
      <4> QED
        BY <2>1, <3>1, <4>1 DEF LedgerInv, LedgerTypeOK
    <3>2. CASE d # id
      <4>1. d \in tracked[j] /\ d \in Ids
        BY <2>1, <3>2 DEF LedgerInv, LedgerTypeOK
      <4>2. sequenceOf'[d] = sequenceOf[d] /\ sequenceOf[d] \in 1..reserveSequence[j]
        BY <2>1, <3>2, <4>1 DEF LedgerInv, LedgerTypeOK, OpenIsTracked
      <4>3. /\ reserveSequence[j] \in Nat
            /\ reserveSequence'[j] \in {reserveSequence[j], reserveSequence[j] + 1}
        BY <2>1 DEF LedgerInv, LedgerTypeOK
      <4>4. \A n, m \in Nat : \A x \in 1..n : m \in {n, n + 1} => x \in 1..m
        OBVIOUS
      <4>5. reserveSequence'[j] \in Nat
        BY <4>3
      <4> QED
        BY <4>2, <4>3, <4>4, <4>5, Zenon
    <3> QED
      BY <3>1, <3>2
  <2> QED
    BY <2>2, <2>3, Zenon DEF OpenIsTracked
<1>5. /\ Cardinality(tracked'[k]) = Cardinality(tracked[k]) + 1
      /\ Cardinality(open'[k]) = Cardinality(open[k]) + 1
  <2>1. tracked'[k] = tracked[k] \cup {id} /\ open'[k] = open[k] \cup {id}
    BY DEF LedgerInv, LedgerTypeOK, ReserveScript
  <2>2. IsFiniteSet(tracked[k]) /\ IsFiniteSet(open[k])
    BY FiniteReservations DEF LedgerInv
  <2>3. id \notin tracked[k] /\ id \notin open[k]
    BY <1>2
  <2>4. Cardinality(tracked[k] \cup {id}) = Cardinality(tracked[k]) + 1
    BY <2>2, <2>3, FS_AddElement
  <2>5. Cardinality(open[k] \cup {id}) = Cardinality(open[k]) + 1
    BY <2>2, <2>3, FS_AddElement
  <2> QED
    BY <2>1, <2>4, <2>5
<1>6. ReservedIsTracked'
  BY <1>5, FiniteReservations
  DEF LedgerInv, LedgerTypeOK, ReservedIsTracked, ReserveScript
<1>7. NoCreditCreated'
  BY <1>1, <1>5, FiniteReservations
  DEF LedgerInv, LedgerTypeOK, NoCreditCreated, ReserveScript
<1> QED
  BY <1>3, <1>4, <1>6, <1>7 DEF LedgerInv

\* What every way to close an open reservation does to the two records.
LEMMA CloseReservationCounts ==
    ASSUME LedgerInv, NEW k \in Keys, NEW s \in open[k], CloseReservation(k, s)
    PROVE  /\ open' \in [Keys -> SUBSET Ids]
           /\ tracked' \in [Keys -> SUBSET Ids]
           /\ reserved' \in [Keys -> Nat]
           /\ \A j \in Keys : reserved'[j] = Cardinality(tracked'[j])
           /\ \A j \in Keys : /\ open'[j] \subseteq tracked'[j]
                              /\ tracked'[j] \subseteq tracked[j]
           /\ Cardinality(open'[k]) = Cardinality(open[k]) - 1
           /\ \A j \in Keys \ {k} : open'[j] = open[j]
<1>1. s \in tracked[k]
  BY DEF LedgerInv, OpenIsTracked
<1>2. tracked'[k] = tracked[k] \ {s} /\ open'[k] = open[k] \ {s}
  BY DEF LedgerInv, LedgerTypeOK, CloseReservation
<1>3. /\ Cardinality(tracked'[k]) = Cardinality(tracked[k]) - 1
      /\ Cardinality(tracked'[k]) \in Nat
      /\ Cardinality(open'[k]) = Cardinality(open[k]) - 1
  BY <1>1, <1>2, FiniteReservations, FS_RemoveElement, FS_CardinalityType
  DEF LedgerInv
<1>4. reserved[k] = Cardinality(tracked[k])
  BY DEF LedgerInv, ReservedIsTracked
<1>5. reserved' = [reserved EXCEPT ![k] = Cardinality(tracked'[k])]
  BY <1>3, <1>4 DEF CloseReservation, LedgerInv, LedgerTypeOK
<1>6. \A j \in Keys \ {k} : /\ open'[j] = open[j] /\ tracked'[j] = tracked[j]
                            /\ reserved'[j] = reserved[j]
  BY DEF LedgerInv, LedgerTypeOK, CloseReservation
<1>7. /\ open' \in [Keys -> SUBSET Ids]
      /\ tracked' \in [Keys -> SUBSET Ids]
      /\ reserved' \in [Keys -> Nat]
  BY <1>3, <1>5 DEF LedgerInv, LedgerTypeOK, CloseReservation
<1>8. \A j \in Keys : reserved'[j] = Cardinality(tracked'[j])
  BY <1>5, <1>6 DEF LedgerInv, LedgerTypeOK, ReservedIsTracked
<1>9. \A j \in Keys : /\ open'[j] \subseteq tracked'[j]
                      /\ tracked'[j] \subseteq tracked[j]
  BY <1>2, <1>6 DEF LedgerInv, OpenIsTracked
<1> QED
  BY <1>3, <1>6, <1>7, <1>8, <1>9

\* Settling keeps the invariant, for an open reservation and for any other.
LEMMA SettleInv ==
    ASSUME LedgerInv, NEW k \in Keys, NEW s, NEW action,
           SettleScript(k, s, action)
    PROVE  LedgerInv'
<1>1. /\ known' \in [Keys -> BOOLEAN]
      /\ disabled' \in [Keys -> BOOLEAN]
      /\ cooling' \in [Keys -> BOOLEAN]
      /\ UNCHANGED <<reserveSequence, sequenceOf, budget>>
  BY DEF LedgerInv, LedgerTypeOK, SettleScript
<1>2. CASE s \in open[k]
  <2>1. CloseReservation(k, s)
    BY <1>2 DEF SettleScript
  <2>2. credits' = [credits EXCEPT ![k] = IF action = "disabled" THEN 0
                                          ELSE credits[k] + 1]
    BY <1>2 DEF SettleScript
  <2>3. credits[k] \in Nat /\ credits' \in [Keys -> Nat]
    BY <2>2 DEF LedgerInv, LedgerTypeOK
  <2>4. LedgerTypeOK'
    BY <1>1, <1>2, <2>1, <2>3, CloseReservationCounts DEF LedgerInv, LedgerTypeOK
  <2>5. ReservedIsTracked' /\ OpenIsTracked'
    BY <1>1, <1>2, <2>1, CloseReservationCounts
    DEF LedgerInv, OpenIsTracked, ReservedIsTracked
  <2>6. NoCreditCreated'
    <3>1. Cardinality(open'[k]) = Cardinality(open[k]) - 1
      BY <1>2, <2>1, CloseReservationCounts
    <3>2. Cardinality(open[k]) \in Nat /\ Cardinality(open'[k]) \in Nat
      BY <2>4, <2>5, FiniteReservations, FiniteReservationsAfter DEF LedgerInv
    <3>3. \A j \in Keys \ {k} : open'[j] = open[j]
      BY <1>2, <2>1, CloseReservationCounts
    <3> QED
      BY <1>1, <2>2, <2>3, <3>1, <3>2, <3>3
      DEF LedgerInv, LedgerTypeOK, NoCreditCreated
  <2> QED
    BY <2>4, <2>5, <2>6 DEF LedgerInv
<1>3. CASE s \notin open[k]
  <2>1. UNCHANGED <<open, tracked, reserved>>
    BY <1>3 DEF SettleScript
  <2>2. credits' = [credits EXCEPT ![k] = IF action = "disabled" THEN 0
                                          ELSE credits[k]]
    BY <1>3 DEF SettleScript
  <2>3. LedgerTypeOK'
    BY <1>1, <2>1, <2>2 DEF LedgerInv, LedgerTypeOK
  <2>4. ReservedIsTracked' /\ OpenIsTracked'
    BY <1>1, <2>1 DEF LedgerInv, OpenIsTracked, ReservedIsTracked
  <2>5. NoCreditCreated'
    BY <1>1, <2>1, <2>2, FiniteReservations
    DEF LedgerInv, LedgerTypeOK, NoCreditCreated
  <2> QED
    BY <2>3, <2>4, <2>5 DEF LedgerInv
<1> QED
  BY <1>2, <1>3

\* Charging the actual usage keeps the invariant, also when the pool cannot
\* cover it.
LEMMA ActualUsageInv ==
    ASSUME LedgerInv, NEW k \in Keys, NEW s, NEW actual \in Nat,
           ActualUsageScript(k, s, actual)
    PROVE  LedgerInv'
<1>1. s \in open[k] /\ CloseReservation(k, s)
      /\ UNCHANGED <<known, reserveSequence, sequenceOf, disabled, cooling, budget>>
  BY DEF ActualUsageScript
<1>2. credits' = [credits EXCEPT ![k] = IF credits[k] + 1 - actual >= 0
                                        THEN credits[k] + 1 - actual ELSE 0]
  BY DEF ActualUsageScript
<1>3. credits[k] \in Nat /\ credits'[k] \in Nat /\ credits'[k] <= credits[k] + 1
      /\ credits' \in [Keys -> Nat]
  BY <1>2 DEF LedgerInv, LedgerTypeOK
<1>4. LedgerTypeOK'
  BY <1>1, <1>3, CloseReservationCounts DEF LedgerInv, LedgerTypeOK
<1>5. ReservedIsTracked' /\ OpenIsTracked'
  BY <1>1, CloseReservationCounts DEF LedgerInv, OpenIsTracked, ReservedIsTracked
<1>6. NoCreditCreated'
  <2>1. Cardinality(open'[k]) = Cardinality(open[k]) - 1
    BY <1>1, CloseReservationCounts
  <2>2. Cardinality(open[k]) \in Nat /\ Cardinality(open'[k]) \in Nat
    BY <1>4, <1>5, FiniteReservations, FiniteReservationsAfter DEF LedgerInv
  <2>3. \A j \in Keys \ {k} : open'[j] = open[j] /\ credits'[j] = credits[j]
    BY <1>1, <1>2, CloseReservationCounts DEF LedgerInv, LedgerTypeOK
  <2> QED
    BY <1>1, <1>3, <2>1, <2>2, <2>3 DEF LedgerInv, LedgerTypeOK, NoCreditCreated
<1> QED
  BY <1>4, <1>5, <1>6 DEF LedgerInv

\* A reconcile keeps exactly the pending reservations and grants a new budget.
LEMMA ReconcileInv ==
    ASSUME LedgerInv, NEW k \in Keys, NEW snapshot \in Nat, NEW sequence \in Nat,
           ReconcileScript(k, snapshot, sequence)
    PROVE  LedgerInv'
<1> DEFINE fresh == Pending(k, sequence)
           pending == Cardinality(fresh)
<1>1. fresh \subseteq open[k] /\ fresh \subseteq tracked[k]
  BY DEF Pending
<1>2. pending \in Nat
  <2>1. IsFiniteSet(open[k])
    BY FiniteReservations DEF LedgerInv
  <2> QED
    BY <1>1, <2>1, FS_Subset, FS_CardinalityType
<1> HIDE DEF pending
<1>3. tracked' = [tracked EXCEPT ![k] = fresh]
  <2>1. tracked[k] \ (tracked[k] \ fresh) = fresh
    BY <1>1
  <2> QED
    BY <2>1 DEF ReconcileScript
<1>4. open' = [open EXCEPT ![k] = fresh]
  <2>1. open[k] \ (tracked[k] \ fresh) = fresh
    BY <1>1 DEF LedgerInv, OpenIsTracked
  <2> QED
    BY <2>1 DEF ReconcileScript
<1>5. /\ reserved' = [reserved EXCEPT ![k] = pending]
      /\ credits' = [credits EXCEPT ![k] =
                       IF snapshot >= pending THEN snapshot - pending ELSE 0]
      /\ budget' = [budget EXCEPT ![k] =
                      IF snapshot >= pending THEN snapshot ELSE pending]
      /\ UNCHANGED <<reserveSequence, sequenceOf, cooling>>
  BY DEF ReconcileScript, pending
<1>6. known' \in [Keys -> BOOLEAN] /\ disabled' \in [Keys -> BOOLEAN]
  BY DEF LedgerInv, LedgerTypeOK, ReconcileScript
<1>7. LedgerTypeOK'
  <2>1. fresh \subseteq Ids
    BY <1>1 DEF LedgerInv, LedgerTypeOK
  <2> HIDE DEF fresh
  <2>2. open' \in [Keys -> SUBSET Ids] /\ tracked' \in [Keys -> SUBSET Ids]
    BY <1>3, <1>4, <2>1 DEF LedgerInv, LedgerTypeOK
  <2>3. /\ reserved' \in [Keys -> Nat] /\ credits' \in [Keys -> Nat]
        /\ budget' \in [Keys -> Nat] /\ reserveSequence' \in [Keys -> Nat]
        /\ sequenceOf' \in [Ids -> Nat]
    BY <1>2, <1>5 DEF LedgerInv, LedgerTypeOK
  <2>4. cooling' \in [Keys -> BOOLEAN]
    BY <1>5 DEF LedgerInv, LedgerTypeOK
  <2> QED
    BY <1>6, <2>2, <2>3, <2>4 DEF LedgerTypeOK
<1>8. ReservedIsTracked' /\ OpenIsTracked'
  <2>1. tracked'[k] = fresh /\ open'[k] = fresh /\ reserved'[k] = pending
    BY <1>3, <1>4, <1>5 DEF LedgerInv, LedgerTypeOK
  <2>2. \A j \in Keys \ {k} : /\ tracked'[j] = tracked[j] /\ open'[j] = open[j]
                              /\ reserved'[j] = reserved[j]
    BY <1>3, <1>4, <1>5 DEF LedgerInv, LedgerTypeOK
  <2>3. pending = Cardinality(fresh)
    BY DEF pending
  <2> HIDE DEF fresh
  <2> QED
    BY <1>1, <1>5, <2>1, <2>2, <2>3 DEF LedgerInv, OpenIsTracked, ReservedIsTracked
<1>9. NoCreditCreated'
  <2>1. Cardinality(open'[k]) = pending
    BY <1>4 DEF LedgerInv, LedgerTypeOK, pending
  <2>2. credits'[k] + pending <= budget'[k]
    BY <1>2, <1>5 DEF LedgerInv, LedgerTypeOK
  <2>3. \A j \in Keys \ {k} : /\ open'[j] = open[j] /\ credits'[j] = credits[j]
                              /\ budget'[j] = budget[j]
    BY <1>4, <1>5 DEF LedgerInv, LedgerTypeOK
  <2> QED
    BY <2>1, <2>2, <2>3 DEF LedgerInv, NoCreditCreated
<1> QED
  BY <1>7, <1>8, <1>9 DEF LedgerInv

\* An expired hash leaves its member behind; it can only lower what may return.
LEMMA ExpireInv ==
    ASSUME LedgerInv, NEW k \in Keys, NEW s, Expire(k, s)
    PROVE  LedgerInv'
<1>1. /\ open' = [open EXCEPT ![k] = @ \ {s}]
      /\ UNCHANGED <<known, credits, reserved, reserveSequence, disabled,
                     cooling, tracked, sequenceOf, budget>>
  BY DEF Expire
<1>2. LedgerTypeOK' /\ OpenIsTracked' /\ ReservedIsTracked'
  BY <1>1 DEF LedgerInv, LedgerTypeOK, OpenIsTracked, ReservedIsTracked
<1>3. NoCreditCreated'
  <2>1. \A j \in Keys : IsFiniteSet(open[j]) /\ open'[j] \in SUBSET open[j]
    BY <1>1, FiniteReservations DEF LedgerInv, LedgerTypeOK
  <2>2. \A j \in Keys : Cardinality(open'[j]) <= Cardinality(open[j])
    BY <2>1, FS_Subset
  <2>3. \A j \in Keys : Cardinality(open'[j]) \in Nat /\ Cardinality(open[j]) \in Nat
    BY <1>2, FiniteReservations, FiniteReservationsAfter DEF LedgerInv
  <2>4. \A j \in Keys : credits[j] \in Nat /\ budget[j] \in Nat
    BY DEF LedgerInv, LedgerTypeOK
  <2>5. \A j \in Keys : credits[j] + Cardinality(open[j]) <= budget[j]
    BY DEF LedgerInv, NoCreditCreated
  <2>6. \A j \in Keys : credits[j] + Cardinality(open'[j]) <= budget[j]
    BY <2>2, <2>3, <2>4, <2>5
  <2> QED
    BY <1>1, <2>6 DEF NoCreditCreated
<1> QED
  BY <1>2, <1>3 DEF LedgerInv

\* The end of a cooldown touches no credit and no reservation.
LEMMA CooldownEndsInv ==
    ASSUME LedgerInv, NEW k \in Keys, CooldownEnds(k)
    PROVE  LedgerInv'
<1>1. cooling' \in [Keys -> BOOLEAN]
  BY DEF LedgerInv, LedgerTypeOK, CooldownEnds
<1> QED
  BY <1>1 DEF LedgerInv, LedgerTypeOK, OpenIsTracked, ReservedIsTracked,
              NoCreditCreated, CooldownEnds

\* Every script keeps the invariant, and so does a stuttering step.
LEMMA LedgerNextInv == LedgerInv /\ [LedgerNext]_ledgerVars => LedgerInv'
<1> SUFFICES ASSUME LedgerInv, [LedgerNext]_ledgerVars PROVE LedgerInv'
  OBVIOUS
<1>1. ASSUME NEW k \in Keys, NEW candidates \in SUBSET Keys, NEW id \in Ids,
             ReserveScript(candidates, k, id)
      PROVE  LedgerInv'
  BY <1>1, ReserveInv
<1>2. ASSUME NEW k \in Keys, NEW s, NEW action, SettleScript(k, s, action)
      PROVE  LedgerInv'
  BY <1>2, SettleInv
<1>3. ASSUME NEW k \in Keys, NEW s, NEW actual \in Usages,
             ActualUsageScript(k, s, actual)
      PROVE  LedgerInv'
  BY <1>3, ActualUsageInv, UsagesAssumption
<1>4. ASSUME NEW k \in Keys, NEW s, Expire(k, s) PROVE LedgerInv'
  BY <1>4, ExpireInv
<1>5. ASSUME NEW k \in Keys, NEW snapshot \in Snapshots,
             NEW sequence \in 0..reserveSequence[k],
             ReconcileScript(k, snapshot, sequence)
      PROVE  LedgerInv'
  <2>1. snapshot \in Nat /\ sequence \in Nat
    BY SnapshotsAssumption DEF LedgerInv, LedgerTypeOK
  <2> QED
    BY <1>5, <2>1, ReconcileInv
<1>6. ASSUME NEW k \in Keys, CooldownEnds(k) PROVE LedgerInv'
  BY <1>6, CooldownEndsInv
<1>7. CASE UNCHANGED ledgerVars
  BY <1>7 DEF ledgerVars, LedgerInv, LedgerTypeOK, OpenIsTracked,
              ReservedIsTracked, NoCreditCreated
<1> QED
  BY <1>1, <1>2, <1>3, <1>4, <1>5, <1>6, <1>7 DEF LedgerNext

\* Every reachable state of the ledger satisfies the inductive invariant.
THEOREM LedgerInvariant == LedgerSpec => []LedgerInv
<1>1. LedgerInit => LedgerInv
  BY LedgerInitInv
<1>2. LedgerInv /\ [LedgerNext]_ledgerVars => LedgerInv'
  BY LedgerNextInv
<1> QED
  BY <1>1, <1>2, PTL DEF LedgerSpec

\* The fields of a pool keep their types: in particular neither the credits nor
\* the reserved credits of a pool ever become negative.
THEOREM LedgerTypeCorrect == LedgerSpec => []LedgerTypeOK
BY LedgerInvariant, PTL DEF LedgerInv

\* The pool's reserved counter is the size of its sorted set (the HINCRBY and
\* ZADD/ZREM pairs of the five scripts).
THEOREM ReservedCounterExact == LedgerSpec => []ReservedIsTracked
BY LedgerInvariant, PTL DEF LedgerInv

\* Every open reservation can be found by the next refresh.
THEOREM OpenReservationsTracked == LedgerSpec => []OpenIsTracked
BY LedgerInvariant, PTL DEF LedgerInv

\* Between two reconciles no script hands back more than was taken.
THEOREM CreditsConserved == LedgerSpec => []NoCreditCreated
BY LedgerInvariant, PTL DEF LedgerInv

-----------------------------------------------------------------------------
\* The gateway.

\* Of requests Q, none holds a UUID that n says is yet to be drawn, nor two the
\* same.
RequestsOK(Q, n) ==
    /\ Q \in [Requests -> RequestStates]
    /\ \A r \in Requests : Q[r].pc # "idle" /\ Q[r].id # Local => n[Q[r].id] > 0
    /\ \A r, q \in Requests :
          /\ Q[r].pc # "idle" /\ Q[q].pc # "idle"
          /\ Q[r].id = Q[q].id /\ Q[r].id # Local
          => r = q

\* No refresh captured a sequence beyond n.
RefreshesOK(F, n) ==
    /\ F \in [Instances \X Keys -> RefreshStates]
    /\ \A p \in Instances \X Keys : F[p].pc # "idle" => F[p].sequence <= n[p[2]]

GatewayInv ==
    /\ TypeOK
    /\ LedgerInv
    /\ RequestsOK(request, sequenceOf)
    /\ RefreshesOK(refresh, reserveSequence)

-----------------------------------------------------------------------------
\* Lemmas about the records.

\* The parts of a request.
LEMMA RequestShape ==
    ASSUME NEW q \in RequestStates
    PROVE  /\ q.pc \in {"idle", "sent", "answered"}
           /\ q.pc # "idle" => q.at \in Instances /\ q.key \in Keys /\ q.id \in Ids \cup {Local}
           /\ q.pc = "answered" => q.status \in Statuses /\ q.used \in Usages \cup {Unreported}
BY DEF RequestStates

\* What makes a request that was sent.
LEMMA SentShape ==
    ASSUME NEW i \in Instances, NEW k \in Keys, NEW id \in Ids \cup {Local}
    PROVE  /\ SentRequest(i, k, id) \in RequestStates /\ SentRequest(i, k, id).pc = "sent"
           /\ SentRequest(i, k, id).key = k /\ SentRequest(i, k, id).id = id
BY DEF SentRequest, RequestStates

\* An answer does not change the reservation of a request.
LEMMA AnsweredShape ==
    ASSUME NEW q \in RequestStates, q.pc = "sent",
           NEW status \in Statuses, NEW used \in Usages \cup {Unreported}
    PROVE  /\ AnsweredRequest(q, status, used) \in RequestStates
           /\ AnsweredRequest(q, status, used).id = q.id
BY DEF AnsweredRequest, RequestStates

\* A request that is over.
LEMMA IdleShape == IdleRequest \in RequestStates /\ IdleRequest.pc = "idle"
BY DEF IdleRequest, RequestStates

\* The parts of a refresh.
LEMMA RefreshShape ==
    ASSUME NEW f \in RefreshStates
    PROVE  /\ f.pc # "idle" => f.sequence \in Nat \cup {NotCaptured}
           /\ f.pc = "fetched" => f.snapshot \in 0..Allowance
BY DEF RefreshStates

\* A refresh that is over.
LEMMA IdleRefreshShape == IdleRefresh \in RefreshStates /\ IdleRefresh.pc = "idle"
BY DEF IdleRefresh, RefreshStates

-----------------------------------------------------------------------------
\* How requests and refreshes go on.

\* Requests that go on with what they hold, or end, hold nothing new.
LEMMA RequestsKept ==
    ASSUME NEW Q, NEW R \in [Requests -> RequestStates],
           NEW n \in [Ids -> Nat], NEW m \in [Ids -> Nat], \A id \in Ids : n[id] <= m[id],
           RequestsOK(Q, n),
           \A r \in Requests : R[r].pc # "idle" => Q[r].pc # "idle" /\ R[r].id = Q[r].id
    PROVE  RequestsOK(R, m)
<1>1. ASSUME NEW r \in Requests, R[r].pc # "idle", R[r].id # Local PROVE m[R[r].id] > 0
  <2>1. R[r].id \in Ids
    BY <1>1, RequestShape
  <2>2. n[R[r].id] > 0
    BY <1>1 DEF RequestsOK
  <2>3. n[R[r].id] \in Nat /\ m[R[r].id] \in Nat /\ n[R[r].id] <= m[R[r].id]
    BY <2>1
  <2> QED
    BY <2>2, <2>3
<1>2. ASSUME NEW r \in Requests, NEW q \in Requests, R[r].pc # "idle", R[q].pc # "idle",
             R[r].id = R[q].id, R[r].id # Local
      PROVE  r = q
  BY <1>2 DEF RequestsOK
<1> QED
  BY <1>1, <1>2 DEF RequestsOK

\* A request that is sent holds no reservation, or one whose UUID is new.
LEMMA RequestAdded ==
    ASSUME NEW Q, NEW n \in [Ids -> Nat], NEW m \in [Ids -> Nat],
           \A id \in Ids : n[id] <= m[id],
           RequestsOK(Q, n), NEW r \in Requests, Q[r].pc = "idle",
           NEW i \in Instances, NEW k \in Keys, NEW d \in Ids \cup {Local},
           d # Local => n[d] = 0 /\ m[d] > 0
    PROVE  RequestsOK([Q EXCEPT ![r] = SentRequest(i, k, d)], m)
<1> DEFINE R == [Q EXCEPT ![r] = SentRequest(i, k, d)]
<1>1. /\ R \in [Requests -> RequestStates]
      /\ R[r].pc = "sent" /\ R[r].id = d
      /\ \A q \in Requests \ {r} : R[q] = Q[q]
  BY SentShape DEF RequestsOK
<1> HIDE DEF R
<1>2. ASSUME NEW q \in Requests \ {r}, R[q].pc # "idle", R[q].id # Local
      PROVE  R[q].id \in Ids /\ n[R[q].id] > 0
  <2>1. R[q].id \in Ids
    BY <1>1, <1>2, RequestShape
  <2> QED
    BY <1>1, <1>2, <2>1 DEF RequestsOK
<1>3. ASSUME NEW q \in Requests, R[q].pc # "idle", R[q].id # Local PROVE m[R[q].id] > 0
  <2>1. CASE q = r
    BY <1>1, <1>3, <2>1
  <2>2. CASE q # r
    <3>1. n[R[q].id] > 0 /\ n[R[q].id] \in Nat /\ m[R[q].id] \in Nat /\ n[R[q].id] <= m[R[q].id]
      BY <1>2, <1>3, <2>2
    <3> QED
      BY <3>1
  <2> QED
    BY <2>1, <2>2
<1>4. ASSUME NEW q \in Requests \ {r}, R[q].pc # "idle", d # Local PROVE R[q].id # d
  BY <1>2, <1>4
<1>5. ASSUME NEW p \in Requests, NEW q \in Requests, R[p].pc # "idle", R[q].pc # "idle",
             R[p].id = R[q].id, R[p].id # Local
      PROVE  p = q
  <2>1. CASE p # r /\ q # r
    BY <1>1, <1>5, <2>1 DEF RequestsOK
  <2>2. CASE p = r /\ q # r
    BY <1>1, <1>4, <1>5, <2>2
  <2>3. CASE p # r /\ q = r
    BY <1>1, <1>4, <1>5, <2>3
  <2> QED
    BY <2>1, <2>2, <2>3
<1> QED
  BY <1>1, <1>3, <1>5 DEF RequestsOK, R

\* A refresh captures no more than the newest sequence, and keeps what it captured.
LEMMA RefreshesKept ==
    ASSUME NEW F, NEW G \in [Instances \X Keys -> RefreshStates],
           NEW n \in [Keys -> Nat], NEW m \in [Keys -> Nat], \A k \in Keys : n[k] <= m[k],
           RefreshesOK(F, n),
           \A p \in Instances \X Keys : G[p].pc # "idle" =>
               \/ F[p].pc # "idle" /\ G[p].sequence = F[p].sequence
               \/ G[p].sequence \in {NotCaptured, n[p[2]]}
    PROVE  RefreshesOK(G, m)
<1> SUFFICES ASSUME NEW p \in Instances \X Keys, G[p].pc # "idle"
             PROVE  G[p].sequence <= m[p[2]]
  BY DEF RefreshesOK
<1>1. p[2] \in Keys /\ n[p[2]] \in Nat /\ m[p[2]] \in Nat /\ n[p[2]] <= m[p[2]]
  OBVIOUS
<1>2. G[p].sequence \in Nat \cup {NotCaptured}
  BY RefreshShape
<1>3. G[p].sequence <= n[p[2]]
  BY <1>1 DEF RefreshesOK, NotCaptured
<1> QED
  BY <1>1, <1>2, <1>3 DEF NotCaptured

-----------------------------------------------------------------------------
\* The gateway and the ledger.

\* Sequences and the numbers of the UUIDs only grow.
LEMMA SequencesGrow ==
    ASSUME LedgerTypeOK, [LedgerNext]_ledgerVars
    PROVE  /\ \A k \in Keys : reserveSequence[k] <= reserveSequence'[k]
           /\ \A id \in Ids : sequenceOf[id] <= sequenceOf'[id]
<1>1. ASSUME NEW candidates, NEW k \in Keys, NEW d \in Ids, ReserveScript(candidates, k, d)
      PROVE  /\ \A j \in Keys : reserveSequence[j] <= reserveSequence'[j]
             /\ \A id \in Ids : sequenceOf[id] <= sequenceOf'[id]
  BY <1>1 DEF ReserveScript, LedgerTypeOK
<1>2. CASE UNCHANGED <<reserveSequence, sequenceOf>>
  BY <1>2 DEF LedgerTypeOK
<1> QED
  BY <1>1, <1>2 DEF LedgerNext, ledgerVars, SettleScript, ActualUsageScript, Expire,
                    ReconcileScript, CooldownEnds

\* A settlement is one the ledger allows.
LEMMA SettlesInLedger ==
    ASSUME GatewayInv, NEW r \in Requests, request[r].pc = "answered", request[r].id # Local
    PROVE  request[r].key \in Keys /\ request[r].id \in Ids
BY RequestShape DEF GatewayInv, TypeOK

\* Recording an answer leaves the ledger alone, or settles the reservation.
LEMMA RecordInLedger ==
    ASSUME GatewayInv, NEW r \in Requests, Record(r)
    PROVE  [LedgerNext]_ledgerVars
<1>1. request[r].pc = "answered"
  BY DEF Record, RecordPaymentRequired, RecordRateLimited, RecordUnauthorized, RecordUsage,
         RecordNothing, Answered
<1>2. ASSUME NEW action \in Actions, Settled(r, action) PROVE [LedgerNext]_ledgerVars
  BY <1>1, <1>2, SettlesInLedger DEF Settled, LedgerNext
<1>3. CASE RecordUsage(r)
  <2>1. request[r].used \in Usages
    BY <1>1, <1>3, RequestShape DEF RecordUsage, GatewayInv, TypeOK
  <2> QED
    BY <1>1, <1>3, <2>1, SettlesInLedger DEF RecordUsage, LedgerNext
<1>4. CASE RecordNothing(r)
  BY <1>4 DEF RecordNothing
<1> QED
  BY <1>2, <1>3, <1>4
     DEF Record, RecordPaymentRequired, RecordRateLimited, RecordUnauthorized, Actions

\* A refresh reconciles with a snapshot and a sequence the ledger allows.
LEMMA ReconcileInLedger ==
    ASSUME GatewayInv, NEW i \in Instances, NEW k \in Keys, Reconcile(i, k)
    PROVE  LedgerNext
<1> DEFINE f == refresh[<<i, k>>]
<1>1. /\ f.pc = "fetched" /\ f.sequence # NotCaptured
      /\ ReconcileScript(k, f.snapshot, f.sequence)
  BY DEF Reconcile
<1>2. f \in RefreshStates
  BY DEF GatewayInv, TypeOK
<1>3. f.sequence \in Nat /\ f.snapshot \in Snapshots
  BY <1>1, <1>2, RefreshShape, AllowanceAssumption
<1>4. f.sequence <= reserveSequence[k]
  BY <1>1 DEF GatewayInv, RefreshesOK
<1> HIDE DEF f
<1>5. f.sequence \in 0..reserveSequence[k]
  BY <1>3, <1>4 DEF GatewayInv, TypeOK, LedgerTypeOK
<1> QED
  BY <1>1, <1>3, <1>5 DEF LedgerNext

\* Every step of the gateway is a step of the ledger or leaves it alone.
LEMMA StepInLedger == GatewayInv /\ [Next]_vars => [LedgerNext]_ledgerVars
<1> SUFFICES ASSUME GatewayInv, [Next]_vars PROVE [LedgerNext]_ledgerVars
  OBVIOUS
<1>1. ASSUME NEW r \in Requests, NEW i \in Instances,
             ReserveInRedis(r, i) \/ ReserveOrphaned(r, i) \/ ReserveLocally(r, i)
      PROVE  [LedgerNext]_ledgerVars
  BY <1>1 DEF ReserveInRedis, ReserveOrphaned, ReserveLocally, CandidateSets, LedgerNext
<1>2. ASSUME NEW r \in Requests, CloudServes(r) \/ CloudRefuses(r)
      PROVE  [LedgerNext]_ledgerVars
  BY <1>2 DEF CloudServes, CloudRefuses
<1>3. ASSUME NEW i \in Instances, NEW k \in Keys,
             \/ Capture(i, k) \/ CaptureFails(i, k) \/ Fetch(i, k) \/ FetchFails(i, k)
             \/ ReconcileLost(i, k) \/ LocalCooldownEnds(i, k)
      PROVE  [LedgerNext]_ledgerVars
  BY <1>3 DEF Capture, CaptureFails, Fetch, FetchFails, ReconcileLost, LocalCooldownEnds
<1>4. ASSUME NEW i \in Instances, RedisRetried(i) \/ Restart(i)
      PROVE  [LedgerNext]_ledgerVars
  BY <1>4 DEF RedisRetried, Restart
<1>5. ASSUME NEW k \in Keys, CloudRenews(k) \/ PoolCooldownEnds(k)
      PROVE  [LedgerNext]_ledgerVars
  BY <1>5 DEF CloudRenews, PoolCooldownEnds, LedgerNext
<1>6. ASSUME NEW k \in Keys, NEW id \in Ids, ReservationExpires(k, id)
      PROVE  [LedgerNext]_ledgerVars
  BY <1>6 DEF ReservationExpires, LedgerNext
<1>7. CASE UNCHANGED vars
  BY <1>7 DEF vars
<1> QED
  BY <1>1, <1>2, <1>3, <1>4, <1>5, <1>6, <1>7, RecordInLedger, ReconcileInLedger DEF Next

-----------------------------------------------------------------------------
\* The gateway's own state.

\* What every step does to the sequences and to the numbers of the UUIDs.
LEMMA StepGrows ==
    ASSUME GatewayInv, [Next]_vars
    PROVE  /\ LedgerInv'
           /\ reserveSequence \in [Keys -> Nat] /\ reserveSequence' \in [Keys -> Nat]
           /\ \A k \in Keys : reserveSequence[k] <= reserveSequence'[k]
           /\ sequenceOf \in [Ids -> Nat] /\ sequenceOf' \in [Ids -> Nat]
           /\ \A id \in Ids : sequenceOf[id] <= sequenceOf'[id]
<1>1. [LedgerNext]_ledgerVars
  BY StepInLedger
<1>2. LedgerInv'
  BY <1>1, LedgerNextInv DEF GatewayInv
<1>3. /\ \A k \in Keys : reserveSequence[k] <= reserveSequence'[k]
      /\ \A id \in Ids : sequenceOf[id] <= sequenceOf'[id]
  BY <1>1, SequencesGrow DEF GatewayInv, LedgerInv
<1> QED
  BY <1>2, <1>3 DEF GatewayInv, LedgerInv, LedgerTypeOK

\* Requests that go on or end need no more than their types.
LEMMA RequestsGoOn ==
    ASSUME GatewayInv, [Next]_vars, request' \in [Requests -> RequestStates],
           \A r \in Requests : request'[r].pc # "idle" =>
               request[r].pc # "idle" /\ request'[r].id = request[r].id
    PROVE  RequestsOK(request', sequenceOf')
BY StepGrows, RequestsKept DEF GatewayInv

\* So do refreshes.
LEMMA RefreshesGoOn ==
    ASSUME GatewayInv, [Next]_vars, refresh' \in [Instances \X Keys -> RefreshStates],
           \A p \in Instances \X Keys : refresh'[p].pc # "idle" =>
               \/ refresh[p].pc # "idle" /\ refresh'[p].sequence = refresh[p].sequence
               \/ refresh'[p].sequence \in {NotCaptured, reserveSequence[p[2]]}
    PROVE  RefreshesOK(refresh', reserveSequence')
BY StepGrows, RefreshesKept DEF GatewayInv

\* Requests that a step leaves alone.
LEMMA RequestsSame ==
    ASSUME GatewayInv, [Next]_vars, UNCHANGED request
    PROVE  RequestsOK(request', sequenceOf')
BY RequestsGoOn DEF GatewayInv, TypeOK

\* And refreshes.
LEMMA RefreshesSame ==
    ASSUME GatewayInv, [Next]_vars, UNCHANGED refresh
    PROVE  RefreshesOK(refresh', reserveSequence')
BY RefreshesGoOn DEF GatewayInv, TypeOK

\* What is left to show of a step.
LEMMA StepInv ==
    ASSUME GatewayInv, [Next]_vars,
           remaining' \in [Keys -> 0..Allowance],
           RequestsOK(request', sequenceOf'), RefreshesOK(refresh', reserveSequence'),
           localDisabled' \subseteq Instances \X Keys,
           localCooling' \subseteq Instances \X Keys,
           redisDown' \subseteq Instances
    PROVE  GatewayInv'
BY StepGrows DEF GatewayInv, TypeOK, LedgerInv, RequestsOK, RefreshesOK

\* A request is sent with a reservation of its own, or with none.
LEMMA ReserveInvGateway ==
    ASSUME GatewayInv, Next, NEW r \in Requests, NEW i \in Instances,
           ReserveInRedis(r, i) \/ ReserveOrphaned(r, i) \/ ReserveLocally(r, i)
    PROVE  GatewayInv'
<1>1. PICK k \in Keys, d \in Ids \cup {Local} :
         /\ request' = [request EXCEPT ![r] = SentRequest(i, k, d)]
         /\ d # Local => sequenceOf[d] = 0 /\ sequenceOf'[d] > 0
  <2>1. CASE ReserveInRedis(r, i)
    <3>1. PICK C \in CandidateSets(i) : \E k \in C : \E d \in Ids :
             ReserveScript(C, k, d) /\ request' = [request EXCEPT ![r] = SentRequest(i, k, d)]
      BY <2>1 DEF ReserveInRedis
    <3>2. PICK k \in C, d \in Ids :
             ReserveScript(C, k, d) /\ request' = [request EXCEPT ![r] = SentRequest(i, k, d)]
      BY <3>1
    <3>3. k \in Keys
      BY DEF CandidateSets
    <3>4. sequenceOf[d] = 0 /\ sequenceOf'[d] = reserveSequence[k] + 1 /\ reserveSequence[k] \in Nat
      BY <3>2, <3>3 DEF ReserveScript, GatewayInv, TypeOK, LedgerTypeOK
    <3>5. d # Local => sequenceOf[d] = 0 /\ sequenceOf'[d] > 0
      BY <3>4
    <3>6. d \in Ids \cup {Local} /\ request' = [request EXCEPT ![r] = SentRequest(i, k, d)]
      BY <3>2
    <3> QED
      BY <3>3, <3>5, <3>6, Zenon
  <2>2. CASE ReserveOrphaned(r, i) \/ ReserveLocally(r, i)
    <3>1. PICK C \in CandidateSets(i) : \E k \in C :
             request' = [request EXCEPT ![r] = SentRequest(i, k, Local)]
      <4>1. CASE ReserveOrphaned(r, i)
        BY <4>1, Zenon DEF ReserveOrphaned
      <4>2. CASE ReserveLocally(r, i)
        BY <4>2, Zenon DEF ReserveLocally
      <4> QED
        BY <2>2, <4>1, <4>2
    <3>2. PICK k \in Keys : request' = [request EXCEPT ![r] = SentRequest(i, k, Local)]
      BY <3>1 DEF CandidateSets
    <3> QED
      BY <3>2
  <2> QED
    BY <2>1, <2>2
<1>2. request[r].pc = "idle" /\ UNCHANGED <<remaining, refresh, localDisabled, localCooling>>
      /\ redisDown' \in {redisDown, redisDown \cup {i}}
  BY DEF ReserveInRedis, ReserveOrphaned, ReserveLocally
<1>3. RequestsOK(request', sequenceOf')
  BY <1>1, <1>2, StepGrows, RequestAdded DEF GatewayInv
<1> QED
  BY <1>2, <1>3, RefreshesSame, StepInv DEF GatewayInv, TypeOK

\* Cloud answers a request.
LEMMA AnswerInv ==
    ASSUME GatewayInv, Next, NEW r \in Requests, CloudServes(r) \/ CloudRefuses(r)
    PROVE  GatewayInv'
<1>1. request[r].pc = "sent" /\ request[r] \in RequestStates
  BY DEF CloudServes, CloudRefuses, GatewayInv, TypeOK
<1>2. PICK status \in Statuses, used \in Usages \cup {Unreported} : Answer(r, status, used)
  BY DEF CloudServes, CloudRefuses, Statuses
<1>3. remaining' \in [Keys -> 0..Allowance]
  <2>1. CASE CloudServes(r)
    <3>1. PICK taken \in Usages :
             /\ remaining[request[r].key] >= taken
             /\ remaining' = [remaining EXCEPT ![request[r].key] = @ - taken]
      BY <2>1 DEF CloudServes
    <3>2. taken \in Nat /\ request[r].key \in Keys
      BY <1>1, UsagesAssumption, RequestShape
    <3> QED
      BY <3>1, <3>2, AllowanceAssumption DEF GatewayInv, TypeOK
  <2>2. CASE CloudRefuses(r)
    BY <2>2 DEF CloudRefuses, GatewayInv, TypeOK
  <2> QED
    BY <2>1, <2>2
<1>4. UNCHANGED <<refresh, localDisabled, localCooling, redisDown>>
  BY DEF CloudServes, CloudRefuses
<1> DEFINE q == AnsweredRequest(request[r], status, used)
<1>5. q \in RequestStates /\ q.id = request[r].id
  BY <1>1, AnsweredShape
<1>6. request' = [request EXCEPT ![r] = q]
  BY <1>2 DEF Answer
<1> HIDE DEF q
<1>7. RequestsOK(request', sequenceOf')
  <2>1. request' \in [Requests -> RequestStates]
    BY <1>5, <1>6 DEF GatewayInv, TypeOK
  <2>2. \A p \in Requests : request'[p].pc # "idle" =>
           request[p].pc # "idle" /\ request'[p].id = request[p].id
    BY <1>1, <1>5, <1>6 DEF GatewayInv, TypeOK
  <2> QED
    BY <2>1, <2>2, RequestsGoOn
<1> QED
  BY <1>3, <1>4, <1>7, RefreshesSame, StepInv DEF GatewayInv, TypeOK

\* An answer is recorded, and the request is over.
LEMMA RecordInv == ASSUME GatewayInv, Next, NEW r \in Requests, Record(r) PROVE GatewayInv'
<1>1. request[r].pc = "answered" /\ Finish(r)
  BY DEF Record, RecordPaymentRequired, RecordRateLimited, RecordUnauthorized, RecordUsage,
         RecordNothing, Answered
<1>2. Site(r) \in Instances \X Keys
  BY <1>1, RequestShape DEF Site, GatewayInv, TypeOK
<1>3. /\ localDisabled' \subseteq Instances \X Keys
      /\ localCooling' \subseteq Instances \X Keys
  BY <1>2 DEF Record, RecordPaymentRequired, RecordRateLimited, RecordUnauthorized, RecordUsage,
              RecordNothing, GatewayInv, TypeOK
<1>4. RequestsOK(request', sequenceOf')
  <2>1. request' \in [Requests -> RequestStates]
    BY <1>1, IdleShape DEF Finish, GatewayInv, TypeOK
  <2>2. \A p \in Requests : request'[p] = request[p] \/ request'[p] = IdleRequest
    BY <1>1 DEF Finish, GatewayInv, TypeOK
  <2> QED
    BY <2>1, <2>2, IdleShape, RequestsGoOn
<1> QED
  BY <1>1, <1>3, <1>4, RefreshesSame, StepInv DEF Finish, GatewayInv, TypeOK

\* A refresh goes on or ends.
LEMMA RefreshInv ==
    ASSUME GatewayInv, Next, NEW i \in Instances, NEW k \in Keys,
           \/ Capture(i, k) \/ CaptureFails(i, k) \/ Fetch(i, k) \/ FetchFails(i, k)
           \/ Reconcile(i, k) \/ ReconcileLost(i, k)
    PROVE  GatewayInv'
<1> DEFINE p == <<i, k>>
<1>1. /\ UNCHANGED <<remaining, request, localCooling, redisDown>>
      /\ localDisabled' \in {localDisabled, localDisabled \ {p}, localDisabled \cup {p}}
  BY DEF Capture, CaptureFails, Fetch, FetchFails, Reconcile, ReconcileLost, EndRefresh
<1>2. p \in Instances \X Keys /\ p[2] = k
  OBVIOUS
<1>3. PICK f \in RefreshStates :
         /\ refresh' = [refresh EXCEPT ![p] = f]
         /\ f.pc # "idle" =>
               \/ refresh[p].pc # "idle" /\ f.sequence = refresh[p].sequence
               \/ f.sequence \in {NotCaptured, reserveSequence[k]}
  <2>1. CASE Capture(i, k) \/ CaptureFails(i, k)
    <3>1. PICK n \in {NotCaptured, reserveSequence[k]} :
             refresh' = [refresh EXCEPT ![p] = [pc |-> "captured", sequence |-> n]]
      BY <2>1 DEF Capture, CaptureFails
    <3>2. n \in Nat \cup {NotCaptured}
      BY DEF GatewayInv, TypeOK, LedgerTypeOK
    <3>3. [pc |-> "captured", sequence |-> n] \in RefreshStates
      BY <3>2 DEF RefreshStates
    <3> QED
      BY <3>1, <3>3
  <2>2. CASE Fetch(i, k)
    <3> DEFINE f == [pc |-> "fetched", sequence |-> refresh[p].sequence,
                     snapshot |-> remaining[k]]
    <3>1. refresh[p].pc = "captured" /\ refresh' = [refresh EXCEPT ![p] = f]
      BY <2>2 DEF Fetch
    <3>2. refresh[p].sequence \in Nat \cup {NotCaptured} /\ remaining[k] \in 0..Allowance
      BY <1>2, <3>1, RefreshShape DEF GatewayInv, TypeOK
    <3>3. f \in RefreshStates /\ f.sequence = refresh[p].sequence
      BY <3>2 DEF RefreshStates
    <3> HIDE DEF f
    <3> QED
      BY <3>1, <3>3
  <2>3. CASE FetchFails(i, k) \/ Reconcile(i, k) \/ ReconcileLost(i, k)
    <3>1. refresh' = [refresh EXCEPT ![p] = IdleRefresh]
      BY <2>3 DEF FetchFails, Reconcile, ReconcileLost, EndRefresh
    <3> QED
      BY <3>1, IdleRefreshShape
  <2> QED
    BY <2>1, <2>2, <2>3
<1> HIDE DEF p
<1>4. RefreshesOK(refresh', reserveSequence')
  <2>1. refresh' \in [Instances \X Keys -> RefreshStates]
    BY <1>2, <1>3 DEF GatewayInv, TypeOK
  <2>2. refresh'[p] = f /\ \A q \in (Instances \X Keys) \ {p} : refresh'[q] = refresh[q]
    BY <1>2, <1>3 DEF GatewayInv, TypeOK
  <2>3. \A q \in Instances \X Keys : refresh'[q].pc # "idle" =>
           \/ refresh[q].pc # "idle" /\ refresh'[q].sequence = refresh[q].sequence
           \/ refresh'[q].sequence \in {NotCaptured, reserveSequence[q[2]]}
    BY <1>2, <1>3, <2>2
  <2> QED
    BY <2>1, <2>3, RefreshesGoOn
<1> QED
  BY <1>1, <1>2, <1>4, RequestsSame, StepInv DEF GatewayInv, TypeOK

\* An instance restarts: what it held is nobody's.
LEMMA RestartInv == ASSUME GatewayInv, Next, NEW i \in Instances, Restart(i) PROVE GatewayInv'
<1>1. /\ request' \in [Requests -> RequestStates]
      /\ \A r \in Requests : request'[r] = request[r] \/ request'[r] = IdleRequest
  BY IdleShape DEF Restart, GatewayInv, TypeOK
<1>2. /\ refresh' \in [Instances \X Keys -> RefreshStates]
      /\ \A p \in Instances \X Keys : refresh'[p] = refresh[p] \/ refresh'[p] = IdleRefresh
  BY IdleRefreshShape DEF Restart, GatewayInv, TypeOK
<1>3. RequestsOK(request', sequenceOf') /\ RefreshesOK(refresh', reserveSequence')
  BY <1>1, <1>2, IdleShape, IdleRefreshShape, RequestsGoOn, RefreshesGoOn
<1> QED
  BY <1>3, StepInv DEF Restart, GatewayInv, TypeOK

\* Steps that touch neither a request nor a refresh.
LEMMA OtherInv ==
    ASSUME GatewayInv, [Next]_vars, UNCHANGED <<request, refresh>>,
           remaining' \in [Keys -> 0..Allowance],
           localCooling' \subseteq localCooling, redisDown' \subseteq redisDown,
           UNCHANGED localDisabled
    PROVE  GatewayInv'
BY RequestsSame, RefreshesSame, StepInv DEF GatewayInv, TypeOK

\* Nothing is reserved or captured when the gateway starts.
LEMMA GatewayInitInv == Init => GatewayInv
<1> SUFFICES ASSUME Init PROVE GatewayInv
  OBVIOUS
<1>1. LedgerInv
  BY LedgerInitInv DEF Init
<1>2. /\ request \in [Requests -> RequestStates]
      /\ \A r \in Requests : request[r].pc = "idle"
  BY IdleShape DEF Init
<1>3. /\ refresh \in [Instances \X Keys -> RefreshStates]
      /\ \A p \in Instances \X Keys : refresh[p].pc = "idle"
  BY IdleRefreshShape DEF Init
<1>4. TypeOK
  BY <1>1, <1>2, <1>3, AllowanceAssumption DEF Init, TypeOK, LedgerInv
<1> QED
  BY <1>1, <1>2, <1>3, <1>4 DEF GatewayInv, RequestsOK, RefreshesOK

\* Every step keeps the invariant.
LEMMA GatewayNextInv == GatewayInv /\ [Next]_vars => GatewayInv'
<1> SUFFICES ASSUME GatewayInv, [Next]_vars PROVE GatewayInv'
  OBVIOUS
<1>1. ASSUME NEW i \in Instances, Next, RedisRetried(i) PROVE GatewayInv'
  BY <1>1, OtherInv DEF RedisRetried, GatewayInv, TypeOK
<1>2. ASSUME NEW i \in Instances, NEW k \in Keys, Next, LocalCooldownEnds(i, k)
      PROVE  GatewayInv'
  BY <1>2, OtherInv DEF LocalCooldownEnds, GatewayInv, TypeOK
<1>3. ASSUME NEW k \in Keys, Next, CloudRenews(k) PROVE GatewayInv'
  <2>1. remaining' \in [Keys -> 0..Allowance]
    BY <1>3, AllowanceAssumption DEF CloudRenews, GatewayInv, TypeOK
  <2> QED
    BY <1>3, <2>1, OtherInv DEF CloudRenews
<1>4. ASSUME NEW k \in Keys, Next,
             PoolCooldownEnds(k) \/ \E id \in Ids : ReservationExpires(k, id)
      PROVE  GatewayInv'
  BY <1>4, OtherInv
     DEF PoolCooldownEnds, ReservationExpires, gatewayVars, GatewayInv, TypeOK
<1>5. CASE UNCHANGED vars
  BY <1>5, OtherInv DEF vars, gatewayVars, GatewayInv, TypeOK
<1> QED
  BY <1>1, <1>2, <1>3, <1>4, <1>5, ReserveInvGateway, AnswerInv, RecordInv, RefreshInv, RestartInv
     DEF Next

-----------------------------------------------------------------------------
\* The theorems.

\* No request holds a UUID that another one holds or that is yet to be drawn, in
\* every state the gateway reaches.
THEOREM GatewayInvariant == Spec => []GatewayInv
<1>1. Init => GatewayInv
  BY GatewayInitInv
<1>2. GatewayInv /\ [Next]_vars => GatewayInv'
  BY GatewayNextInv
<1> QED
  BY <1>1, <1>2, PTL DEF Spec

\* The variables of the gateway keep their types.
THEOREM GatewayTypeCorrect == Spec => []TypeOK
<1>1. GatewayInv => TypeOK
  BY DEF GatewayInv
<1> QED
  BY <1>1, GatewayInvariant, PTL

\* The gateway implements the ledger: each of its steps runs one script, with a
\* reservation it holds, a usage Cloud reported or a snapshot it read, or none.
THEOREM GatewayUsesLedger == Spec => LedgerSpec
<1>1. Init => LedgerInit
  BY DEF Init
<1>2. GatewayInv /\ [Next]_vars => [LedgerNext]_ledgerVars
  BY StepInLedger
<1> QED
  BY <1>1, <1>2, GatewayInvariant, PTL DEF Spec, LedgerSpec

\* A reservation that is closed was open, and is closed by a script about its key.
LEMMA ClosedBy ==
    ASSUME GatewayInv, Next, NEW k \in Keys, NEW id \in open[k] \ open'[k],
           NEW r \in Requests, Holds(r, k, id)
    PROVE  \/ request'[r].pc = "idle"
           \/ \E i \in Instances : /\ refresh[<<i, k>>].pc = "fetched"
                                   /\ refresh'[<<i, k>>].pc = "idle"
                                   /\ refresh[<<i, k>>].sequence >= sequenceOf[id]
<1>1. /\ open \in [Keys -> SUBSET Ids] /\ id \in Ids /\ sequenceOf[id] \in Nat
      /\ request[r].pc # "idle" /\ request[r].key = k /\ request[r].id = id /\ id # Local
      /\ id \in tracked[k]
  BY LocalAssumption DEF Holds, GatewayInv, LedgerInv, LedgerTypeOK, OpenIsTracked
<1>2. ASSUME NEW q \in Requests, request[q].pc = "answered", NEW action,
             SettleScript(request[q].key, request[q].id, action)
                \/ ActualUsageScript(request[q].key, request[q].id, action)
      PROVE  q = r
  <2>1. open' = open \/ open' = [open EXCEPT ![request[q].key] = @ \ {request[q].id}]
    BY <1>2 DEF SettleScript, ActualUsageScript, CloseReservation
  <2>2. request[q].key = k /\ request[q].id = id
    BY <1>1, <2>1
  <2> QED
    BY <1>1, <1>2, <2>2 DEF GatewayInv, RequestsOK
<1>3. ASSUME NEW q \in Requests, Record(q) PROVE request'[r].pc = "idle"
  <2>1. request[q].pc = "answered" /\ Finish(q)
    BY <1>3 DEF Record, RecordPaymentRequired, RecordRateLimited, RecordUnauthorized,
                RecordUsage, RecordNothing, Answered
  <2>2. q = r
    <3>1. open' # open
      OBVIOUS
    <3>2. \/ \E action : Settled(q, action)
          \/ ActualUsageScript(request[q].key, request[q].id, request[q].used)
          \/ UNCHANGED ledgerVars
      BY <1>3 DEF Record, RecordPaymentRequired, RecordRateLimited, RecordUnauthorized,
                  RecordUsage, RecordNothing
    <3> QED
      BY <1>2, <2>1, <3>1, <3>2 DEF Settled, ledgerVars
  <2> QED
    BY <2>1, <2>2, IdleShape DEF Finish, GatewayInv, TypeOK
<1>4. ASSUME NEW i \in Instances, NEW j \in Keys, Reconcile(i, j)
      PROVE  /\ refresh[<<i, k>>].pc = "fetched" /\ refresh'[<<i, k>>].pc = "idle"
             /\ refresh[<<i, k>>].sequence >= sequenceOf[id]
  <2> DEFINE n == refresh[<<i, j>>].sequence
  <2>1. /\ refresh[<<i, j>>].pc = "fetched" /\ n # NotCaptured
        /\ open' = [open EXCEPT ![j] = @ \ (tracked[j] \ Pending(j, n))]
        /\ refresh' = [refresh EXCEPT ![<<i, j>>] = IdleRefresh]
    BY <1>4 DEF Reconcile, ReconcileScript, EndRefresh
  <2>2. j = k
    BY <1>1, <2>1
  <2>3. id \notin Pending(k, n)
    BY <1>1, <2>1, <2>2
  <2>4. n \in Nat
    BY <2>1, RefreshShape DEF GatewayInv, TypeOK
  <2>5. n >= sequenceOf[id]
    BY <1>1, <2>3, <2>4 DEF Pending
  <2>6. refresh'[<<i, k>>].pc = "idle"
    BY <2>1, <2>2, IdleRefreshShape DEF GatewayInv, TypeOK
  <2> QED
    BY <2>1, <2>2, <2>5, <2>6
<1>5. ASSUME NEW q \in Requests, NEW i \in Instances,
             ReserveInRedis(q, i) \/ ReserveOrphaned(q, i) \/ ReserveLocally(q, i)
      PROVE  FALSE
  <2>1. \/ open' = open
        \/ \E j \in Keys : \E d \in Ids : open' = [open EXCEPT ![j] = @ \cup {d}]
    BY <1>5 DEF ReserveInRedis, ReserveOrphaned, ReserveLocally, ReserveScript, CandidateSets,
                ledgerVars
  <2> QED
    BY <1>1, <2>1
<1>6. ASSUME NEW j \in Keys, NEW d \in Ids, ReservationExpires(j, d) PROVE FALSE
  <2>1. open' = [open EXCEPT ![j] = @ \ {d}]
    BY <1>6 DEF ReservationExpires, Expire
  <2>2. j = k /\ d = id
    BY <1>1, <2>1
  <2> QED
    BY <1>1, <1>6, <2>2 DEF ReservationExpires
<1>7. open' # open
  OBVIOUS
<1> QED
  BY <1>3, <1>4, <1>5, <1>6, <1>7
     DEF Next, CloudServes, CloudRefuses, RedisRetried, Restart, Capture, CaptureFails, Fetch,
         FetchFails, ReconcileLost, LocalCooldownEnds, CloudRenews, PoolCooldownEnds,
         CooldownEnds, ledgerVars

\* The reservation of a request in flight is closed only by that request, or by a
\* refresh that captured the sequence after it was made.
THEOREM HeldUntilSettled == Spec => ReservationHeld
<1>1. GatewayInv /\ [Next]_vars =>
        [\A r \in Requests, k \in Keys : \A id \in open[k] \ open'[k] :
            Holds(r, k, id) =>
               \/ request'[r].pc = "idle"
               \/ \E i \in Instances : /\ refresh[<<i, k>>].pc = "fetched"
                                       /\ refresh'[<<i, k>>].pc = "idle"
                                       /\ refresh[<<i, k>>].sequence >= sequenceOf[id]]_vars
  BY ClosedBy
<1> QED
  BY <1>1, GatewayInvariant, PTL DEF Spec, ReservationHeld

\* What is proved of the ledger holds in the gateway: the reserved counters are
\* exact and no credit is created.
THEOREM GatewayConserves == Spec => [](ReservedIsTracked /\ NoCreditCreated)
BY GatewayUsesLedger, ReservedCounterExact, CreditsConserved, PTL

-----------------------------------------------------------------------------
\* The scanner of the answers.

\* The open objects, and the open arrays.
Objects(st) == {i \in DOMAIN st : st[i].kind = "{"}
Arrays(st) == {i \in DOMAIN st : st[i].kind = "["}
\* The writer is in the metadata of the outermost object.
InMetadata ==
    /\ Len(stack) >= 2
    /\ stack[1] = [kind |-> "{", key |-> "metadata"]
    /\ stack[2].kind = "{"
InObject == stack # <<>> /\ Top.kind = "{"

\* The states a scanner can be in.
Scanners ==
    [state : {"outside", "after-key", "after-colon", "digits", "after-digits"},
     pendingKey : Strings \cup {""}, value : Nat, overflow : BOOLEAN,
     found : Nat \cup {None}, objectDepth : Nat, arrayDepth : Nat,
     metadata : {<<>>, <<2, 0>>}]
ScanTypeOK ==
    /\ stack \in Seq(Frame)
    /\ at \in {"value", "field", "element", "key", "colon", "number", "scalar", "after"}
    /\ number \in Nat \cup {None}
    /\ reported \in Nat \cup {None}
    /\ scan \in Scanners

\* What the writer has to write next fits in what is open.
Grammar ==
    /\ at \in {"field", "key", "colon"} => InObject
    /\ at = "element" => stack # <<>> /\ Top.kind = "["
    /\ at = "number" => number # None
    /\ number # None => at \in {"number", "after"}

\* The scanner counts the open containers, and marks metadata while it is open.
DepthsAgree ==
    /\ scan.objectDepth = Cardinality(Objects(stack))
    /\ scan.arrayDepth = Cardinality(Arrays(stack))
    /\ scan.metadata = IF InMetadata THEN <<2, 0>> ELSE <<>>

\* Over the value that is meant, the scanner holds its digits so far.
Reads ==
    /\ scan.state = IF at = "number" THEN "digits" ELSE "after-digits"
    /\ scan.overflow <=> number > MaxSafe
    /\ number <= MaxSafe => scan.value = number

\* The scanner's state, by what the writer is about: a key is pending exactly
\* after a key, and digits are read exactly where they are meant.
StatesAgree ==
    /\ at \in {"field", "element", "key", "scalar"} => scan.state = "outside"
    /\ at = "colon" => scan.state = "after-key" /\ scan.pendingKey = Top.key
    /\ at = "value" /\ InObject => scan.state = "after-colon" /\ scan.pendingKey = Top.key
    /\ at = "value" /\ ~InObject => scan.state = "outside"
    /\ number # None /\ Meant => Reads
    /\ at = "number" /\ ~Meant => scan.state = "outside"
    /\ at = "after" /\ ~(number # None /\ Meant) => scan.state \in {"outside", "after-key"}

\* While the answer is searched, both sides agree on where they are.
Agrees == DepthsAgree /\ StatesAgree

\* The inductive invariant. Once something is found the scanner stops, and its depths
\* with it: from then on only what was found agrees.
ScanInv ==
    /\ ScanTypeOK
    /\ Grammar
    /\ scan.found = reported
    /\ reported = None => Agrees

-----------------------------------------------------------------------------
\* Tokens.

\* The ten digits are distinct tokens, so that a digit has the value it shows.
LEMMA Numerals10 ==
    ASSUME NEW n \in 0..9
    PROVE  /\ Numeral(n) \in {"0", "1", "2", "3", "4", "5", "6", "7", "8", "9"}
           /\ Digit(Numeral(n)) /\ Value(Numeral(n)) = n
<1>1. \A i, j \in 0..9 : Numeral(i) = Numeral(j) => i = j
  BY DEF Numeral
<1>2. Numeral(n) \in {"0", "1", "2", "3", "4", "5", "6", "7", "8", "9"}
  BY DEF Numeral
<1>3. Digit(Numeral(n))
  BY DEF Digit
<1>4. Value(Numeral(n)) = n
  BY <1>1 DEF Value
<1> QED
  BY <1>2, <1>3, <1>4

\* No other token is a digit.
LEMMA NoDigits ==
    \A t \in Strings \cup Delimiters \cup Containers \cup {" ", ":", "x"} : ~Digit(t)
<1>1. \A n \in 0..9 : Numeral(n) \in {"0", "1", "2", "3", "4", "5", "6", "7", "8", "9"}
  BY Numerals10
<1> QED
  BY <1>1 DEF Digit, Strings, Delimiters, Containers

-----------------------------------------------------------------------------
\* Depths: how many of the open containers are objects, and how many arrays.

\* Each open container is an object or an array.
LEMMA DepthType ==
    ASSUME NEW st \in Seq(Frame)
    PROVE  /\ IsFiniteSet(Objects(st)) /\ Cardinality(Objects(st)) \in Nat
           /\ IsFiniteSet(Arrays(st)) /\ Cardinality(Arrays(st)) \in Nat
           /\ Cardinality(Objects(st)) + Cardinality(Arrays(st)) = Len(st)
<1>1. DOMAIN st = 1..Len(st) /\ Len(st) \in Nat /\ \A i \in 1..Len(st) : st[i] \in Frame
  BY ElementOfSeq, LenProperties
<1>2. IsFiniteSet(1..Len(st)) /\ Cardinality(1..Len(st)) = Len(st)
  <2>1. 1 \in Int /\ Len(st) \in Int
    BY <1>1
  <2>2. /\ IsFiniteSet(1..Len(st))
        /\ Cardinality(1..Len(st)) = IF 1 > Len(st) THEN 0 ELSE Len(st) - 1 + 1
    BY <2>1, FS_Interval, Zenon
  <2> QED
    BY <1>1, <2>2
<1>3. Objects(st) \cup Arrays(st) = 1..Len(st) /\ Objects(st) \cap Arrays(st) = {}
  BY <1>1 DEF Objects, Arrays, Frame, Containers
<1>4. IsFiniteSet(Objects(st)) /\ IsFiniteSet(Arrays(st))
  BY <1>2, <1>3, FS_Subset
<1>5. Cardinality(Objects(st)) \in Nat /\ Cardinality(Arrays(st)) \in Nat
  BY <1>4, FS_CardinalityType
<1>6. Cardinality(Objects(st) \cup Arrays(st))
      = Cardinality(Objects(st)) + Cardinality(Arrays(st))
        - Cardinality(Objects(st) \cap Arrays(st))
  BY <1>4, FS_Union
<1>7. Cardinality(Objects(st) \cap Arrays(st)) = 0
  BY <1>3, FS_EmptySet
<1>8. Cardinality(Objects(st)) + Cardinality(Arrays(st)) = Len(st)
  <2> DEFINE o == Cardinality(Objects(st))
             a == Cardinality(Arrays(st))
  <2>1. Len(st) = o + a - 0
    BY <1>2, <1>3, <1>6, <1>7
  <2>2. o \in Nat /\ a \in Nat
    BY <1>5
  <2> HIDE DEF o, a
  <2>3. o + a = Len(st)
    BY <2>1, <2>2
  <2> QED
    BY <2>3 DEF o, a
<1> QED
  BY <1>4, <1>5, <1>8

\* Opening a container adds one to the depth of its kind.
LEMMA DepthPushed ==
    ASSUME NEW st \in Seq(Frame), NEW f \in Frame
    PROVE  /\ Append(st, f) \in Seq(Frame)
           /\ Cardinality(Objects(Append(st, f)))
              = Cardinality(Objects(st)) + IF f.kind = "{" THEN 1 ELSE 0
           /\ Cardinality(Arrays(Append(st, f)))
              = Cardinality(Arrays(st)) + IF f.kind = "[" THEN 1 ELSE 0
<1> DEFINE new == Append(st, f)
           n == Len(st) + 1
<1>1. /\ new \in Seq(Frame) /\ Len(st) \in Nat /\ DOMAIN st = 1..Len(st)
      /\ DOMAIN new = 1..n /\ new[n] = f
      /\ \A i \in 1..Len(st) : new[i] = st[i]
  BY LenProperties, AppendProperties
<1>0. n \in Nat /\ 1..n = (1..Len(st)) \cup {n}
  BY <1>1
<1> HIDE DEF new, n
<1>2. Objects(new) = IF f.kind = "{" THEN Objects(st) \cup {n} ELSE Objects(st)
  BY <1>0, <1>1 DEF Objects
<1>3. Arrays(new) = IF f.kind = "[" THEN Arrays(st) \cup {n} ELSE Arrays(st)
  BY <1>0, <1>1 DEF Arrays
<1>4. n \notin Objects(st) /\ n \notin Arrays(st)
  <2>1. n \notin DOMAIN st
    BY <1>1 DEF n
  <2> QED
    BY <2>1 DEF Objects, Arrays
<1>5. Cardinality(Objects(st) \cup {n}) = Cardinality(Objects(st)) + 1
  BY <1>4, DepthType, FS_AddElement
<1>6. Cardinality(Arrays(st) \cup {n}) = Cardinality(Arrays(st)) + 1
  BY <1>4, DepthType, FS_AddElement
<1>7. Cardinality(Objects(st)) \in Nat /\ Cardinality(Arrays(st)) \in Nat
  BY DepthType
<1>8. Cardinality(Objects(new)) = Cardinality(Objects(st)) + IF f.kind = "{" THEN 1 ELSE 0
  <2>1. CASE f.kind = "{"
    BY <1>2, <1>5, <2>1
  <2>2. CASE f.kind # "{"
    <3> DEFINE c == Cardinality(Objects(st))
    <3>1. Cardinality(Objects(new)) = c /\ c \in Nat
      BY <1>2, <1>7, <2>2
    <3> HIDE DEF c
    <3>2. c + 0 = c
      BY <3>1
    <3> QED
      BY <2>2, <3>1, <3>2 DEF c
  <2> QED
    BY <2>1, <2>2
<1>9. Cardinality(Arrays(new)) = Cardinality(Arrays(st)) + IF f.kind = "[" THEN 1 ELSE 0
  <2>1. CASE f.kind = "["
    BY <1>3, <1>6, <2>1
  <2>2. CASE f.kind # "["
    <3> DEFINE c == Cardinality(Arrays(st))
    <3>1. Cardinality(Arrays(new)) = c /\ c \in Nat
      BY <1>3, <1>7, <2>2
    <3> HIDE DEF c
    <3>2. c + 0 = c
      BY <3>1
    <3> QED
      BY <2>2, <3>1, <3>2 DEF c
  <2> QED
    BY <2>1, <2>2
<1> QED
  BY <1>1, <1>8, <1>9 DEF new

\* What is left when the innermost container is closed.
LEMMA DepthPopped ==
    ASSUME NEW st \in Seq(Frame), st # <<>>,
           NEW rest, rest = SubSeq(st, 1, Len(st) - 1), NEW f, f = st[Len(st)]
    PROVE  /\ rest \in Seq(Frame) /\ f \in Frame /\ Len(rest) = Len(st) - 1
           /\ \A i \in 1..(Len(st) - 1) : rest[i] = st[i]
           /\ Append(rest, f) = st
<1>1. Len(st) \in Nat \ {0} /\ \A i \in 1..Len(st) : st[i] \in Frame
  BY EmptySeq, LenProperties, ElementOfSeq
<1>2. /\ rest \in Seq(Frame) /\ Len(rest) = Len(st) - 1
      /\ \A i \in 1..(Len(st) - 1) : rest[i] = st[i]
  <2> DEFINE n == Len(st) - 1
  <2>1. n \in Nat /\ (\A i \in 1..n : st[i] \in Frame) /\ rest = SubSeq(st, 1, n)
    BY <1>1
  <2> HIDE DEF n
  <2>2. /\ rest \in Seq(Frame) /\ Len(rest) = IF 1 <= n THEN n - 1 + 1 ELSE 0
        /\ \A i \in 1..(n - 1 + 1) : rest[i] = st[1 + i - 1]
    BY <2>1, SubSeqProperties
  <2>3. Len(rest) = n /\ \A i \in 1..n : rest[i] = st[i]
    BY <2>1, <2>2
  <2> QED
    BY <2>2, <2>3 DEF n
<1>3. f \in Frame
  BY <1>1
<1>4. Append(rest, f) = st
  <2>1. /\ Append(rest, f) \in Seq(Frame) /\ Len(Append(rest, f)) = Len(st)
        /\ \A i \in 1..Len(st) : Append(rest, f)[i] = st[i]
    BY <1>1, <1>2, <1>3, AppendProperties
  <2> QED
    BY <2>1, SeqEqual
<1> QED
  BY <1>2, <1>3, <1>4

\* Closing a container takes one from the depth of its kind.
LEMMA PoppedCounts ==
    ASSUME NEW st \in Seq(Frame), st # <<>>
    PROVE  /\ Cardinality(Objects(st)) = Cardinality(Objects(SubSeq(st, 1, Len(st) - 1)))
                                         + IF st[Len(st)].kind = "{" THEN 1 ELSE 0
           /\ Cardinality(Arrays(st)) = Cardinality(Arrays(SubSeq(st, 1, Len(st) - 1)))
                                        + IF st[Len(st)].kind = "[" THEN 1 ELSE 0
<1> DEFINE rest == SubSeq(st, 1, Len(st) - 1)
           f == st[Len(st)]
<1> HIDE DEF rest, f
<1>1. rest = SubSeq(st, 1, Len(st) - 1) /\ f = st[Len(st)]
  BY DEF rest, f
<1>2. rest \in Seq(Frame) /\ f \in Frame /\ Append(rest, f) = st
  BY <1>1, DepthPopped
<1>3. /\ Cardinality(Objects(st)) = Cardinality(Objects(rest)) + IF f.kind = "{" THEN 1 ELSE 0
      /\ Cardinality(Arrays(st)) = Cardinality(Arrays(rest)) + IF f.kind = "[" THEN 1 ELSE 0
  BY <1>2, DepthPushed
<1> QED
  BY <1>1, <1>3

\* Writing a key changes no depth.
LEMMA DepthKey ==
    ASSUME NEW st \in Seq(Frame), st # <<>>, NEW k \in Strings,
           NEW new, new = [st EXCEPT ![Len(st)].key = k]
    PROVE  /\ new \in Seq(Frame) /\ Len(new) = Len(st)
           /\ new[Len(st)] = [kind |-> st[Len(st)].kind, key |-> k]
           /\ \A i \in 1..(Len(st) - 1) : new[i] = st[i]
           /\ Objects(new) = Objects(st) /\ Arrays(new) = Arrays(st)
<1>1. Len(st) \in Nat \ {0} /\ DOMAIN st = 1..Len(st) /\ \A i \in 1..Len(st) : st[i] \in Frame
  BY EmptySeq, LenProperties, ElementOfSeq
<1> DEFINE f == [kind |-> st[Len(st)].kind, key |-> k]
<1>2. f \in Frame /\ [st[Len(st)] EXCEPT !.key = k] = f
  <2>1. st[Len(st)] \in Frame
    BY <1>1
  <2> DEFINE top == st[Len(st)]
  <2> HIDE DEF top
  <2>2. top \in Frame => [kind |-> top.kind, key |-> k] \in Frame
    BY DEF Frame
  <2>3. ASSUME top \in Frame PROVE [top EXCEPT !.key = k] = [kind |-> top.kind, key |-> k]
    <3>1. DOMAIN top = {"kind", "key"} /\ top = [x \in {"kind", "key"} |-> top[x]]
      BY <2>3 DEF Frame
    <3> QED
      BY <3>1
  <2> QED
    BY <2>1, <2>2, <2>3 DEF top
<1>3. new = [st EXCEPT ![Len(st)] = f]
  BY <1>2
<1> HIDE DEF f
<1>4. new \in Seq(Frame) /\ Len(new) = Len(st) /\ \A i \in 1..Len(st) : new[i] = IF i = Len(st) THEN f ELSE st[i]
  BY <1>1, <1>2, <1>3, ExceptSeq
<1>5. DOMAIN new = 1..Len(st)
  BY <1>4, LenProperties
<1>6. Objects(new) = Objects(st) /\ Arrays(new) = Arrays(st)
  <2>1. f.kind = st[Len(st)].kind
    BY DEF f
  <2>2. \A i \in 1..Len(st) : new[i].kind = st[i].kind
    BY <1>4, <2>1
  <2>3. DOMAIN new = 1..Len(st) /\ DOMAIN st = 1..Len(st)
    BY <1>1, <1>5
  <2> QED
    BY ONLY <2>2, <2>3 DEF Objects, Arrays
<1> QED
  BY <1>1, <1>4, <1>6 DEF f

-----------------------------------------------------------------------------
\* The scanner, field by field.

\* o is s with the depths that t leaves.
Moved(s, o, t) ==
    /\ o.objectDepth = CASE t = "{" -> s.objectDepth + 1
                         [] t = "}" -> Down(s.objectDepth)
                         [] OTHER   -> s.objectDepth
    /\ o.arrayDepth = CASE t = "[" -> s.arrayDepth + 1
                        [] t = "]" -> Down(s.arrayDepth)
                        [] OTHER   -> s.arrayDepth
    /\ o.metadata = IF t = "}" /\ s.metadata # <<>> /\ s.metadata[1] = s.objectDepth
                    THEN <<>> ELSE s.metadata

\* A depth never falls below zero.
LEMMA DownType == \A n \in Nat : Down(n) \in Nat
BY DEF Down

\* What updateContainerDepth() does to each field.
LEMMA UpdateFields ==
    ASSUME NEW s \in Scanners, NEW t
    PROVE  LET o == UpdateContainerDepth(s, t) IN
           /\ o \in Scanners /\ Moved(s, o, t)
           /\ o.state = s.state /\ o.pendingKey = s.pendingKey /\ o.found = s.found
           /\ o.value = s.value /\ o.overflow = s.overflow
<1> DEFINE o == UpdateContainerDepth(s, t)
<1>0. o = UpdateContainerDepth(s, t)
  OBVIOUS
<1> HIDE DEF o
<1> USE <1>0
<1>1. CASE t = "{"
  <2> DEFINE d == s.objectDepth + 1
  <2>1. o = [s EXCEPT !.objectDepth = d]
    BY <1>1 DEF UpdateContainerDepth
  <2>2. d \in Nat
    <3>1. s.objectDepth \in Nat
      BY DEF Scanners
    <3> QED
      BY <3>1
  <2> HIDE DEF d
  <2>3. /\ o \in Scanners /\ o.objectDepth = d
        /\ o.arrayDepth = s.arrayDepth /\ o.metadata = s.metadata
        /\ o.state = s.state /\ o.pendingKey = s.pendingKey /\ o.found = s.found
        /\ o.value = s.value /\ o.overflow = s.overflow
    BY <2>1, <2>2 DEF Scanners
  <2> QED
    BY <1>1, <2>3 DEF Moved, d
<1>2. CASE t = "["
  <2> DEFINE d == s.arrayDepth + 1
  <2>1. o = [s EXCEPT !.arrayDepth = d]
    BY <1>2 DEF UpdateContainerDepth
  <2>2. d \in Nat
    <3>1. s.arrayDepth \in Nat
      BY DEF Scanners
    <3> QED
      BY <3>1
  <2> HIDE DEF d
  <2>3. /\ o \in Scanners /\ o.objectDepth = s.objectDepth
        /\ o.arrayDepth = d /\ o.metadata = s.metadata
        /\ o.state = s.state /\ o.pendingKey = s.pendingKey /\ o.found = s.found
        /\ o.value = s.value /\ o.overflow = s.overflow
    BY <2>1, <2>2 DEF Scanners
  <2> QED
    BY <1>2, <2>3 DEF Moved, d
<1>3. CASE t = "}"
  <2> DEFINE m == IF s.metadata # <<>> /\ s.metadata[1] = s.objectDepth THEN <<>> ELSE s.metadata
  <2>1. o = [s EXCEPT !.objectDepth = Down(@), !.metadata = m]
    BY <1>3 DEF UpdateContainerDepth
  <2>2. m \in {<<>>, <<2, 0>>} /\ Down(s.objectDepth) \in Nat
    <3>1. s.metadata \in {<<>>, <<2, 0>>} /\ s.objectDepth \in Nat
      BY DEF Scanners
    <3> QED
      BY <3>1, DownType
  <2>3. Moved(s, o, t) <=> /\ o.objectDepth = Down(s.objectDepth)
                           /\ o.arrayDepth = s.arrayDepth /\ o.metadata = m
    BY <1>3 DEF Moved
  <2> DEFINE d == Down(s.objectDepth)
  <2> HIDE DEF m, d
  <2>4. o = [s EXCEPT !.objectDepth = d, !.metadata = m]
    BY <2>1 DEF d
  <2>5. d \in Nat /\ m \in {<<>>, <<2, 0>>}
    BY <2>2 DEF d
  <2>6. o \in Scanners
    BY <2>4, <2>5 DEF Scanners
  <2>7. /\ o.objectDepth = d /\ o.arrayDepth = s.arrayDepth /\ o.metadata = m
        /\ o.state = s.state /\ o.pendingKey = s.pendingKey /\ o.found = s.found
        /\ o.value = s.value /\ o.overflow = s.overflow
    BY <2>4, <2>5 DEF Scanners
  <2>8. Moved(s, o, t)
    BY <2>3, <2>7 DEF d
  <2> QED
    BY <2>6, <2>7, <2>8
<1>4. CASE t = "]"
  <2>1. o = [s EXCEPT !.arrayDepth = Down(@)]
    BY <1>4 DEF UpdateContainerDepth
  <2>2. Down(s.arrayDepth) \in Nat
    <3>1. s.arrayDepth \in Nat
      BY DEF Scanners
    <3> QED
      BY <3>1, DownType
  <2>3. /\ o \in Scanners /\ o.objectDepth = s.objectDepth
        /\ o.arrayDepth = Down(s.arrayDepth) /\ o.metadata = s.metadata
        /\ o.state = s.state /\ o.pendingKey = s.pendingKey /\ o.found = s.found
        /\ o.value = s.value /\ o.overflow = s.overflow
    BY <2>1, <2>2 DEF Scanners
  <2> QED
    BY <1>4, <2>3 DEF Moved
<1>5. CASE t \notin {"{", "[", "}", "]"}
  <2>1. o = s
    BY <1>5 DEF UpdateContainerDepth
  <2> QED
    BY <1>5, <2>1 DEF Moved
<1> QED
  BY <1>1, <1>2, <1>3, <1>4, <1>5 DEF o

\* What processOutside() does to each field.
LEMMA OutsideFields ==
    ASSUME NEW s \in Scanners, NEW t
    PROVE  LET o == Outside(s, t) IN
           /\ o \in Scanners /\ Moved(s, o, t)
           /\ o.state = IF t \in Strings THEN "after-key" ELSE "outside"
           /\ o.pendingKey = IF t \in Strings THEN t ELSE ""
           /\ o.found = s.found /\ o.value = s.value /\ o.overflow = s.overflow
<1> DEFINE o == Outside(s, t)
<1>0. o = Outside(s, t)
  OBVIOUS
<1> HIDE DEF o
<1> USE <1>0
<1>1. CASE t \in Strings
  <2>1. o = [s EXCEPT !.state = "after-key", !.pendingKey = t]
    BY <1>1 DEF Outside
  <2>2. t \notin {"{", "[", "}", "]"}
    BY <1>1 DEF Strings
  <2>3. /\ o \in Scanners /\ o.state = "after-key" /\ o.pendingKey = t
        /\ o.found = s.found /\ o.value = s.value /\ o.overflow = s.overflow
        /\ o.objectDepth = s.objectDepth /\ o.arrayDepth = s.arrayDepth
        /\ o.metadata = s.metadata
    BY <1>1, <2>1 DEF Scanners
  <2> QED
    BY <1>1, <2>2, <2>3 DEF Moved
<1>2. CASE t \notin Strings
  <2> DEFINE r == [s EXCEPT !.state = "outside", !.pendingKey = ""]
  <2>1. o = UpdateContainerDepth(r, t)
    BY <1>2 DEF Outside
  <2>2. /\ r \in Scanners /\ r.state = "outside" /\ r.pendingKey = ""
        /\ r.found = s.found /\ r.value = s.value /\ r.overflow = s.overflow
        /\ r.objectDepth = s.objectDepth /\ r.arrayDepth = s.arrayDepth
        /\ r.metadata = s.metadata
    BY DEF Scanners
  <2> HIDE DEF r
  <2>5. r \in Scanners
    BY <2>2
  <2>3. /\ o \in Scanners /\ Moved(r, o, t)
        /\ o.state = r.state /\ o.pendingKey = r.pendingKey /\ o.found = r.found
        /\ o.value = r.value /\ o.overflow = r.overflow
    BY ONLY <2>1, <2>5, UpdateFields
  <2>4. Moved(s, o, t)
    BY <2>2, <2>3 DEF Moved
  <2> QED
    BY <1>2, <2>2, <2>3, <2>4
<1> QED
  BY <1>1, <1>2 DEF o

\* A digit is worth at most nine.
LEMMA DigitValue == ASSUME NEW t, Digit(t) PROVE Value(t) \in 0..9
BY DEF Digit, Value

\* What emitting the value does to each field.
LEMMA EmitFields ==
    ASSUME NEW s \in Scanners, NEW t \in Delimiters
    PROVE  LET o == EmitValue(s, t) IN
           /\ o \in Scanners /\ Moved(s, o, t)
           /\ o.state = "outside"
           /\ o.found = IF s.overflow THEN s.found ELSE s.value
<1> DEFINE o == EmitValue(s, t)
<1>0. o = EmitValue(s, t)
  OBVIOUS
<1> HIDE DEF o
<1> USE <1>0
<1> DEFINE a == Outside(s, t)
<1>1. /\ a \in Scanners /\ Moved(s, a, t)
      /\ a.state = "outside" /\ a.found = s.found
  <2>1. t \notin Strings
    BY DEF Delimiters, Strings
  <2> HIDE DEF a
  <2>2. a = Outside(s, t)
    BY DEF a
  <2> QED
    BY <2>1, <2>2, OutsideFields
<1>2. o = IF s.overflow THEN a ELSE [a EXCEPT !.found = s.value]
  BY DEF EmitValue
<1>3. s.value \in Nat
  BY DEF Scanners
<1> HIDE DEF a
<1>4. CASE s.overflow
  BY <1>1, <1>2, <1>4
<1>5. CASE ~s.overflow
  <2>1. o = [a EXCEPT !.found = s.value]
    BY <1>2, <1>5
  <2>2. /\ o \in Scanners /\ o.state = a.state /\ o.found = s.value
        /\ o.objectDepth = a.objectDepth /\ o.arrayDepth = a.arrayDepth
        /\ o.metadata = a.metadata
    BY <1>1, <1>3, <2>1 DEF Scanners
  <2> QED
    BY <1>1, <1>5, <2>2 DEF Moved
<1> QED
  BY <1>4, <1>5 DEF o

\* After a colon t begins the number that is looked for, or the metadata.
Counts(s, t) == Digit(t) /\ s.pendingKey = "creditsUsed" /\ s.metadata = Depths(s)
Enters(s, t) == t = "{" /\ s.pendingKey = "metadata" /\ Depths(s) = <<1, 0>>

\* What processAfterColon() does to each field.
LEMMA AfterColonFields ==
    ASSUME NEW s \in Scanners, NEW t
    PROVE  LET o == AfterColon(s, t) IN
           /\ o \in Scanners /\ o.found = s.found
           /\ Counts(s, t) => /\ o.state = "digits" /\ o.value = Value(t) /\ ~o.overflow
                       /\ o.objectDepth = s.objectDepth /\ o.arrayDepth = s.arrayDepth
                       /\ o.metadata = s.metadata
           /\ Enters(s, t) => /\ o.state = "outside" /\ o.metadata = <<2, 0>>
                        /\ o.objectDepth = s.objectDepth + 1 /\ o.arrayDepth = s.arrayDepth
           /\ ~Counts(s, t) /\ ~Enters(s, t) => o = Outside(s, t)
<1> DEFINE o == AfterColon(s, t)
<1>0. o = AfterColon(s, t)
  OBVIOUS
<1> HIDE DEF o
<1> USE <1>0
<1>1. t \in {"{", "["} => ~Digit(t)
  BY NoDigits DEF Containers
<1>2. CASE Counts(s, t)
  <2>1. o = [s EXCEPT !.state = "digits", !.value = Value(t), !.overflow = FALSE,
                      !.pendingKey = ""]
    BY <1>1, <1>2 DEF AfterColon, Counts
  <2>2. Value(t) \in Nat
    <3>1. Value(t) \in 0..9
      BY <1>2, DigitValue DEF Counts
    <3> QED
      BY <3>1
  <2>3. /\ o \in Scanners /\ o.found = s.found /\ o.state = "digits" /\ o.value = Value(t)
        /\ o.overflow = FALSE /\ o.objectDepth = s.objectDepth /\ o.arrayDepth = s.arrayDepth
        /\ o.metadata = s.metadata
    BY <2>1, <2>2 DEF Scanners
  <2>4. ~Enters(s, t)
    BY <1>1, <1>2 DEF Counts, Enters
  <2> QED
    BY <1>2, <2>3, <2>4
<1>3. CASE Enters(s, t)
  <2> DEFINE a == Outside(s, t)
  <2>1. o = [a EXCEPT !.metadata = Depths(a)]
    BY <1>3 DEF AfterColon, Enters
  <2>2. /\ a \in Scanners /\ Moved(s, a, t) /\ a.state = "outside" /\ a.found = s.found
    <3>1. t \notin Strings
      BY <1>3 DEF Strings, Enters
    <3> HIDE DEF a
    <3>2. a = Outside(s, t)
      BY DEF a
    <3> QED
      BY <3>1, <3>2, OutsideFields
  <2> HIDE DEF a
  <2>3. s.objectDepth = 1 /\ s.arrayDepth = 0
    BY <1>3 DEF Depths, Enters
  <2>4. a.objectDepth = s.objectDepth + 1 /\ a.arrayDepth = s.arrayDepth
    BY <1>3, <2>2 DEF Moved, Enters
  <2>5. Depths(a) = <<2, 0>>
    <3>1. a.objectDepth = 2 /\ a.arrayDepth = 0
      BY <2>3, <2>4
    <3> QED
      BY <3>1 DEF Depths
  <2>6. /\ o \in Scanners /\ o.found = a.found /\ o.state = a.state /\ o.metadata = <<2, 0>>
        /\ o.objectDepth = a.objectDepth /\ o.arrayDepth = a.arrayDepth
    BY <2>1, <2>2, <2>5 DEF Scanners
  <2>7. ~Counts(s, t)
    BY <1>1, <1>3 DEF Counts, Enters
  <2> QED
    BY <1>3, <2>2, <2>4, <2>6, <2>7
<1>4. CASE ~Counts(s, t) /\ ~Enters(s, t)
  <2>1. o = Outside(s, t)
    BY <1>4 DEF AfterColon, Counts, Enters
  <2> DEFINE a == Outside(s, t)
  <2> HIDE DEF a
  <2>3. a = Outside(s, t)
    BY DEF a
  <2>4. a \in Scanners /\ a.found = s.found
    BY <2>3, OutsideFields
  <2>2. o \in Scanners /\ o.found = s.found
    BY <2>1, <2>3, <2>4
  <2> QED
    BY <1>4, <2>1, <2>2
<1> QED
  BY <1>2, <1>3, <1>4 DEF o

\* What processDigits() does to each field.
LEMMA DigitsFields ==
    ASSUME NEW s \in Scanners, NEW t
    PROVE  LET o == Digits(s, t) IN
           /\ o \in Scanners
           /\ Digit(t) => /\ o.state = s.state /\ o.found = s.found
                          /\ o.objectDepth = s.objectDepth /\ o.arrayDepth = s.arrayDepth
                          /\ o.metadata = s.metadata
                          /\ o.overflow = (s.overflow \/ s.value > (MaxSafe - Value(t)) \div 10)
                          /\ ~o.overflow => o.value = 10 * s.value + Value(t)
           /\ t = " " => /\ o.state = "after-digits" /\ o.found = s.found
                         /\ o.objectDepth = s.objectDepth /\ o.arrayDepth = s.arrayDepth
                         /\ o.metadata = s.metadata /\ o.overflow = s.overflow
                         /\ o.value = s.value
           /\ t \in Delimiters => o = EmitValue(s, t)
           /\ ~Digit(t) /\ t # " " /\ t \notin Delimiters => o = Outside(s, t)
<1> DEFINE o == Digits(s, t)
<1>0. o = Digits(s, t)
  OBVIOUS
<1> HIDE DEF o
<1> USE <1>0
<1>1. t = " " \/ t \in Delimiters => ~Digit(t)
  BY NoDigits
<1>2. t = " " => t \notin Delimiters
  BY DEF Delimiters
<1>3. CASE Digit(t)
  <2> DEFINE v == Value(t)
             big == s.value > (MaxSafe - v) \div 10
             next == 10 * s.value + v
  <2>1. v \in 0..9 /\ s.value \in Nat /\ s.overflow \in BOOLEAN
    BY <1>3, DigitValue DEF Scanners
  <2>2. next \in Nat
    BY <2>1
  <2>3. o = IF big THEN [s EXCEPT !.overflow = TRUE]
            ELSE IF s.overflow THEN s ELSE [s EXCEPT !.value = next]
    BY <1>1, <1>3 DEF Digits, Whitespace
  <2> HIDE DEF big, next, v
  <2>4. CASE big
    <3>1. /\ o \in Scanners /\ o.state = s.state /\ o.found = s.found
          /\ o.objectDepth = s.objectDepth /\ o.arrayDepth = s.arrayDepth
          /\ o.metadata = s.metadata /\ o.overflow = TRUE
      BY <2>3, <2>4 DEF Scanners
    <3> QED
      BY <1>1, <1>3, <2>4, <3>1 DEF big, v
  <2>5. CASE ~big /\ s.overflow
    <3>1. o = s
      BY <2>3, <2>5
    <3> QED
      BY <1>1, <1>3, <2>1, <2>5, <3>1 DEF big, v
  <2>6. CASE ~big /\ ~s.overflow
    <3>1. /\ o \in Scanners /\ o.state = s.state /\ o.found = s.found
          /\ o.objectDepth = s.objectDepth /\ o.arrayDepth = s.arrayDepth
          /\ o.metadata = s.metadata /\ o.overflow = FALSE /\ o.value = next
      BY <2>1, <2>2, <2>3, <2>6 DEF Scanners
    <3> QED
      BY <1>1, <1>3, <2>6, <3>1 DEF big, next, v
  <2> QED
    BY <2>4, <2>5, <2>6
<1>4. CASE t = " "
  <2>1. o = [s EXCEPT !.state = "after-digits"]
    BY <1>1, <1>2, <1>4 DEF Digits, Whitespace
  <2>2. /\ o \in Scanners /\ o.state = "after-digits" /\ o.found = s.found
        /\ o.objectDepth = s.objectDepth /\ o.arrayDepth = s.arrayDepth
        /\ o.metadata = s.metadata /\ o.overflow = s.overflow /\ o.value = s.value
    BY <2>1 DEF Scanners
  <2> QED
    BY <1>1, <1>2, <1>4, <2>2
<1>5. CASE t \in Delimiters
  <2>1. o = EmitValue(s, t)
    BY <1>1, <1>2, <1>5 DEF Digits, Whitespace
  <2> QED
    BY <1>1, <1>2, <1>5, <2>1, EmitFields
<1>6. CASE ~Digit(t) /\ t # " " /\ t \notin Delimiters
  <2>1. o = Outside(s, t)
    BY <1>6 DEF Digits, Whitespace
  <2> QED
    BY <1>6, <2>1, OutsideFields
<1> QED
  BY <1>3, <1>4, <1>5, <1>6 DEF o

\* Which handler a token goes to; once a value is found, none.
LEMMA Pushes ==
    ASSUME NEW s \in Scanners, NEW t
    PROVE  LET o == ProcessToken(s, t) IN
           /\ s.found # None => o = s
           /\ s.found = None =>
                /\ s.state = "outside" => o = Outside(s, t)
                /\ s.state \notin {"outside", "digits"} /\ t = " " => o = s
                /\ s.state = "after-key" /\ t = ":" => o = [s EXCEPT !.state = "after-colon"]
                /\ s.state = "after-key" /\ t \notin {":", " "} => o = Outside(s, t)
                /\ s.state = "after-colon" /\ t # " " => o = AfterColon(s, t)
                /\ s.state = "digits" => o = Digits(s, t)
                /\ s.state = "after-digits" /\ t \in Delimiters => o = EmitValue(s, t)
                /\ s.state = "after-digits" /\ t \notin Delimiters \cup {" "} =>
                      o = Outside(s, t)
<1> DEFINE o == ProcessToken(s, t)
<1>0. o = ProcessToken(s, t)
  OBVIOUS
<1> HIDE DEF o
<1> USE <1>0
<1>1. s.state \in {"outside", "after-key", "after-colon", "digits", "after-digits"}
  BY DEF Scanners
<1>2. " " \notin Delimiters
  BY DEF Delimiters
<1>3. s.found # None => o = s
  BY DEF ProcessToken
<1>4. ASSUME s.found = None, s.state = "outside" PROVE o = Outside(s, t)
  BY <1>4 DEF ProcessToken
<1>5. ASSUME s.found = None, s.state \notin {"outside", "digits"}, t = " " PROVE o = s
  BY <1>5 DEF ProcessToken, Whitespace
<1>6. ASSUME s.found = None, s.state = "after-key", t # " "
      PROVE  o = IF t = ":" THEN [s EXCEPT !.state = "after-colon"] ELSE Outside(s, t)
  BY <1>6 DEF ProcessToken, Whitespace
<1>7. ASSUME s.found = None, s.state = "after-colon", t # " " PROVE o = AfterColon(s, t)
  BY <1>7 DEF ProcessToken, Whitespace
<1>8. ASSUME s.found = None, s.state = "digits" PROVE o = Digits(s, t)
  BY <1>8 DEF ProcessToken, Whitespace
<1>9. ASSUME s.found = None, s.state = "after-digits", t # " "
      PROVE  o = IF t \in Delimiters THEN EmitValue(s, t) ELSE Outside(s, t)
  BY <1>9 DEF ProcessToken, Whitespace
<1> QED
  BY <1>2, <1>3, <1>4, <1>5, <1>6, <1>7, <1>8, <1>9 DEF o

\* Whatever the token, the fields keep their types.
LEMMA PushType ==
    ASSUME NEW s \in Scanners, NEW t
    PROVE  ProcessToken(s, t) \in Scanners
<1> DEFINE o == ProcessToken(s, t)
<1>1. s.state \in {"outside", "after-key", "after-colon", "digits", "after-digits"}
  BY DEF Scanners
<1>2. Outside(s, t) \in Scanners /\ Digits(s, t) \in Scanners
      /\ (t \in Delimiters => EmitValue(s, t) \in Scanners)
  BY OutsideFields, DigitsFields, EmitFields
<1>3. AfterColon(s, t) \in Scanners
  BY AfterColonFields
<1>4. [s EXCEPT !.state = "after-colon"] \in Scanners
  BY DEF Scanners
<1> HIDE DEF o
<1>5. o = ProcessToken(s, t)
  BY DEF o
<1> DEFINE q == Outside(s, t)
           d == Digits(s, t)
           c == AfterColon(s, t)
           e == EmitValue(s, t)
           k == [s EXCEPT !.state = "after-colon"]
<1>6. o \in {s, q, d, c, k} \/ (t \in Delimiters /\ o = e)
  BY <1>1, <1>5 DEF ProcessToken
<1> HIDE DEF q, d, c, e, k
<1>7. o \in Scanners
  BY <1>2, <1>3, <1>4, <1>6 DEF q, d, c, e, k
<1> QED
  BY <1>7 DEF o

-----------------------------------------------------------------------------
\* Where the writer is, in the depths the scanner counts.

\* With the depths in agreement, what the scanner asks of its depths, its pending
\* key and its mark is what the place in the document is: metadata directly in the
\* outermost object, creditsUsed directly in metadata.
LEMMA MeantDepths ==
    ASSUME ScanTypeOK, DepthsAgree
    PROVE  /\ Len(stack) = scan.objectDepth + scan.arrayDepth
           /\ Meant <=> /\ InObject /\ Top.key = "creditsUsed"
                        /\ scan.metadata = Depths(scan)
           /\ InObject => (Top.key = "metadata" /\ Depths(scan) = <<1, 0>>
                           <=> /\ Len(stack) = 1
                               /\ stack[1] = [kind |-> "{", key |-> "metadata"])
           /\ InObject => (scan.metadata # <<>> /\ scan.metadata[1] = scan.objectDepth
                           <=> InMetadata /\ Len(stack) = 2)
<1> DEFINE o == Cardinality(Objects(stack))
           a == Cardinality(Arrays(stack))
           n == Len(stack)
<1>1. /\ o \in Nat /\ a \in Nat /\ n \in Nat /\ n = o + a
      /\ IsFiniteSet(Objects(stack)) /\ IsFiniteSet(Arrays(stack))
      /\ DOMAIN stack = 1..n /\ \A i \in 1..n : stack[i] \in Frame
      /\ stack # <<>> => n > 0
  BY DepthType, LenProperties, ElementOfSeq, EmptySeq DEF ScanTypeOK
<1>2. scan.objectDepth = o /\ scan.arrayDepth = a
      /\ scan.metadata = IF InMetadata THEN <<2, 0>> ELSE <<>>
  BY DEF DepthsAgree
<1>3. ASSUME NEW f \in Frame PROVE f = [kind |-> f.kind, key |-> f.key]
  <2>1. f = [x \in {"kind", "key"} |-> f[x]]
    BY DEF Frame
  <2> QED
    BY <2>1
<1>11. n = Len(stack) /\ o = Cardinality(Objects(stack)) /\ a = Cardinality(Arrays(stack))
  OBVIOUS
<1> HIDE DEF o, a, n
<1>14. n \in Nat
  BY <1>1
<1>12. ASSUME InMetadata PROVE n >= 2 /\ stack[1].kind = "{" /\ stack[2].kind = "{"
  <2>1. [kind |-> "{", key |-> "metadata"].kind = "{"
    OBVIOUS
  <2> QED
    BY <1>11, <1>12, <2>1 DEF InMetadata
<1>13. InObject => n > 0 /\ Top = stack[n] /\ stack[n].kind = "{"
  BY <1>1, <1>11 DEF InObject, Top
<1>4. ASSUME InMetadata, n = 2 PROVE o = 2 /\ a = 0
  <2>1. stack[1].kind = "{" /\ stack[2].kind = "{"
    BY <1>4, <1>12
  <2>4. \A i \in 1..n : i = 1 \/ i = 2
    BY <1>1, <1>4
  <2>2. Arrays(stack) = {}
    BY <1>1, <2>1, <2>4 DEF Arrays
  <2>3. a = 0
    BY <1>11, <2>2, FS_EmptySet
  <2> QED
    BY <1>1, <1>4, <2>3
<1>5. ASSUME InMetadata, InObject, o = 2 PROVE n = 2
  <2>6. n >= 2 /\ stack[n].kind = "{"
    BY <1>5, <1>12, <1>13
  <2>7. 1 \in 1..n /\ 2 \in 1..n /\ n \in 1..n
    <3>1. n >= 2
      BY <2>6
    <3> QED
      BY ONLY <1>14, <3>1
  <2>1. n \in 1..n /\ stack[n].kind = "{" /\ n >= 2
    BY <2>6, <2>7
  <2>2. stack[1].kind = "{" /\ stack[2].kind = "{"
    BY <1>5, <1>12
  <2>3. {1, 2, n} \subseteq Objects(stack)
    <3>1. DOMAIN stack = 1..n
      BY <1>1
    <3> QED
      BY ONLY <2>1, <2>2, <2>7, <3>1 DEF Objects
  <2>4. n # 2 => Cardinality({1, 2, n}) = 3
    <3>1. IsFiniteSet({}) /\ Cardinality({}) = 0
      BY FS_EmptySet
    <3>2. IsFiniteSet({1}) /\ Cardinality({1}) = 1
      BY FS_Singleton
    <3>3. {1, 2} = {1} \cup {2} /\ 2 \notin {1}
      OBVIOUS
    <3>4. IsFiniteSet({1, 2}) /\ Cardinality({1, 2}) = 2
      BY <3>2, <3>3, FS_AddElement
    <3>5. {1, 2, n} = {1, 2} \cup {n}
      OBVIOUS
    <3>6. n # 1
      <4>1. n >= 2
        BY <2>6
      <4> QED
        BY ONLY <1>14, <4>1
    <3> QED
      BY <3>4, <3>5, <3>6, FS_AddElement
  <2>5. Cardinality({1, 2, n}) <= o
    BY <1>1, <1>11, <2>3, FS_Subset
  <2> QED
    BY <1>5, <2>4, <2>5
<1>6. Len(stack) = scan.objectDepth + scan.arrayDepth
  BY <1>1, <1>2, <1>11
<1>7. ASSUME Meant
      PROVE  InObject /\ Top.key = "creditsUsed" /\ scan.metadata = Depths(scan)
  <2>1. InMetadata /\ n = 2 /\ stack[2] = [kind |-> "{", key |-> "creditsUsed"]
    <3>1. stack[2] = [kind |-> "{", key |-> "creditsUsed"] /\ n = 2
          /\ stack[1] = [kind |-> "{", key |-> "metadata"]
      BY <1>7, <1>11 DEF Meant
    <3>2. [kind |-> "{", key |-> "creditsUsed"].kind = "{"
      OBVIOUS
    <3>3. stack[2].kind = "{"
      BY ONLY <3>1, <3>2
    <3> QED
      <4>1. Len(stack) >= 2
        <5>1. Len(stack) = 2
          BY <1>11, <3>1
        <5> QED
          BY ONLY <5>1
      <4>2. InMetadata
        BY ONLY <3>1, <3>3, <4>1 DEF InMetadata
      <4> QED
        BY <3>1, <4>2
  <2>2. InObject /\ Top.key = "creditsUsed"
    <3>1. Top = [kind |-> "{", key |-> "creditsUsed"]
      BY <1>11, <2>1 DEF Top
    <3>2. stack # <<>>
      <4>1. Len(<<>>) = 0 /\ Len(stack) = 2
        BY <1>11, <2>1, EmptySeq
      <4> QED
        BY ONLY <4>1
    <3>3. Top.kind = "{" /\ Top.key = "creditsUsed"
      BY <3>1
    <3> QED
      BY <3>2, <3>3 DEF InObject
  <2>3. scan.metadata = <<2, 0>> /\ Depths(scan) = <<2, 0>>
    BY <1>2, <1>4, <2>1 DEF Depths
  <2> QED
    BY <2>2, <2>3
<1>8. ASSUME InObject, Top.key = "creditsUsed", scan.metadata = Depths(scan)
      PROVE  Meant
  <2>4. scan.metadata = <<o, a>>
    BY <1>2, <1>8 DEF Depths
  <2>5. InMetadata
    BY <1>2, <2>4
  <2>6. <<o, a>> = <<2, 0>>
    BY <1>2, <2>4, <2>5
  <2>1. InMetadata /\ o = 2 /\ a = 0
    BY <2>5, <2>6
  <2>2. n = 2
    BY <1>5, <1>8, <2>1
  <2>3. stack[2] = [kind |-> "{", key |-> "creditsUsed"]
    <3>1. stack[n] = [kind |-> stack[n].kind, key |-> stack[n].key]
      BY <1>1, <1>3, <2>2
    <3> QED
      BY <1>8, <1>13, <2>2, <3>1
  <2> QED
    BY <1>11, <2>1, <2>2, <2>3 DEF Meant, InMetadata
<1>9. ASSUME InObject
      PROVE  Top.key = "metadata" /\ Depths(scan) = <<1, 0>>
             <=> Len(stack) = 1 /\ stack[1] = [kind |-> "{", key |-> "metadata"]
  <2>1. Depths(scan) = <<1, 0>> <=> o = 1 /\ a = 0
    BY <1>2 DEF Depths
  <2>2. n = 1 => o = 1 /\ a = 0
    <3>1. n = 1 => Arrays(stack) = {}
      <4>1. DOMAIN stack = 1..n /\ stack[n].kind = "{"
        BY <1>1, <1>9, <1>13
      <4>2. ASSUME n = 1, NEW i \in 1..n PROVE stack[i].kind = "{"
        <5>1. i = n
          BY <4>2
        <5> QED
          BY ONLY <4>1, <5>1
      <4> QED
        BY ONLY <4>1, <4>2 DEF Arrays
    <3>2. n = 1 => a = 0
      BY <1>11, <3>1, FS_EmptySet
    <3> QED
      BY <1>1, <3>2
  <2>3. o = 1 /\ a = 0 => n = 1
    BY <1>1
  <2>4. n = 1 => (Top.key = "metadata" <=> stack[1] = [kind |-> "{", key |-> "metadata"])
    <3>1. ASSUME n = 1 PROVE stack[1] = [kind |-> "{", key |-> stack[1].key] /\ Top = stack[1]
      <4>1. stack[n] \in Frame /\ stack[n].kind = "{" /\ Top = stack[n]
        <5>1. n > 0
          BY <1>9, <1>13
        <5>2. n \in 1..n
          BY ONLY <1>14, <5>1
        <5> QED
          BY <1>1, <1>9, <1>13, <5>2
      <4> QED
        BY ONLY <1>3, <3>1, <4>1
    <3>2. [kind |-> "{", key |-> "metadata"].key = "metadata"
      OBVIOUS
    <3> QED
      BY <3>1, <3>2
  <2> QED
    BY <1>11, <2>1, <2>2, <2>3, <2>4
<1>10. ASSUME InObject
       PROVE  scan.metadata # <<>> /\ scan.metadata[1] = scan.objectDepth
              <=> InMetadata /\ Len(stack) = 2
  <2>1. scan.metadata # <<>> /\ scan.metadata[1] = scan.objectDepth <=> InMetadata /\ o = 2
    BY <1>2
  <2> QED
    BY <1>4, <1>5, <1>10, <1>11, <2>1
<1> QED
  BY <1>6, <1>7, <1>8, <1>9, <1>10

\* The depths after a step that opens or closes nothing.
LEMMA SameDepths ==
    ASSUME ScanTypeOK, DepthsAgree,
           scan'.objectDepth = scan.objectDepth, scan'.arrayDepth = scan.arrayDepth,
           scan'.metadata = scan.metadata,
           stack' = stack
    PROVE  DepthsAgree'
<1>1. InMetadata' = InMetadata
  BY DEF InMetadata
<1> QED
  BY <1>1 DEF DepthsAgree

\* The depths after a step that writes a key.
LEMMA KeyDepths ==
    ASSUME ScanTypeOK, DepthsAgree, stack # <<>>, NEW k \in Strings,
           scan'.objectDepth = scan.objectDepth, scan'.arrayDepth = scan.arrayDepth,
           scan'.metadata = scan.metadata,
           stack' = [stack EXCEPT ![Len(stack)].key = k]
    PROVE  DepthsAgree'
<1>1. stack \in Seq(Frame)
  BY DEF ScanTypeOK
<1>2. /\ Len(stack') = Len(stack)
      /\ stack'[Len(stack)].kind = stack[Len(stack)].kind
      /\ \A i \in 1..(Len(stack) - 1) : stack'[i] = stack[i]
      /\ Objects(stack') = Objects(stack) /\ Arrays(stack') = Arrays(stack)
  <2>1. stack # <<>> /\ k \in Strings /\ stack' = [stack EXCEPT ![Len(stack)].key = k]
    OBVIOUS
  <2>2. Len(stack') = Len(stack)
    BY <1>1, <2>1, DepthKey
  <2>3. stack'[Len(stack)] = [kind |-> stack[Len(stack)].kind, key |-> k]
    BY <1>1, <2>1, DepthKey
  <2>4. \A i \in 1..(Len(stack) - 1) : stack'[i] = stack[i]
    BY <1>1, <2>1, DepthKey
  <2>5. Objects(stack') = Objects(stack) /\ Arrays(stack') = Arrays(stack)
    BY <1>1, <2>1, DepthKey
  <2>6. stack'[Len(stack)].kind = stack[Len(stack)].kind
    BY <2>3
  <2> QED
    BY <2>2, <2>4, <2>5, <2>6
<1>3. InMetadata' <=> InMetadata
  <2> DEFINE n == Len(stack)
  <2>1. n \in Nat
    BY <1>1, LenProperties
  <2>2. Len(stack') = n /\ Len(stack) = n
    BY <1>2
  <2> HIDE DEF n
  <2>3. /\ n >= 2 => 1 \in 1..(n - 1)
        /\ n > 2 => 2 \in 1..(n - 1)
        /\ n >= 2 => n = 2 \/ n > 2
    BY ONLY <2>1
  <2>4. n >= 2 => stack'[1] = stack[1]
    BY <1>2, <2>2, <2>3
  <2>5. n > 2 => stack'[2] = stack[2]
    BY <1>2, <2>2, <2>3
  <2>6. n = 2 => stack'[2].kind = stack[2].kind
    BY <1>2, <2>2
  <2>7. n >= 2 => stack'[1] = stack[1] /\ stack'[2].kind = stack[2].kind
    BY <2>3, <2>4, <2>5, <2>6
  <2> QED
    BY <2>2, <2>7 DEF InMetadata
<1> QED
  BY <1>2, <1>3 DEF DepthsAgree

\* The depths, and the mark of metadata, after a step that opens a container.
LEMMA OpenDepths ==
    ASSUME ScanTypeOK, DepthsAgree, NEW kind \in Containers,
           stack' = Append(stack, [kind |-> kind, key |-> ""]),
           scan'.objectDepth = scan.objectDepth + IF kind = "{" THEN 1 ELSE 0,
           scan'.arrayDepth = scan.arrayDepth + IF kind = "[" THEN 1 ELSE 0,
           scan'.metadata = IF /\ kind = "{" /\ Len(stack) = 1
                               /\ stack[1] = [kind |-> "{", key |-> "metadata"]
                            THEN <<2, 0>> ELSE scan.metadata
    PROVE  DepthsAgree'
<1> DEFINE f == [kind |-> kind, key |-> ""]
           n == Len(stack)
           first == stack[1] = [kind |-> "{", key |-> "metadata"]
<1>1. stack \in Seq(Frame) /\ f \in Frame /\ f.kind = kind
  BY DEF ScanTypeOK, Frame
<1>0. n \in Nat
  BY <1>1, LenProperties
<1>7. n = 0 \/ n = 1 \/ n >= 2
  <2> HIDE DEF n
  <2> QED
    BY ONLY <1>0
<1>2. /\ Cardinality(Objects(stack'))
         = Cardinality(Objects(stack)) + IF kind = "{" THEN 1 ELSE 0
      /\ Cardinality(Arrays(stack')) = Cardinality(Arrays(stack)) + IF kind = "[" THEN 1 ELSE 0
  <2> HIDE DEF f
  <2>1. stack' = Append(stack, f)
    BY DEF f
  <2>2. /\ Cardinality(Objects(stack'))
           = Cardinality(Objects(stack)) + IF f.kind = "{" THEN 1 ELSE 0
        /\ Cardinality(Arrays(stack'))
           = Cardinality(Arrays(stack)) + IF f.kind = "[" THEN 1 ELSE 0
    BY ONLY <1>1, <2>1, DepthPushed
  <2> QED
    BY <1>1, <2>2
<1>3. /\ Len(stack') = n + 1 /\ stack'[n + 1] = f
      /\ \A i \in 1..n : stack'[i] = stack[i]
  <2> HIDE DEF f
  <2>1. stack' = Append(stack, f)
    BY DEF f
  <2> DEFINE new == stack'
  <2> HIDE DEF new
  <2>2. new = Append(stack, f)
    BY <2>1 DEF new
  <2>3. /\ Len(Append(stack, f)) = Len(stack) + 1 /\ Append(stack, f)[Len(stack) + 1] = f
        /\ \A i \in 1..Len(stack) : Append(stack, f)[i] = stack[i]
    BY ONLY <1>1, AppendProperties
  <2> QED
    BY <2>2, <2>3 DEF new
<1>8. Len(stack) = n
  OBVIOUS
<1> HIDE DEF n
<1>4. InMetadata' <=> IF n = 1 THEN kind = "{" /\ first ELSE InMetadata
  <2>1. CASE n = 0
    <3>4. Len(stack') = n + 1
      BY <1>3
    <3>1. Len(stack') = 1 /\ Len(stack) = 0 /\ n # 1
      BY ONLY <1>8, <2>1, <3>4
    <3>2. ~(Len(stack') >= 2) /\ ~(Len(stack) >= 2)
      BY ONLY <3>1
    <3>3. ~InMetadata' /\ ~InMetadata
      BY ONLY <3>2 DEF InMetadata
    <3> QED
      BY ONLY <3>1, <3>3
  <2>2. CASE n = 1
    <3>1. 1 \in 1..n /\ n + 1 = 2
      BY ONLY <2>2
    <3>2. Len(stack') = 2 /\ stack'[1] = stack[1] /\ stack'[2].kind = kind
      BY <1>1, <1>3, <3>1
    <3>3. Len(stack') >= 2
      <4>1. Len(stack') = 2
        BY <3>2
      <4> QED
        BY ONLY <4>1
    <3>4. InMetadata' <=> kind = "{" /\ first
      BY ONLY <3>2, <3>3 DEF InMetadata
    <3> QED
      BY <2>2, <3>4
  <2>3. CASE n >= 2
    <3>1. 1 \in 1..n /\ 2 \in 1..n /\ n + 1 >= 2 /\ n # 1
      BY ONLY <1>0, <2>3
    <3>2. stack'[1] = stack[1] /\ stack'[2] = stack[2] /\ Len(stack') >= 2 /\ Len(stack) >= 2
      BY <1>3, <1>8, <2>3, <3>1
    <3>3. InMetadata' <=> InMetadata
      BY ONLY <3>2 DEF InMetadata
    <3> QED
      BY <3>1, <3>3
  <2> QED
    BY ONLY <1>7, <2>1, <2>2, <2>3
<1>5. n = 1 => ~InMetadata
  <2>1. n = 1 => ~(Len(stack) >= 2)
    BY ONLY <1>8
  <2> QED
    BY <2>1 DEF InMetadata
<1>6. scan'.metadata = IF InMetadata' THEN <<2, 0>> ELSE <<>>
  BY <1>4, <1>5, <1>8 DEF DepthsAgree
<1> QED
  BY <1>2, <1>6 DEF DepthsAgree

\* The depths, and the mark of metadata, after a step that closes a container.
LEMMA CloseDepths ==
    ASSUME ScanTypeOK, DepthsAgree, stack # <<>>, stack' = Rest, Moved(scan, scan', Closing)
    PROVE  DepthsAgree'
<1> DEFINE n == Len(stack)
           o == Cardinality(Objects(stack'))
           a == Cardinality(Arrays(stack'))
<1>1. /\ stack' \in Seq(Frame) /\ Top \in Frame /\ Len(stack') = n - 1
      /\ \A i \in 1..(n - 1) : stack'[i] = stack[i]
      /\ Cardinality(Objects(stack)) = o + IF Top.kind = "{" THEN 1 ELSE 0
      /\ Cardinality(Arrays(stack)) = a + IF Top.kind = "[" THEN 1 ELSE 0
  <2>1. stack \in Seq(Frame) /\ stack' = SubSeq(stack, 1, Len(stack) - 1)
        /\ Top = stack[Len(stack)]
    BY DEF ScanTypeOK, Rest, Top
  <2>2. stack # <<>>
    OBVIOUS
  <2> HIDE DEF n, o, a
  <2>3. stack' \in Seq(Frame) /\ stack[Len(stack)] \in Frame
        /\ Len(stack') = Len(stack) - 1
    BY <2>1, <2>2, DepthPopped
  <2>4. \A i \in 1..(Len(stack) - 1) : stack'[i] = stack[i]
    BY <2>1, <2>2, DepthPopped
  <2>5. Cardinality(Objects(stack))
        = Cardinality(Objects(stack')) + IF stack[Len(stack)].kind = "{" THEN 1 ELSE 0
    BY <2>1, <2>2, PoppedCounts
  <2>6. Cardinality(Arrays(stack))
        = Cardinality(Arrays(stack')) + IF stack[Len(stack)].kind = "[" THEN 1 ELSE 0
    BY <2>1, <2>2, PoppedCounts
  <2> QED
    BY <2>1, <2>3, <2>4, <2>5, <2>6 DEF n, o, a
<1>2. n \in Nat \ {0}
  BY EmptySeq DEF ScanTypeOK
<1>12. n = Len(stack) /\ (n > 2 \/ n = 2 \/ n = 1)
  <2>1. n = Len(stack)
    OBVIOUS
  <2> HIDE DEF n
  <2>2. n > 2 \/ n = 2 \/ n = 1
    BY ONLY <1>2
  <2> QED
    BY <2>1, <2>2
<1>13. o = Cardinality(Objects(stack')) /\ a = Cardinality(Arrays(stack'))
  OBVIOUS
<1>3. o \in Nat /\ a \in Nat
  BY <1>1, DepthType
<1> HIDE DEF n, o, a
<1>4. Top.kind = "{" \/ Top.kind = "["
  BY <1>1 DEF Frame, Containers
<1>5. n > 2 => (InMetadata' <=> InMetadata)
  <2>1. n > 2 => 1 \in 1..(n - 1) /\ 2 \in 1..(n - 1) /\ n - 1 >= 2 /\ n >= 2
    BY ONLY <1>2
  <2>2. n > 2 => stack'[1] = stack[1] /\ stack'[2] = stack[2]
                 /\ Len(stack') >= 2 /\ Len(stack) >= 2
    BY <1>1, <1>12, <2>1
  <2> QED
    BY <2>2 DEF InMetadata
<1>6. n <= 2 => ~InMetadata'
  <2>1. n <= 2 => ~(n - 1 >= 2)
    BY ONLY <1>2
  <2> QED
    BY <1>1, <2>1 DEF InMetadata
<1>7. n = 2 /\ InMetadata => Top.kind = "{"
  BY <1>12 DEF InMetadata, Top
<1>8. n = 1 => ~InMetadata
  BY <1>12 DEF InMetadata
<1>9. scan.objectDepth = Cardinality(Objects(stack))
      /\ scan.arrayDepth = Cardinality(Arrays(stack))
      /\ scan.metadata = IF InMetadata THEN <<2, 0>> ELSE <<>>
  BY DEF DepthsAgree
<1>10. CASE Top.kind = "{"
  <2>1. Closing = "}"
    BY <1>10 DEF Closing
  <2>2. scan'.objectDepth = Down(o + 1) /\ scan'.arrayDepth = a
    <3>1. scan.objectDepth = o + 1 /\ scan.arrayDepth = a
      <4>1. scan.objectDepth = o + 1 /\ scan.arrayDepth = a + 0
        BY <1>1, <1>9, <1>10
      <4>2. a + 0 = a
        BY ONLY <1>3
      <4> QED
        BY ONLY <4>1, <4>2
    <3> QED
      BY <2>1, <3>1 DEF Moved
  <2>3. Down(o + 1) = o
    BY <1>3 DEF Down
  <2>4. InObject
    BY <1>10 DEF InObject
  <2>5. scan'.metadata = IF InMetadata /\ n = 2 THEN <<>> ELSE scan.metadata
    <3>1. scan.metadata # <<>> /\ scan.metadata[1] = scan.objectDepth <=> InMetadata /\ n = 2
      BY <1>12, <2>4, MeantDepths
    <3>2. scan'.metadata = IF scan.metadata # <<>> /\ scan.metadata[1] = scan.objectDepth
                           THEN <<>> ELSE scan.metadata
      BY <2>1 DEF Moved
    <3> QED
      BY <3>1, <3>2
  <2>6. InMetadata' <=> InMetadata /\ n # 2
    <3>1. (n > 2 => n # 2) /\ (n = 1 => n <= 2 /\ n # 2) /\ (n = 2 => n <= 2)
      BY ONLY <1>2
    <3>2. n > 2 \/ n = 2 \/ n = 1
      BY ONLY <1>12
    <3> QED
      BY ONLY <1>5, <1>6, <1>8, <3>1, <3>2
  <2>7. scan'.metadata = IF InMetadata' THEN <<2, 0>> ELSE <<>>
    BY <1>9, <2>5, <2>6
  <2> QED
    BY <1>13, <2>2, <2>3, <2>7 DEF DepthsAgree
<1>11. CASE Top.kind = "["
  <2>1. Closing = "]"
    BY <1>11 DEF Closing
  <2>2. scan'.objectDepth = o /\ scan'.arrayDepth = Down(a + 1)
    <3>1. scan.objectDepth = o /\ scan.arrayDepth = a + 1
      <4>1. scan.objectDepth = o + 0 /\ scan.arrayDepth = a + 1
        BY <1>1, <1>9, <1>11
      <4>2. o + 0 = o
        BY ONLY <1>3
      <4> QED
        BY ONLY <4>1, <4>2
    <3> QED
      BY <2>1, <3>1 DEF Moved
  <2>3. Down(a + 1) = a
    BY <1>3 DEF Down
  <2>4. InMetadata' <=> InMetadata
    <3>1. (n = 1 => n <= 2) /\ (n = 2 => n <= 2)
      BY ONLY <1>2
    <3>2. n > 2 \/ n = 2 \/ n = 1
      BY ONLY <1>12
    <3>3. ~(n = 2 /\ InMetadata)
      BY <1>7, <1>11
    <3> QED
      BY ONLY <1>5, <1>6, <1>8, <3>1, <3>2, <3>3
  <2>5. scan'.metadata = scan.metadata
    BY <2>1 DEF Moved
  <2> QED
    BY <1>9, <1>13, <2>2, <2>3, <2>4, <2>5 DEF DepthsAgree
<1> QED
  BY <1>4, <1>10, <1>11

-----------------------------------------------------------------------------
\* The steps.

\* What depends on the open containers alone.
LEMMA SameStack ==
    ASSUME stack' = stack
    PROVE  Top' = Top /\ (InObject' <=> InObject) /\ (Meant' <=> Meant)
BY DEF Top, InObject, Meant

\* Any token, before and after the value is found.
LEMMA PushStep ==
    ASSUME ScanInv, NEW t, Push(t)
    PROVE  /\ scan \in Scanners /\ scan' \in Scanners
           /\ reported = None => scan.found = None /\ DepthsAgree /\ StatesAgree
           /\ reported # None => scan' = scan
<1>1. scan \in Scanners /\ scan' = ProcessToken(scan, t) /\ scan.found = reported
  BY DEF ScanInv, ScanTypeOK, Push
<1>2. scan' \in Scanners
  BY <1>1, PushType
<1>3. reported # None => scan' = scan
  BY <1>1, Pushes
<1> QED
  BY <1>1, <1>2, <1>3 DEF ScanInv, Agrees

\* A token that is neither a digit nor a bracket leaves the depths as they are.
LEMMA OtherMoved ==
    ASSUME NEW s, NEW o, NEW t, Moved(s, o, t), t \notin {"{", "[", "}", "]"}
    PROVE  /\ o.objectDepth = s.objectDepth /\ o.arrayDepth = s.arrayDepth
           /\ o.metadata = s.metadata
BY DEF Moved

Brackets == {"{", "[", "}", "]"}

\* What a token that is passed over leaves.
Keeps(s, o) ==
    /\ o.found = s.found
    /\ o.objectDepth = s.objectDepth /\ o.arrayDepth = s.arrayDepth
    /\ o.metadata = s.metadata

\* processOutside() passes over a token that is no bracket.
LEMMA OutsideKeeps ==
    ASSUME NEW s \in Scanners, NEW t, t \notin Brackets
    PROVE  Keeps(s, Outside(s, t))
<1>1. Moved(s, Outside(s, t), t)
  BY OutsideFields
<1>2. Outside(s, t).found = s.found
  BY OutsideFields
<1> DEFINE o == Outside(s, t)
<1> HIDE DEF o
<1>3. t \notin {"{", "[", "}", "]"} /\ Moved(s, o, t) /\ o.found = s.found
  BY <1>1, <1>2 DEF Brackets, o
<1>4. Keeps(s, o)
  BY <1>3, OtherMoved DEF Keeps
<1> QED
  BY <1>4 DEF o

\* After processOutside() only a string can be a key.
LEMMA OutsideState ==
    ASSUME NEW s \in Scanners, NEW t
    PROVE  Outside(s, t).state = IF t \in Strings THEN "after-key" ELSE "outside"
BY OutsideFields

\* The first digit of the number that is looked for.
LEMMA AfterColonKeeps ==
    ASSUME NEW s \in Scanners, NEW t, Counts(s, t)
    PROVE  /\ Keeps(s, AfterColon(s, t)) /\ AfterColon(s, t).state = "digits"
           /\ AfterColon(s, t).value = Value(t) /\ ~AfterColon(s, t).overflow
<1> DEFINE o == AfterColon(s, t)
<1>1. o.found = s.found
  BY AfterColonFields
<1>2. /\ o.state = "digits" /\ o.value = Value(t) /\ ~o.overflow
      /\ o.objectDepth = s.objectDepth /\ o.arrayDepth = s.arrayDepth
      /\ o.metadata = s.metadata
  BY AfterColonFields
<1> QED
  BY <1>1, <1>2 DEF Keeps

\* A further digit.
LEMMA DigitsKeeps ==
    ASSUME NEW s \in Scanners, NEW t, Digit(t)
    PROVE  /\ Keeps(s, Digits(s, t)) /\ Digits(s, t).state = s.state
           /\ Digits(s, t).overflow
              <=> s.overflow \/ s.value > (MaxSafe - Value(t)) \div 10
           /\ ~Digits(s, t).overflow => Digits(s, t).value = 10 * s.value + Value(t)
<1> DEFINE o == Digits(s, t)
<1>1. /\ o.state = s.state /\ o.found = s.found
      /\ o.objectDepth = s.objectDepth /\ o.arrayDepth = s.arrayDepth
      /\ o.metadata = s.metadata
  BY DigitsFields
<1>2. o.overflow = (s.overflow \/ s.value > (MaxSafe - Value(t)) \div 10)
  BY DigitsFields
<1>3. ~o.overflow => o.value = 10 * s.value + Value(t)
  BY DigitsFields
<1> QED
  BY <1>1, <1>2, <1>3 DEF Keeps

\* White space ends the digits, not the value.
LEMMA DigitsSpace ==
    ASSUME NEW s \in Scanners
    PROVE  /\ Keeps(s, Digits(s, " ")) /\ Digits(s, " ").state = "after-digits"
           /\ Digits(s, " ").overflow = s.overflow /\ Digits(s, " ").value = s.value
<1> DEFINE o == Digits(s, " ")
<1>1. /\ o.state = "after-digits" /\ o.found = s.found
      /\ o.objectDepth = s.objectDepth /\ o.arrayDepth = s.arrayDepth
      /\ o.metadata = s.metadata /\ o.overflow = s.overflow
      /\ o.value = s.value
  BY DigitsFields
<1> QED
  BY <1>1 DEF Keeps

\* A delimiter ends the value.
LEMMA EmitMoves ==
    ASSUME NEW s \in Scanners, NEW t \in Delimiters
    PROVE  /\ Moved(s, EmitValue(s, t), t) /\ EmitValue(s, t).state = "outside"
           /\ EmitValue(s, t).found = IF s.overflow THEN s.found ELSE s.value
BY EmitFields

\* A token that is passed over leaves the depths in agreement.
LEMMA KeepsDepths ==
    ASSUME ScanTypeOK, DepthsAgree, Keeps(scan, scan'), stack' = stack
    PROVE  DepthsAgree'
BY SameDepths DEF Keeps

\* Once what was used is found, nothing changes that.
LEMMA FoundInv ==
    ASSUME ScanInv, reported # None, reported' = reported, scan' = scan,
           ScanTypeOK', Grammar'
    PROVE  ScanInv'
BY DEF ScanInv

\* Until it is found, both sides go on.
LEMMA SearchInv ==
    ASSUME reported' = None, scan'.found = None, ScanTypeOK', Grammar',
           DepthsAgree', StatesAgree'
    PROVE  ScanInv'
BY DEF ScanInv, Agrees

\* What holds of the two sides as long as nothing is found.
LEMMA Searching ==
    ASSUME ScanInv, reported = None, NEW t, Push(t)
    PROVE  /\ scan \in Scanners /\ scan' = ProcessToken(scan, t) /\ scan.found = None
           /\ ScanTypeOK /\ DepthsAgree /\ StatesAgree
BY DEF ScanInv, ScanTypeOK, Push, Agrees

\* White space, wherever the document allows it.
LEMMA SpaceInv == ASSUME ScanInv, Space PROVE ScanInv'
<1>1. /\ scan \in Scanners /\ scan' \in Scanners /\ Push(" ")
      /\ reported # None => scan' = scan
  <2>1. Push(" ")
    BY DEF Space, Whitespace
  <2> QED
    BY <2>1, PushStep
<1>2. /\ stack' = stack /\ number' = number /\ reported' = reported
      /\ ValueEnds => at' = "after"
      /\ ~ValueEnds => at' = at
  BY DEF Space
<1>3. ScanTypeOK'
  BY <1>1, <1>2 DEF ScanInv, ScanTypeOK
<1>4. Top' = Top /\ (InObject' <=> InObject) /\ (Meant' <=> Meant)
  BY <1>2, SameStack
<1>5. Grammar'
  BY <1>2, <1>4 DEF ScanInv, Grammar, ValueEnds
<1>6. CASE reported # None
  BY <1>1, <1>2, <1>3, <1>5, <1>6, FoundInv
<1>7. CASE reported = None
  <2>1. /\ scan \in Scanners /\ scan.found = None /\ scan' = ProcessToken(scan, " ")
        /\ ScanTypeOK /\ DepthsAgree /\ StatesAgree
    BY <1>1, <1>7, Searching
  <2>2. ASSUME scan.state = "outside" PROVE Keeps(scan, scan') /\ scan'.state = "outside"
    <3>1. scan' = Outside(scan, " ")
      BY <2>1, <2>2, Pushes
    <3>2. " " \notin Strings /\ " " \notin Brackets
      BY DEF Strings, Brackets
    <3> QED
      BY <2>1, <3>1, <3>2, OutsideKeeps, OutsideState
  <2>3. ASSUME scan.state = "digits"
        PROVE  /\ Keeps(scan, scan') /\ scan'.state = "after-digits"
               /\ scan'.overflow = scan.overflow /\ scan'.value = scan.value
    <3>1. scan' = Digits(scan, " ")
      BY <2>1, <2>3, Pushes
    <3> QED
      BY <2>1, <3>1, DigitsSpace
  <2>4. scan.state \notin {"outside", "digits"} => scan' = scan
    BY <2>1, Pushes
  <2>5. Keeps(scan, scan')
    BY <2>2, <2>3, <2>4 DEF Keeps
  <2>6. DepthsAgree' /\ scan'.found = None
    BY <1>2, <2>1, <2>5, KeepsDepths DEF Keeps
  <2>7. StatesAgree'
    <3>1. CASE at = "number" /\ Meant
      <4>1. number # None /\ scan.state = "digits" /\ (scan.overflow <=> number > MaxSafe)
            /\ (number <= MaxSafe => scan.value = number)
        BY <2>1, <3>1 DEF StatesAgree, Reads, ScanInv, Grammar
      <4>2. at' = "after"
        BY <1>2, <3>1 DEF ValueEnds
      <4> QED
        BY <1>2, <1>4, <2>3, <3>1, <4>1, <4>2 DEF StatesAgree, Reads
    <3>2. CASE at = "number" /\ ~Meant
      <4>1. scan'.state = "outside" /\ at' = "after"
        BY <1>2, <2>1, <2>2, <3>2 DEF StatesAgree, ValueEnds
      <4> QED
        BY <1>4, <3>2, <4>1 DEF StatesAgree
    <3>3. CASE at = "scalar"
      <4>1. scan'.state = "outside" /\ at' = "after" /\ number' = None
        BY <1>2, <2>1, <2>2, <3>3 DEF StatesAgree, ValueEnds, ScanInv, Grammar
      <4> QED
        BY <4>1 DEF StatesAgree
    <3>4. CASE at = "after" /\ number # None /\ Meant
      <4>1. scan.state = "after-digits" /\ (scan.overflow <=> number > MaxSafe)
            /\ (number <= MaxSafe => scan.value = number)
        BY <2>1, <3>4 DEF StatesAgree, Reads
      <4>2. at' = "after" /\ scan' = scan
        BY <1>2, <2>4, <3>4, <4>1 DEF ValueEnds
      <4> QED
        BY <1>2, <1>4, <3>4, <4>1, <4>2 DEF StatesAgree, Reads
    <3>5. CASE at = "after" /\ ~(number # None /\ Meant)
      <4>1. scan.state \in {"outside", "after-key"} /\ at' = "after"
        BY <1>2, <2>1, <3>5 DEF StatesAgree, ValueEnds
      <4>2. scan'.state \in {"outside", "after-key"}
        BY <2>2, <2>4, <4>1
      <4> QED
        BY <1>2, <1>4, <3>5, <4>1, <4>2 DEF StatesAgree
    <3>6. CASE ~ValueEnds
      <4>1. at' = at /\ number = None /\ number' = None /\ at \notin {"number", "scalar", "after"}
        BY <1>2, <3>6 DEF ValueEnds, ScanInv, Grammar
      <4>2. scan.state = "outside" => scan'.state = "outside"
        BY <2>2
      <4>3. scan.state \in {"after-key", "after-colon"} => scan' = scan
        BY <2>4
      <4> QED
        BY <1>4, <2>1, <4>1, <4>2, <4>3 DEF StatesAgree
    <3> QED
      BY <3>1, <3>2, <3>3, <3>4, <3>5, <3>6 DEF ValueEnds
  <2> QED
    BY <1>2, <1>3, <1>5, <1>7, <2>6, <2>7, SearchInv
<1> QED
  BY <1>6, <1>7

\* The colon after a key.
LEMMA ColonInv == ASSUME ScanInv, Colon PROVE ScanInv'
<1>1. /\ scan \in Scanners /\ scan' \in Scanners /\ Push(":")
      /\ reported # None => scan' = scan
  <2>1. Push(":")
    BY DEF Colon
  <2> QED
    BY <2>1, PushStep
<1>2. /\ at = "colon" /\ at' = "value"
      /\ stack' = stack /\ number' = number /\ reported' = reported
  BY DEF Colon
<1>3. ScanTypeOK'
  BY <1>1, <1>2 DEF ScanInv, ScanTypeOK
<1>4. Top' = Top /\ (InObject' <=> InObject) /\ (Meant' <=> Meant)
  BY <1>2, SameStack
<1>5. InObject /\ number' = None /\ Grammar'
  BY <1>2, <1>4 DEF ScanInv, Grammar
<1>6. CASE reported # None
  BY <1>1, <1>2, <1>3, <1>5, <1>6, FoundInv
<1>7. CASE reported = None
  <2>1. /\ scan \in Scanners /\ scan.found = None /\ scan' = ProcessToken(scan, ":")
        /\ ScanTypeOK /\ DepthsAgree /\ StatesAgree
    BY <1>1, <1>7, Searching
  <2>2. scan.state = "after-key" /\ scan.pendingKey = Top.key
    BY <1>2, <2>1 DEF StatesAgree
  <2>3. scan' = [scan EXCEPT !.state = "after-colon"]
    BY <2>1, <2>2, Pushes
  <2>4. Keeps(scan, scan') /\ scan'.state = "after-colon" /\ scan'.pendingKey = scan.pendingKey
    BY <2>1, <2>3 DEF Scanners, Keeps
  <2>5. DepthsAgree' /\ scan'.found = None
    BY <1>2, <2>1, <2>4, KeepsDepths DEF Keeps
  <2>6. StatesAgree'
    BY <1>2, <1>4, <1>5, <2>2, <2>4 DEF StatesAgree
  <2> QED
    BY <1>2, <1>3, <1>5, <1>7, <2>5, <2>6, SearchInv
<1> QED
  BY <1>6, <1>7

\* A digit is none of the other tokens.
LEMMA NumeralToken ==
    ASSUME NEW n \in 0..9
    PROVE  /\ Numeral(n) \notin Brackets \cup Strings \cup Delimiters \cup {" ", ":"}
           /\ Digit(Numeral(n)) /\ Value(Numeral(n)) = n
<1>1. Numeral(n) \in {"0", "1", "2", "3", "4", "5", "6", "7", "8", "9"}
  BY Numerals10
<1>2. Digit(Numeral(n)) /\ Value(Numeral(n)) = n
  BY Numerals10
<1>3. Numeral(n) \notin Brackets \cup Strings \cup Delimiters \cup {" ", ":"}
  BY <1>1 DEF Brackets, Strings, Delimiters
<1> QED
  BY <1>2, <1>3

\* The key of a field.
LEMMA KeyInv == ASSUME ScanInv, NEW k \in Strings, Key(k) PROVE ScanInv'
<1>1. /\ scan \in Scanners /\ scan' \in Scanners /\ Push(k)
      /\ reported # None => scan' = scan
  <2>1. Push(k)
    BY DEF Key
  <2> QED
    BY <2>1, PushStep
<1>2. /\ at \in {"field", "key"} /\ at' = "colon"
      /\ stack' = [stack EXCEPT ![Len(stack)].key = k]
      /\ number' = number /\ reported' = reported
  BY DEF Key
<1>3. stack \in Seq(Frame) /\ InObject /\ number = None
  BY <1>2 DEF ScanInv, ScanTypeOK, Grammar
<1>4. stack # <<>>
  BY <1>3 DEF InObject
<1>5. stack' \in Seq(Frame)
  BY <1>2, <1>3, <1>4, DepthKey
<1>6. Len(stack') = Len(stack)
  BY <1>2, <1>3, <1>4, DepthKey
<1>7. stack'[Len(stack)] = [kind |-> stack[Len(stack)].kind, key |-> k]
  BY <1>2, <1>3, <1>4, DepthKey
<1>8. InObject' /\ Top'.key = k
  <2>1. Top'.kind = Top.kind /\ Top'.key = k
    BY <1>6, <1>7 DEF Top
  <2>2. stack' # <<>>
    BY <1>3, <1>4, <1>5, <1>6, EmptySeq
  <2> QED
    BY <1>3, <2>1, <2>2 DEF InObject
<1>9. ScanTypeOK' /\ Grammar'
  <2>1. ScanTypeOK'
    BY <1>1, <1>2, <1>5 DEF ScanInv, ScanTypeOK
  <2>2. Grammar'
    BY <1>2, <1>3, <1>8 DEF Grammar
  <2> QED
    BY <2>1, <2>2
<1>10. CASE reported # None
  BY <1>1, <1>2, <1>9, <1>10, FoundInv
<1>11. CASE reported = None
  <2>1. /\ scan \in Scanners /\ scan.found = None /\ scan' = ProcessToken(scan, k)
        /\ ScanTypeOK /\ DepthsAgree /\ StatesAgree
    BY <1>1, <1>11, Searching
  <2>2. scan.state = "outside"
    BY <1>2, <2>1 DEF StatesAgree
  <2>3. scan' = Outside(scan, k)
    BY <2>1, <2>2, Pushes
  <2>4. k \notin Brackets
    BY DEF Strings, Brackets
  <2>5. Keeps(scan, scan') /\ scan'.state = "after-key"
    BY <2>1, <2>3, <2>4, OutsideKeeps, OutsideState
  <2>6. scan'.pendingKey = k
    BY <2>1, <2>3, OutsideFields
  <2>7. DepthsAgree'
    BY <1>2, <1>4, <2>1, <2>5, KeyDepths DEF Keeps
  <2>8. StatesAgree'
    BY <1>2, <1>3, <1>8, <2>5, <2>6 DEF StatesAgree
  <2>9. scan'.found = None
    BY <2>1, <2>5 DEF Keeps
  <2> QED
    BY <1>2, <1>9, <1>11, <2>7, <2>8, <2>9, SearchInv
<1> QED
  BY <1>10, <1>11

\* A string that is a value, not taken for a key.
LEMMA StringInv == ASSUME ScanInv, NEW t \in Strings, String(t) PROVE ScanInv'
<1>1. /\ scan \in Scanners /\ scan' \in Scanners /\ Push(t)
      /\ reported # None => scan' = scan
  <2>1. Push(t)
    BY DEF String
  <2> QED
    BY <2>1, PushStep
<1>2. /\ at \in {"value", "element"} /\ at' = "after"
      /\ stack' = stack /\ number' = number /\ reported' = reported
  BY DEF String, BeginsValue
<1>3. number = None
  BY <1>2 DEF ScanInv, Grammar
<1>4. ScanTypeOK'
  BY <1>1, <1>2 DEF ScanInv, ScanTypeOK
<1>5. Grammar'
  BY <1>2, <1>3 DEF Grammar
<1>6. CASE reported # None
  BY <1>1, <1>2, <1>4, <1>5, <1>6, FoundInv
<1>7. CASE reported = None
  <2>1. /\ scan \in Scanners /\ scan.found = None /\ scan' = ProcessToken(scan, t)
        /\ ScanTypeOK /\ DepthsAgree /\ StatesAgree
    BY <1>1, <1>7, Searching
  <2>2. scan.state \in {"outside", "after-colon"}
    BY <1>2, <2>1 DEF StatesAgree
  <2>3. ~Digit(t) /\ t # " " /\ t # "{" /\ t \notin Brackets
    BY NoDigits DEF Strings, Brackets
  <2>4. scan' = Outside(scan, t)
    <3>1. scan.state = "outside" => scan' = Outside(scan, t)
      BY <2>1, Pushes
    <3>2. scan.state = "after-colon" => scan' = AfterColon(scan, t)
      BY <2>1, <2>3, Pushes
    <3>3. ~Counts(scan, t) /\ ~Enters(scan, t)
      BY <2>3 DEF Counts, Enters
    <3>4. AfterColon(scan, t) = Outside(scan, t)
      BY <2>1, <3>3, AfterColonFields
    <3> QED
      BY <2>2, <3>1, <3>2, <3>4
  <2>5. Keeps(scan, scan') /\ scan'.state = "after-key"
    BY <2>1, <2>3, <2>4, OutsideKeeps, OutsideState
  <2>6. DepthsAgree' /\ scan'.found = None
    BY <1>2, <2>1, <2>5, KeepsDepths DEF Keeps
  <2>7. StatesAgree'
    BY <1>2, <1>3, <2>5 DEF StatesAgree
  <2> QED
    BY <1>2, <1>4, <1>5, <1>7, <2>6, <2>7, SearchInv
<1> QED
  BY <1>6, <1>7

\* A character of a value that is no natural number.
LEMMA OtherCharacterInv == ASSUME ScanInv, OtherCharacter PROVE ScanInv'
<1>1. /\ scan \in Scanners /\ scan' \in Scanners /\ Push("x")
      /\ reported # None => scan' = scan
  <2>1. Push("x")
    BY DEF OtherCharacter
  <2> QED
    BY <2>1, PushStep
<1>2. /\ at \in {"value", "element", "number", "scalar"} /\ at' = "scalar"
      /\ stack' = stack /\ number' = None /\ reported' = reported
  BY DEF OtherCharacter, BeginsValue
<1>3. ScanTypeOK'
  BY <1>1, <1>2 DEF ScanInv, ScanTypeOK
<1>4. Grammar'
  BY <1>2 DEF Grammar
<1>5. CASE reported # None
  BY <1>1, <1>2, <1>3, <1>4, <1>5, FoundInv
<1>6. CASE reported = None
  <2>1. /\ scan \in Scanners /\ scan.found = None /\ scan' = ProcessToken(scan, "x")
        /\ ScanTypeOK /\ DepthsAgree /\ StatesAgree
    BY <1>1, <1>6, Searching
  <2>2. scan.state \in {"outside", "after-colon", "digits"}
    BY <1>2, <2>1 DEF StatesAgree, Reads, ScanInv, Grammar
  <2>3. ~Digit("x") /\ "x" # " " /\ "x" # "{" /\ "x" \notin Brackets \cup Strings \cup Delimiters
    BY NoDigits DEF Strings, Brackets, Delimiters
  <2>4. scan' = Outside(scan, "x")
    <3>1. scan.state = "outside" => scan' = Outside(scan, "x")
      BY <2>1, Pushes
    <3>2. scan.state = "after-colon" => scan' = AfterColon(scan, "x")
      BY <2>1, <2>3, Pushes
    <3>3. ~Counts(scan, "x") /\ ~Enters(scan, "x")
      BY <2>3 DEF Counts, Enters
    <3>4. AfterColon(scan, "x") = Outside(scan, "x")
      BY <2>1, <3>3, AfterColonFields
    <3>5. scan.state = "digits" => scan' = Digits(scan, "x")
      BY <2>1, Pushes
    <3>6. Digits(scan, "x") = Outside(scan, "x")
      BY <2>1, <2>3, DigitsFields
    <3> QED
      BY <2>2, <3>1, <3>2, <3>4, <3>5, <3>6
  <2>5. Keeps(scan, scan') /\ scan'.state = "outside"
    BY <2>1, <2>3, <2>4, OutsideKeeps, OutsideState
  <2>6. DepthsAgree' /\ scan'.found = None
    BY <1>2, <2>1, <2>5, KeepsDepths DEF Keeps
  <2>7. StatesAgree'
    BY <1>2, <2>5 DEF StatesAgree
  <2> QED
    BY <1>2, <1>3, <1>4, <1>6, <2>6, <2>7, SearchInv
<1> QED
  BY <1>5, <1>6

\* A digit of such a value: nothing to be read.
LEMMA OtherDigitInv == ASSUME ScanInv, NEW n \in 0..9, OtherDigit(n) PROVE ScanInv'
<1> DEFINE t == Numeral(n)
<1>1. /\ scan \in Scanners /\ scan' \in Scanners /\ Push(t)
      /\ reported # None => scan' = scan
  <2>1. Push(t)
    BY DEF OtherDigit
  <2> QED
    BY <2>1, PushStep
<1>2. /\ at = "scalar" /\ at' = "scalar"
      /\ stack' = stack /\ number' = number /\ reported' = reported
  BY DEF OtherDigit, textVars
<1>3. number' = None
  BY <1>2 DEF ScanInv, Grammar
<1>4. ScanTypeOK'
  BY <1>1, <1>2 DEF ScanInv, ScanTypeOK
<1>5. Grammar'
  BY <1>2, <1>3 DEF Grammar
<1>6. CASE reported # None
  BY <1>1, <1>2, <1>4, <1>5, <1>6, FoundInv
<1>7. CASE reported = None
  <2>1. /\ scan \in Scanners /\ scan.found = None /\ scan' = ProcessToken(scan, t)
        /\ ScanTypeOK /\ DepthsAgree /\ StatesAgree
    BY <1>1, <1>7, Searching
  <2>2. scan.state = "outside"
    BY <1>2, <2>1 DEF StatesAgree
  <2>3. t \notin Brackets \cup Strings
    BY NumeralToken
  <2> HIDE DEF t
  <2>4. scan' = Outside(scan, t)
    BY <2>1, <2>2, Pushes
  <2>5. Keeps(scan, scan') /\ scan'.state = "outside"
    BY <2>1, <2>3, <2>4, OutsideKeeps, OutsideState
  <2>6. DepthsAgree' /\ scan'.found = None
    BY <1>2, <2>1, <2>5, KeepsDepths DEF Keeps
  <2>7. StatesAgree'
    BY <1>2, <1>3, <2>5 DEF StatesAgree
  <2> QED
    BY <1>2, <1>4, <1>5, <1>7, <2>6, <2>7, SearchInv
<1> QED
  BY <1>6, <1>7

\* The first digit: read exactly where the writer means it.
LEMMA FirstDigitInv == ASSUME ScanInv, NEW n \in 0..9, FirstDigit(n) PROVE ScanInv'
<1> DEFINE t == Numeral(n)
<1>1. /\ scan \in Scanners /\ scan' \in Scanners /\ Push(t)
      /\ reported # None => scan' = scan
  <2>1. Push(t)
    BY DEF FirstDigit
  <2> QED
    BY <2>1, PushStep
<1>2. /\ at \in {"value", "element"} /\ at' = "number"
      /\ stack' = stack /\ number' = n /\ reported' = reported
  BY DEF FirstDigit, BeginsValue
<1>3. n \in Nat /\ n # None /\ n <= MaxSafe
  BY MaxSafeAssumption DEF None
<1>4. ScanTypeOK'
  BY <1>1, <1>2, <1>3 DEF ScanInv, ScanTypeOK
<1>5. Grammar'
  BY <1>2, <1>3 DEF Grammar
<1>6. CASE reported # None
  BY <1>1, <1>2, <1>4, <1>5, <1>6, FoundInv
<1>7. CASE reported = None
  <2>1. /\ scan \in Scanners /\ scan.found = None /\ scan' = ProcessToken(scan, t)
        /\ ScanTypeOK /\ DepthsAgree /\ StatesAgree
    BY <1>1, <1>7, Searching
  <2>2. t \notin Brackets \cup Strings /\ Digit(t) /\ Value(t) = n /\ t # " "
    BY NumeralToken
  <2>3. t # "{"
    BY <2>2 DEF Brackets
  <2> HIDE DEF t
  <2>4. Meant' <=> Meant
    BY <1>2, SameStack
  <2>5. Meant => InObject /\ Top.key = "creditsUsed" /\ scan.metadata = Depths(scan)
    BY <2>1, MeantDepths
  <2>6. InObject /\ Top.key = "creditsUsed" /\ scan.metadata = Depths(scan) => Meant
    BY <2>1, MeantDepths
  <2>7. InObject => at = "value"
    BY <1>2 DEF ScanInv, Grammar, InObject
  <2>8. CASE Meant
    <3>1. scan.state = "after-colon" /\ scan.pendingKey = Top.key
      BY <2>1, <2>5, <2>7, <2>8 DEF StatesAgree
    <3>2. Counts(scan, t)
      BY <2>2, <2>5, <2>8, <3>1 DEF Counts
    <3>3. scan' = AfterColon(scan, t)
      BY <2>1, <2>2, <3>1, Pushes
    <3>4. /\ Keeps(scan, scan') /\ scan'.state = "digits"
          /\ scan'.value = n /\ ~scan'.overflow
      BY <2>1, <2>2, <3>2, <3>3, AfterColonKeeps
    <3>5. DepthsAgree' /\ scan'.found = None
      BY <1>2, <2>1, <3>4, KeepsDepths DEF Keeps
    <3>6. ~(number' > MaxSafe)
      BY <1>2, <1>3, MaxSafeAssumption
    <3>7. StatesAgree'
      BY <1>2, <2>4, <2>8, <3>4, <3>6 DEF StatesAgree, Reads
    <3> QED
      BY <1>2, <1>4, <1>5, <1>7, <3>5, <3>7, SearchInv
  <2>9. CASE ~Meant
    <3>1. scan.state = "outside" \/ (scan.state = "after-colon" /\ scan.pendingKey = Top.key /\ InObject)
      BY <1>2, <2>1 DEF StatesAgree
    <3>2. scan' = Outside(scan, t)
      <4>1. CASE scan.state = "outside"
        BY <2>1, <4>1, Pushes
      <4>2. CASE scan.state = "after-colon" /\ scan.pendingKey = Top.key /\ InObject
        <5>1. ~Counts(scan, t) /\ ~Enters(scan, t)
          BY <2>3, <2>6, <2>9, <4>2 DEF Counts, Enters
        <5>2. scan' = AfterColon(scan, t)
          BY <2>1, <2>2, <4>2, Pushes
        <5> QED
          BY <2>1, <5>1, <5>2, AfterColonFields
      <4> QED
        BY <3>1, <4>1, <4>2
    <3>3. Keeps(scan, scan') /\ scan'.state = "outside"
      BY <2>1, <2>2, <3>2, OutsideKeeps, OutsideState
    <3>4. DepthsAgree' /\ scan'.found = None
      BY <1>2, <2>1, <3>3, KeepsDepths DEF Keeps
    <3>5. StatesAgree'
      BY <1>2, <2>4, <2>9, <3>3 DEF StatesAgree
    <3> QED
      BY <1>2, <1>4, <1>5, <1>7, <3>4, <3>5, SearchInv
  <2> QED
    BY <2>8, <2>9
<1> QED
  BY <1>6, <1>7

\* With one more digit the number is too large exactly when the scanner says so.
LEMMA OverflowsExactly ==
    ASSUME NEW v \in Nat, NEW n \in 0..9
    PROVE  v > (MaxSafe - n) \div 10 <=> 10 * v + n > MaxSafe
<1> DEFINE q == (MaxSafe - n) \div 10
           r == (MaxSafe - n) % 10
<1>1. MaxSafe - n \in Nat
  BY MaxSafeAssumption
<1>2. MaxSafe - n = 10 * q + r /\ r \in 0..9 /\ q \in Nat
  BY <1>1
<1> HIDE DEF q, r
<1>3. v > q <=> 10 * v > 10 * q + r
  BY <1>2
<1>4. v > q <=> 10 * v + n > MaxSafe
  BY <1>2, <1>3, MaxSafeAssumption
<1> QED
  BY <1>4 DEF q

\* A further digit of a natural number.
LEMMA NextDigitInv == ASSUME ScanInv, NEW n \in 0..9, NextDigit(n) PROVE ScanInv'
<1> DEFINE t == Numeral(n)
<1>1. /\ scan \in Scanners /\ scan' \in Scanners /\ Push(t)
      /\ reported # None => scan' = scan
  <2>1. Push(t)
    BY DEF NextDigit
  <2> QED
    BY <2>1, PushStep
<1>2. /\ at = "number" /\ at' = "number"
      /\ stack' = stack /\ number' = 10 * number + n /\ reported' = reported
  BY DEF NextDigit
<1>3. number \in Nat /\ number # None
  BY <1>2 DEF ScanInv, ScanTypeOK, Grammar
<1>4. number' \in Nat /\ number' # None
  BY <1>2, <1>3 DEF None
<1>5. ScanTypeOK'
  BY <1>1, <1>2, <1>4 DEF ScanInv, ScanTypeOK
<1>6. Grammar'
  BY <1>2, <1>4 DEF Grammar
<1>7. CASE reported # None
  BY <1>1, <1>2, <1>5, <1>6, <1>7, FoundInv
<1>8. CASE reported = None
  <2>1. /\ scan \in Scanners /\ scan.found = None /\ scan' = ProcessToken(scan, t)
        /\ ScanTypeOK /\ DepthsAgree /\ StatesAgree
    BY <1>1, <1>8, Searching
  <2>2. t \notin Brackets \cup Strings /\ Digit(t) /\ Value(t) = n
    BY NumeralToken
  <2> HIDE DEF t
  <2>3. Meant' <=> Meant
    BY <1>2, SameStack
  <2>4. CASE Meant
    <3>1. /\ scan.state = "digits" /\ (scan.overflow <=> number > MaxSafe)
          /\ number <= MaxSafe => scan.value = number
      BY <1>2, <1>3, <2>1, <2>4 DEF StatesAgree, Reads
    <3>2. scan' = Digits(scan, t)
      BY <2>1, <3>1, Pushes
    <3>3. /\ Keeps(scan, scan') /\ scan'.state = scan.state
          /\ scan'.overflow <=> scan.overflow \/ scan.value > (MaxSafe - n) \div 10
          /\ ~scan'.overflow => scan'.value = 10 * scan.value + n
      BY <2>1, <2>2, <3>2, DigitsKeeps
    <3>4. DepthsAgree' /\ scan'.found = None
      BY <1>2, <2>1, <3>3, KeepsDepths DEF Keeps
    <3>5. scan'.overflow <=> number' > MaxSafe
      <4>1. number > MaxSafe => number' > MaxSafe
        BY <1>2, <1>3, MaxSafeAssumption
      <4>2. number > MaxSafe \/ number <= MaxSafe
        BY <1>3, MaxSafeAssumption
      <4>3. scan.value = number =>
              (scan.value > (MaxSafe - n) \div 10 <=> number' > MaxSafe)
        BY <1>2, <1>3, OverflowsExactly
      <4>4. number <= MaxSafe => ~(number > MaxSafe)
        BY <1>3, MaxSafeAssumption
      <4> QED
        BY <3>1, <3>3, <4>1, <4>2, <4>3, <4>4
    <3>6. number' <= MaxSafe => scan'.value = number'
      <4>1. number' <= MaxSafe => number <= MaxSafe /\ ~(number' > MaxSafe)
        BY <1>2, <1>3, MaxSafeAssumption
      <4> QED
        BY <1>2, <3>1, <3>3, <3>5, <4>1
    <3>7. StatesAgree'
      BY <1>2, <2>3, <2>4, <3>1, <3>3, <3>5, <3>6 DEF StatesAgree, Reads
    <3> QED
      BY <1>2, <1>5, <1>6, <1>8, <3>4, <3>7, SearchInv
  <2>5. CASE ~Meant
    <3>1. scan.state = "outside"
      BY <1>2, <2>1, <2>5 DEF StatesAgree
    <3>2. scan' = Outside(scan, t)
      BY <2>1, <3>1, Pushes
    <3>3. Keeps(scan, scan') /\ scan'.state = "outside"
      BY <2>1, <2>2, <3>2, OutsideKeeps, OutsideState
    <3>4. DepthsAgree' /\ scan'.found = None
      BY <1>2, <2>1, <3>3, KeepsDepths DEF Keeps
    <3>5. StatesAgree'
      BY <1>2, <2>3, <2>5, <3>3 DEF StatesAgree
    <3> QED
      BY <1>2, <1>5, <1>6, <1>8, <3>4, <3>5, SearchInv
  <2> QED
    BY <2>4, <2>5
<1> QED
  BY <1>7, <1>8

\* An object or an array that opens as a value.
LEMMA OpenInv == ASSUME ScanInv, NEW kind \in Containers, Open(kind) PROVE ScanInv'
<1> DEFINE f == [kind |-> kind, key |-> ""]
<1>1. /\ scan \in Scanners /\ scan' \in Scanners /\ Push(kind)
      /\ reported # None => scan' = scan
  <2>1. Push(kind)
    BY DEF Open
  <2> QED
    BY <2>1, PushStep
<1>2. /\ at \in {"value", "element"} /\ stack' = Append(stack, f)
      /\ kind = "{" => at' = "field"
      /\ kind # "{" => at' = "element"
      /\ number' = number /\ reported' = reported
  BY DEF Open, BeginsValue
<1>3. stack \in Seq(Frame) /\ number' = None
  BY <1>2 DEF ScanInv, ScanTypeOK, Grammar
<1>4. f \in Frame /\ f.kind = kind /\ kind \in {"{", "["}
  BY DEF Frame, Containers
<1> HIDE DEF f
<1>5. /\ stack' \in Seq(Frame) /\ stack' # <<>> /\ Top' = f
  <2>1. Append(stack, f) \in Seq(Frame) /\ Len(Append(stack, f)) = Len(stack) + 1
        /\ Append(stack, f)[Len(stack) + 1] = f
    BY <1>3, <1>4, AppendProperties
  <2>2. Append(stack, f) # <<>>
    <3>1. Len(stack) \in Nat
      BY <1>3, LenProperties
    <3>2. Len(Append(stack, f)) # 0
      BY <2>1, <3>1
    <3> QED
      BY <3>2
  <2> QED
    BY <1>2, <2>1, <2>2 DEF Top
<1>6. ScanTypeOK'
  BY <1>1, <1>2, <1>4, <1>5 DEF ScanInv, ScanTypeOK
<1>7. InObject' <=> kind = "{"
  BY <1>4, <1>5 DEF InObject
<1>8. Grammar'
  BY <1>2, <1>3, <1>4, <1>5, <1>7 DEF Grammar
<1>9. CASE reported # None
  BY <1>1, <1>2, <1>6, <1>8, <1>9, FoundInv
<1>10. CASE reported = None
  <2>1. /\ scan \in Scanners /\ scan.found = None /\ scan' = ProcessToken(scan, kind)
        /\ ScanTypeOK /\ DepthsAgree /\ StatesAgree
    BY <1>1, <1>10, Searching
  <2>2. ~Digit(kind) /\ kind \notin Strings /\ kind # " " /\ kind \notin {"}", "]"}
    BY <1>4, NoDigits DEF Strings
  <2>3. \/ scan.state = "outside" /\ ~InObject
        \/ scan.state = "after-colon" /\ scan.pendingKey = Top.key /\ InObject
    <3>1. at = "element" => ~InObject /\ scan.state = "outside"
      <4>1. at = "element" => Top.kind = "["
        BY DEF ScanInv, Grammar
      <4>2. at = "element" => ~InObject
        BY <4>1 DEF InObject
      <4> QED
        BY <2>1, <4>2 DEF StatesAgree
    <3>2. at = "value" /\ ~InObject => scan.state = "outside"
      BY <2>1 DEF StatesAgree
    <3>3. at = "value" /\ InObject => scan.state = "after-colon" /\ scan.pendingKey = Top.key
      BY <2>1 DEF StatesAgree
    <3> QED
      BY <1>2, <3>1, <3>2, <3>3
  <2> DEFINE Enter == /\ kind = "{" /\ Len(stack) = 1
                      /\ stack[1] = [kind |-> "{", key |-> "metadata"]
  <2>4. InObject => (Top.key = "metadata" /\ Depths(scan) = <<1, 0>>
                     <=> /\ Len(stack) = 1
                         /\ stack[1] = [kind |-> "{", key |-> "metadata"])
    BY <2>1, MeantDepths
  <2>5. ~InObject => ~Enter
    <3>1. ASSUME Enter PROVE InObject
      <4>3. Len(stack) = 1 /\ stack[1] = [kind |-> "{", key |-> "metadata"]
        BY <3>1
      <4>4. [kind |-> "{", key |-> "metadata"].kind = "{"
        OBVIOUS
      <4>5. stack[1].kind = "{"
        BY ONLY <4>3, <4>4
      <4>6. Top = stack[1]
        BY ONLY <4>3 DEF Top
      <4>1. Top.kind = "{"
        BY ONLY <4>5, <4>6
      <4>2. stack # <<>>
        <5>1. Len(stack) = 1
          BY ONLY <4>3
        <5>2. Len(<<>>) = 0
          OBVIOUS
        <5> QED
          BY ONLY <5>1, <5>2
      <4> QED
        BY <4>1, <4>2 DEF InObject
    <3> QED
      BY <3>1
  <2>6. Moved(scan, Outside(scan, kind), kind)
    BY <2>1, OutsideFields
  <2>7. Outside(scan, kind).state = "outside"
    BY <2>1, <2>2, OutsideState
  <2>8. Outside(scan, kind).found = scan.found
    BY <2>1, OutsideFields
  <2> DEFINE q == Outside(scan, kind)
  <2> HIDE DEF q
  <2>9. /\ q.state = "outside" /\ q.found = None
        /\ q.objectDepth = scan.objectDepth + IF kind = "{" THEN 1 ELSE 0
        /\ q.arrayDepth = scan.arrayDepth + IF kind = "[" THEN 1 ELSE 0
        /\ q.metadata = scan.metadata
    <3>1. Moved(scan, q, kind) /\ q.state = "outside" /\ q.found = None
      BY <2>1, <2>6, <2>7, <2>8 DEF q
    <3>2. scan.objectDepth \in Nat /\ scan.arrayDepth \in Nat
      BY <2>1 DEF Scanners
    <3>3. q.metadata = scan.metadata
      BY <2>2, <3>1 DEF Moved
    <3>4. q.objectDepth = IF kind = "{" THEN scan.objectDepth + 1 ELSE scan.objectDepth
      BY <2>2, <3>1 DEF Moved
    <3>5. q.arrayDepth = IF kind = "[" THEN scan.arrayDepth + 1 ELSE scan.arrayDepth
      BY <2>2, <3>1 DEF Moved
    <3>6. scan.objectDepth + 0 = scan.objectDepth /\ scan.arrayDepth + 0 = scan.arrayDepth
      BY <3>2
    <3>7. q.objectDepth = scan.objectDepth + IF kind = "{" THEN 1 ELSE 0
      BY <3>4, <3>6
    <3>8. q.arrayDepth = scan.arrayDepth + IF kind = "[" THEN 1 ELSE 0
      BY <3>5, <3>6
    <3> QED
      BY <3>1, <3>3, <3>7, <3>8
  <2>10. /\ scan'.found = None /\ scan'.state = "outside"
         /\ scan'.objectDepth = scan.objectDepth + IF kind = "{" THEN 1 ELSE 0
         /\ scan'.arrayDepth = scan.arrayDepth + IF kind = "[" THEN 1 ELSE 0
         /\ scan'.metadata = IF Enter THEN <<2, 0>> ELSE scan.metadata
    <3>1. CASE scan.state = "outside" /\ ~InObject
      <4>1. scan' = q
        BY <2>1, <3>1, Pushes DEF q
      <4>2. ~Enter
        BY <2>5, <3>1
      <4> HIDE DEF Enter
      <4> QED
        BY <2>9, <4>1, <4>2
    <3>2. CASE scan.state = "after-colon" /\ scan.pendingKey = Top.key /\ InObject
      <4>1. scan' = AfterColon(scan, kind)
        BY <2>1, <2>2, <3>2, Pushes
      <4>2. ~Counts(scan, kind)
        BY <2>2 DEF Counts
      <4>3. Enters(scan, kind) <=> Enter
        BY <2>4, <3>2 DEF Enters
      <4> HIDE DEF Enter
      <4>4. CASE Enter
        <5>1. scan'.found = scan.found
          BY <2>1, <4>1, AfterColonFields
        <5>2. Enters(scan, kind)
          BY <4>3, <4>4
        <5>3. /\ scan'.state = "outside" /\ scan'.metadata = <<2, 0>>
              /\ scan'.objectDepth = scan.objectDepth + 1
              /\ scan'.arrayDepth = scan.arrayDepth
          BY <2>1, <4>1, <5>2, AfterColonFields
        <5>4. kind = "{"
          BY <5>2 DEF Enters
        <5>5. scan.arrayDepth + 0 = scan.arrayDepth
          <6>1. scan.arrayDepth \in Nat
            BY <2>1 DEF Scanners
          <6> QED
            BY <6>1
        <5> QED
          BY <2>1, <4>4, <5>1, <5>3, <5>4, <5>5
      <4>5. CASE ~Enter
        <5>1. scan' = q
          BY <2>1, <4>1, <4>2, <4>3, <4>5, AfterColonFields DEF q
        <5> QED
          BY <2>9, <4>5, <5>1
      <4> QED
        BY <4>4, <4>5
    <3> QED
      BY <2>3, <3>1, <3>2
  <2>11. DepthsAgree'
    BY <1>2, <2>1, <2>10, OpenDepths DEF f
  <2>12. StatesAgree'
    BY <1>2, <1>3, <1>4, <2>10 DEF StatesAgree
  <2> QED
    BY <1>2, <1>6, <1>8, <1>10, <2>10, <2>11, <2>12, SearchInv
<1> QED
  BY <1>9, <1>10

\* At the end of a value both sides settle it alike.
LEMMA EndsAlike ==
    ASSUME ScanInv, reported = None, NEW t \in Delimiters, Push(t), EndValue,
           ValueEnds \/ at \in {"field", "element"}
    PROVE  /\ scan'.found = reported'
           /\ scan'.state = "outside" /\ Moved(scan, scan', t)
<1>1. /\ scan \in Scanners /\ scan.found = None /\ scan' = ProcessToken(scan, t)
      /\ ScanTypeOK /\ DepthsAgree /\ StatesAgree /\ Grammar
  BY Searching DEF ScanInv
<1>2. t \notin Strings /\ t # " " /\ t # ":"
  BY DEF Delimiters, Strings
<1>3. reported' = IF Meant /\ number \in 0..MaxSafe THEN number ELSE None
  BY DEF EndValue
<1>4. CASE number # None /\ Meant
  <2>1. /\ scan.state \in {"digits", "after-digits"}
        /\ (scan.overflow <=> number > MaxSafe)
        /\ (number <= MaxSafe => scan.value = number)
    BY <1>1, <1>4 DEF StatesAgree, Reads
  <2>2. scan' = EmitValue(scan, t)
    <3>1. scan.state = "digits" => scan' = Digits(scan, t)
      BY <1>1, Pushes
    <3>2. Digits(scan, t) = EmitValue(scan, t)
      BY <1>1, DigitsFields
    <3>3. scan.state = "after-digits" => scan' = EmitValue(scan, t)
      BY <1>1, Pushes
    <3> QED
      BY <2>1, <3>1, <3>2, <3>3
  <2>3. /\ Moved(scan, scan', t) /\ scan'.state = "outside"
        /\ scan'.found = IF scan.overflow THEN None ELSE scan.value
    BY <1>1, <2>2, EmitMoves
  <2>4. number \in Nat /\ (number \in 0..MaxSafe <=> ~(number > MaxSafe))
        /\ (number <= MaxSafe <=> ~(number > MaxSafe))
    BY <1>1, <1>4, MaxSafeAssumption DEF ScanTypeOK
  <2> QED
    BY <1>3, <1>4, <2>1, <2>3, <2>4
<1>5. CASE ~(number # None /\ Meant)
  <2>1. scan.state \in {"outside", "after-key"}
    BY <1>1, <1>5 DEF StatesAgree, ValueEnds, Grammar
  <2>2. scan' = Outside(scan, t)
    <3>1. scan.state = "outside" => scan' = Outside(scan, t)
      BY <1>1, Pushes
    <3>2. scan.state = "after-key" => scan' = Outside(scan, t)
      BY <1>1, <1>2, Pushes
    <3> QED
      BY <2>1, <3>1, <3>2
  <2>3. scan'.state = "outside"
    BY <1>1, <1>2, <2>2, OutsideState
  <2>4. scan'.found = None
    <3>1. Outside(scan, t).found = scan.found
      BY <1>1, OutsideFields
    <3> QED
      BY <1>1, <2>2, <3>1
  <2>5. Moved(scan, scan', t)
    BY <1>1, <2>2, OutsideFields
  <2>6. None \notin 0..MaxSafe
    BY DEF None
  <2> QED
    BY <1>3, <1>5, <2>3, <2>4, <2>5, <2>6
<1> QED
  BY <1>4, <1>5

\* Ending a value keeps the writer's side in its types.
LEMMA EndType ==
    ASSUME ScanInv, EndValue
    PROVE  /\ number' = None /\ reported' \in Nat \cup {None}
           /\ reported # None => reported' = reported
BY DEF ScanInv, ScanTypeOK, EndValue

\* The end of an object or an array, and of the value before it.
LEMMA CloseInv == ASSUME ScanInv, Close PROVE ScanInv'
<1>1. /\ stack # <<>>
      /\ ValueEnds \/ at \in {"field", "element"}
      /\ stack' = Rest /\ at' = "after" /\ EndValue /\ Push(Closing)
  BY DEF Close
<1>2. Closing \in Delimiters
  BY DEF Closing, Delimiters
<1>3. /\ scan \in Scanners /\ scan' \in Scanners
      /\ reported # None => scan' = scan
  BY <1>1, PushStep
<1>4. /\ number' = None /\ reported' \in Nat \cup {None}
      /\ reported # None => reported' = reported
  BY <1>1, EndType
<1>5. stack' \in Seq(Frame)
  <2>1. stack \in Seq(Frame) /\ stack' = SubSeq(stack, 1, Len(stack) - 1)
    BY <1>1 DEF ScanInv, ScanTypeOK, Rest
  <2> QED
    BY <1>1, <2>1, DepthPopped
<1>6. ScanTypeOK'
  BY <1>1, <1>3, <1>4, <1>5 DEF ScanTypeOK
<1>7. Grammar'
  BY <1>1, <1>4 DEF Grammar
<1>8. CASE reported # None
  BY <1>3, <1>4, <1>6, <1>7, <1>8, FoundInv
<1>9. CASE reported = None
  <2>1. /\ scan'.found = reported'
        /\ scan'.state = "outside" /\ Moved(scan, scan', Closing)
    BY <1>1, <1>2, <1>9, EndsAlike
  <2>2. ScanTypeOK /\ DepthsAgree
    BY <1>1, <1>9, Searching
  <2>3. DepthsAgree'
    BY <1>1, <2>1, <2>2, CloseDepths
  <2>4. StatesAgree'
    BY <1>1, <1>4, <2>1 DEF StatesAgree
  <2> QED
    BY <1>6, <1>7, <2>1, <2>3, <2>4 DEF ScanInv, Agrees
<1> QED
  BY <1>8, <1>9

\* The end of a value before the next one.
LEMMA CommaInv == ASSUME ScanInv, Comma PROVE ScanInv'
<1>1. /\ stack # <<>> /\ ValueEnds
      /\ Top.kind = "{" => at' = "key"
      /\ Top.kind # "{" => at' = "value"
      /\ stack' = stack /\ EndValue /\ Push(",")
  BY DEF Comma
<1>2. "," \in Delimiters /\ "," \notin {"{", "[", "}", "]"}
  BY DEF Delimiters
<1>3. /\ scan \in Scanners /\ scan' \in Scanners
      /\ reported # None => scan' = scan
  BY <1>1, PushStep
<1>4. /\ number' = None /\ reported' \in Nat \cup {None}
      /\ reported # None => reported' = reported
  BY <1>1, EndType
<1>5. ScanTypeOK'
  BY <1>1, <1>3, <1>4 DEF ScanInv, ScanTypeOK
<1>6. Top' = Top /\ (InObject' <=> InObject) /\ (Meant' <=> Meant)
  BY <1>1, SameStack
<1>7. \/ at' = "key" /\ InObject'
      \/ at' = "value" /\ ~InObject'
  <2>1. InObject <=> Top.kind = "{"
    BY <1>1 DEF InObject
  <2> QED
    BY <1>1, <1>6, <2>1
<1>8. Grammar'
  BY <1>4, <1>7 DEF Grammar
<1>9. CASE reported # None
  BY <1>3, <1>4, <1>5, <1>8, <1>9, FoundInv
<1>10. CASE reported = None
  <2>1. /\ scan'.found = reported'
        /\ scan'.state = "outside" /\ Moved(scan, scan', ",")
    BY <1>1, <1>2, <1>10, EndsAlike
  <2>2. ScanTypeOK /\ DepthsAgree
    BY <1>1, <1>10, Searching
  <2>3. DepthsAgree'
    BY <1>1, <1>2, <2>1, <2>2, OtherMoved, SameDepths
  <2>4. StatesAgree'
    BY <1>4, <1>7, <2>1 DEF StatesAgree
  <2> QED
    BY <1>5, <1>8, <2>1, <2>3, <2>4 DEF ScanInv, Agrees
<1> QED
  BY <1>9, <1>10

\* Before the first token.
LEMMA ScanInitInv == ScanInit => ScanInv
<1> SUFFICES ASSUME ScanInit PROVE ScanInv
  OBVIOUS
<1>1. /\ stack = <<>> /\ at = "value" /\ number = None /\ reported = None /\ scan = Start
  BY DEF ScanInit
<1>2. Start \in Scanners /\ scan.found = None /\ scan.state = "outside"
      /\ scan.objectDepth = 0 /\ scan.arrayDepth = 0 /\ scan.metadata = <<>>
  BY <1>1 DEF Start, Scanners, None
<1>3. stack \in Seq(Frame) /\ DOMAIN stack = {} /\ Len(stack) = 0
  BY <1>1
<1>4. ScanTypeOK
  BY <1>1, <1>2, <1>3 DEF ScanTypeOK
<1>5. ~InObject /\ ~InMetadata
  BY <1>1, <1>3 DEF InObject, InMetadata
<1>6. Grammar
  BY <1>1 DEF Grammar
<1>7. Objects(stack) = {} /\ Arrays(stack) = {}
  BY <1>3 DEF Objects, Arrays
<1>8. DepthsAgree
  BY <1>2, <1>5, <1>7, FS_EmptySet DEF DepthsAgree
<1>9. StatesAgree
  BY <1>1, <1>2, <1>5 DEF StatesAgree
<1> QED
  BY <1>1, <1>2, <1>4, <1>6, <1>8, <1>9 DEF ScanInv, Agrees

\* The invariant is inductive.
LEMMA ScanNextInv == ScanInv /\ [ScanNext]_<<textVars, scan>> => ScanInv'
<1> SUFFICES ASSUME ScanInv, [ScanNext]_<<textVars, scan>> PROVE ScanInv'
  OBVIOUS
<1>1. CASE Space
  BY <1>1, SpaceInv
<1>2. CASE Close
  BY <1>2, CloseInv
<1>3. CASE Comma
  BY <1>3, CommaInv
<1>4. CASE Colon
  BY <1>4, ColonInv
<1>5. CASE OtherCharacter
  BY <1>5, OtherCharacterInv
<1>6. ASSUME NEW kind \in Containers, Open(kind) PROVE ScanInv'
  BY <1>6, OpenInv
<1>7. ASSUME NEW t \in Strings, Key(t) PROVE ScanInv'
  BY <1>7, KeyInv
<1>8. ASSUME NEW t \in Strings, String(t) PROVE ScanInv'
  BY <1>8, StringInv
<1>9. \A n \in Numerals : n \in 0..9
  BY NumeralsAssumption
<1>10. ASSUME NEW n \in Numerals, FirstDigit(n) PROVE ScanInv'
  BY <1>9, <1>10, FirstDigitInv
<1>11. ASSUME NEW n \in Numerals, NextDigit(n) PROVE ScanInv'
  BY <1>9, <1>11, NextDigitInv
<1>12. ASSUME NEW n \in Numerals, OtherDigit(n) PROVE ScanInv'
  BY <1>9, <1>12, OtherDigitInv
<1>13. CASE UNCHANGED <<textVars, scan>>
  <2>1. /\ stack' = stack /\ at' = at /\ number' = number /\ reported' = reported
        /\ scan' = scan
    BY <1>13 DEF textVars
  <2>2. Top' = Top /\ (InObject' <=> InObject) /\ (Meant' <=> Meant)
    BY <2>1, SameStack
  <2>3. ScanTypeOK' /\ Grammar'
    BY <2>1, <2>2 DEF ScanInv, ScanTypeOK, Grammar
  <2>4. CASE reported # None
    BY <2>1, <2>3, <2>4, FoundInv
  <2>5. CASE reported = None
    <3>1. ScanTypeOK /\ DepthsAgree /\ StatesAgree /\ scan.found = None
      BY <2>5 DEF ScanInv, Agrees
    <3>2. DepthsAgree'
      BY <2>1, <3>1, SameDepths
    <3>3. StatesAgree'
      BY <2>1, <2>2, <3>1 DEF StatesAgree, Reads
    <3> QED
      BY <2>1, <2>3, <2>5, <3>1, <3>2, <3>3, SearchInv
  <2> QED
    BY <2>4, <2>5
<1> QED
  BY <1>1, <1>2, <1>3, <1>4, <1>5, <1>6, <1>7, <1>8, <1>10, <1>11, <1>12, <1>13 DEF ScanNext

\* The invariant of writer and scanner, in a document of any depth.
THEOREM ScanInvariant == ScanSpec => []ScanInv
BY ScanInitInv, ScanNextInv, PTL DEF ScanSpec

\* What an answer is said to have used is what the request itself used, wherever
\* the answer is cut into chunks and whatever else it holds.
THEOREM SettlesReportedUseHolds == ScanSpec => []SettlesReportedUse
<1>1. ScanInv => SettlesReportedUse
  BY DEF ScanInv, SettlesReportedUse
<1> QED
  BY <1>1, ScanInvariant, PTL
=============================================================================

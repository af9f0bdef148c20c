------------------------- MODULE MCRateLimitCounter -------------------------
(***************************************************************************)
(* RateLimitCounter on an instance that shares the row with others, for    *)
(* two of its uses: a limit per minute, whose windows end and whose bucket *)
(* may be evicted, and a monthly quota within one month.                   *)
(***************************************************************************)
EXTENDS RateLimitCounter

VARIABLE use

Quota == INSTANCE RateLimitCounter WITH Pinned <- TRUE, Crowded <- FALSE

MCInit == Init /\ use \in {"limit", "quota"}

MCNext ==
    /\ UNCHANGED use
    /\ \/ use = "limit" /\ Next
       \/ use = "quota" /\ Quota!Next /\ row'.over = (row'.window = 0)

\* What the properties of the quota need; a limit needs no step to be taken.
MCFairness == use = "quota" => Quota!Fairness

MCSpec == MCInit /\ [][MCNext]_<<vars, use>> /\ MCFairness

\* A limit alone, with the fairness its code justifies.
MCLimitSpec ==
    MCInit /\ use = "limit" /\ [][Next /\ UNCHANGED use]_<<vars, use>> /\ Fairness

\* A hit on a monthly quota reaches PostgreSQL without another request, however
\* often a flush fails, unless the month ends or the instance stops.
QuotaUsagePersisted == use = "quota" => IdleUsagePersisted
=============================================================================

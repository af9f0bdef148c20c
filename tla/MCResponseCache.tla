--------------------------- MODULE MCResponseCache ---------------------------
(***************************************************************************)
(* The two readers of a streamed Cloud answer, one of them at a time: the  *)
(* scanner of what it cost, and a small cache.                             *)
(***************************************************************************)
EXTENDS ResponseCache, CreditsUsed

VARIABLE reader

AnswerInit ==
    /\ CacheInit /\ ScanInit
    /\ reader \in {"scanner", "cache"}
    /\ reader = "scanner" => setting = 0      \* any lifetime will do

AnswerNext ==
    /\ UNCHANGED reader
    /\ \/ reader = "scanner" /\ ScanNext /\ UNCHANGED requestVars
       \/ reader = "cache" /\ CacheNext /\ UNCHANGED <<textVars, scan>>

\* What the properties of the cache need; of an answer nothing more need come.
AnswerFairness == reader = "cache" => CacheFairness

AnswerSpec ==
    AnswerInit /\ [][AnswerNext]_<<requestVars, textVars, scan, reader>> /\ AnswerFairness
=============================================================================

--------------------------- MODULE MCAlertService ---------------------------
(***************************************************************************)
(* AlertService with two audiences.  The reminder comes late enough for a  *)
(* problem to come back after a RESOLVED and before it.  With one request  *)
(* a minute at most, one that does not fall back has the effect of none,   *)
(* and is left out.                                                        *)
(***************************************************************************)
EXTENDS AlertService

MCNext == Next /\ ~ObserveRequest(FALSE)

MCSpec == Init /\ [][MCNext]_vars /\ Fairness
=============================================================================

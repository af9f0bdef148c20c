----------------------------- MODULE MCSettings -----------------------------
(***************************************************************************)
(* Settings with the keys and one other setting, which proxied requests    *)
(* read together.                                                          *)
(***************************************************************************)
EXTENDS Settings

CONSTANTS keys, ttl

MCUpdates == {<<keys>>, <<ttl, keys>>}
=============================================================================

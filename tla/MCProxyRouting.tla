--------------------------- MODULE MCProxyRouting ---------------------------
(***************************************************************************)
(* ProxyRouting with a few keys: interchangeable, since every assignment   *)
(* of roles to keys is an initial state.                                   *)
(***************************************************************************)
EXTENDS ProxyRouting
=============================================================================

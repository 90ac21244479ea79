-------------------------- MODULE MCProxyExchanges --------------------------
(* Three connections and two secrets, one of which a pattern detects. *)
EXTENDS ProxyExchanges
=============================================================================

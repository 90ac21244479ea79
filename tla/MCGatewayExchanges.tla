------------------------- MODULE MCGatewayExchanges -------------------------
(***************************************************************************)
(* Two connections, one secret that a pattern detects and one that it does *)
(* not; every kind of request, with and without a configured credential.   *)
(***************************************************************************)
EXTENDS GatewayExchanges
=============================================================================

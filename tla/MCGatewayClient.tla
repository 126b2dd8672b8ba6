--------------------------- MODULE MCGatewayClient ---------------------------
(* Small instances of GatewayClient. *)
EXTENDS GatewayClient

CONSTANTS c1, c2, a1
=============================================================================

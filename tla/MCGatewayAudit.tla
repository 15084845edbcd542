--------------------------- MODULE MCGatewayAudit ---------------------------
(* Instances of GatewayAudit for TLC. *)
EXTENDS GatewayAudit
=============================================================================

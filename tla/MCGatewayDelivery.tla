------------------------- MODULE MCGatewayDelivery --------------------------
(* Small instances of GatewayDelivery for TLC. *)
EXTENDS GatewayDelivery

\* The first turn's answers are longer than a message holds.
MCPieces == <<3, 1>>

MCChannels ==
  {[typing |-> FALSE, editable |-> TRUE, budget |-> 2],
   [typing |-> FALSE, editable |-> TRUE, budget |-> 0],
   [typing |-> TRUE, editable |-> FALSE, budget |-> 0]}
=============================================================================

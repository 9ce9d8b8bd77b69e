--------------------------- MODULE MCGatewayRoutes --------------------------
(* Two gateways that share a table with one default route, for TLC. *)
EXTENDS GatewayRoutes

CONSTANTS g1, g2, products, topic

MCDefaults == <<<<products, topic>>>>
\* Calls switch a route off: it then has a row and is not served.
MCBodies == {[target |-> topic, active |-> FALSE]}
=============================================================================

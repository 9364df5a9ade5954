---------------------------- MODULE MC_RouteList ----------------------------
(* Instance of the route editor for TLC: one address with two prefix       *)
(* lengths (so a typed address without '/' and its /32 completion collide *)
(* with an explicit /32 entry and a /24 entry differs), one gateway (no   *)
(* property tells gateways apart), two metrics, two route-table changes   *)
(* (a fetch can read one and miss the next) and one retry.                *)
EXTENDS RouteList

MCPrefixes == {24, 32}
MCMetrics == {50, 100}
=============================================================================

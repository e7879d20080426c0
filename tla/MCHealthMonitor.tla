---------------------------- MODULE MCHealthMonitor ----------------------------
(***************************************************************************)
(* Instances of HealthMonitor for TLC: the HTTP server, the router with    *)
(* its model process, and detokenization.                                  *)
(***************************************************************************)
EXTENDS HealthMonitor

MCPids     == <<"http", "router", "model", "detokenization">>
MCParentOf == [router |-> "http", model |-> "router", detokenization |-> "http"]
=============================================================================

---------------------------- MODULE MCP2pTraffic ----------------------------
(* The bounds of every configuration are given in its .cfg.                *)
EXTENDS P2pProps

=============================================================================

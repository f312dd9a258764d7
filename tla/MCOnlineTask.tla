---------------------------- MODULE MCOnlineTask ----------------------------
(* The bounds of every configuration are given in its .cfg.                *)
EXTENDS OnlineProps

=============================================================================

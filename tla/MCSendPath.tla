----------------------------- MODULE MCSendPath -----------------------------
(* The bounds of every configuration are given in its .cfg.                *)
EXTENDS SendProps

=============================================================================

----------------------------- MODULE MCWebSession -----------------------------
(* WebSession for TLC: two sign-ins in the life of the tab.                *)
EXTENDS WebSession
=============================================================================

---------------------------- MODULE MCOpenedStorage ----------------------------
(* OpenedStorage for TLC: two keys.                                        *)
EXTENDS OpenedStorage
=============================================================================

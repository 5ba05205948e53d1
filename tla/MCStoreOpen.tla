---------------------------- MODULE MCStoreOpen ----------------------------
(* Instances of StoreOpen.tla for TLC.                                     *)
EXTENDS StoreOpen

Everything == AllFaults
=============================================================================

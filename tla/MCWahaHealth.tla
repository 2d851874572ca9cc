---------------------------- MODULE MCWahaHealth ----------------------------
(* Small instances of WahaHealth for TLC.                                  *)
EXTENDS WahaHealth, TLC
=============================================================================

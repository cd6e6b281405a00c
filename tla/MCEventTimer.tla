---------------------------- MODULE MCEventTimer ----------------------------
(* Small instances of EventTimer for TLC.                                  *)
EXTENDS EventTimer
=============================================================================

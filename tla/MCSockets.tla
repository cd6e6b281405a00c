------------------------------ MODULE MCSockets ------------------------------
(* Small instances of Sockets for TLC; the values are in the Sockets_*.cfg.   *)
EXTENDS Sockets
==============================================================================

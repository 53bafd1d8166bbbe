---------------------------- MODULE MCPicodLifecycle ----------------------------
(* A small instance of PicodLifecycle for TLC. *)
EXTENDS PicodLifecycle
================================================================================

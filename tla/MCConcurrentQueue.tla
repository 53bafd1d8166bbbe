---------------------------- MODULE MCConcurrentQueue ----------------------------
(* Small instances of ConcurrentQueue for TLC. *)
EXTENDS ConcurrentQueue
================================================================================

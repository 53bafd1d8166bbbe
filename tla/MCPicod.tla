-------------------------------- MODULE MCPicod --------------------------------
(* A small instance of Picod for TLC: one zone is below zero, the other is not. *)
EXTENDS Picod

ZonesDiffer == [z \in Zones |-> IF z = 0 THEN 246 ELSE 40]
================================================================================

------------------------------ MODULE MCSerialLink ------------------------------
(* Small instances of SerialLink for TLC. *)
EXTENDS SerialLink, TLC

AnyClient == Permutations(Clients)
================================================================================

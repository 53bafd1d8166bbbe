----------------------------- MODULE MCPicoHistory -----------------------------
(* Small instances of PicoHistory for TLC. *)
EXTENDS PicoHistory

WatchdogOnce == {[write |-> TRUE, enable |-> TRUE, retries |-> 1, timeout |-> 2]}
================================================================================

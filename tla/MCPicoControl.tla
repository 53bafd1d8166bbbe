----------------------------- MODULE MCPicoControl -----------------------------
(* A small instance of PicoControl for TLC. *)
EXTENDS PicoControl, TLC

Settings(e, r, t) == [write |-> TRUE, enable |-> e, retries |-> r, timeout |-> t]

\* Turning the watchdog on with one retry, also while it is on, and off with none.  Resets
\* take the retry, so an enabled watchdog without one is met as well.
WatchdogUse == {Settings(TRUE, 1, 1), Settings(FALSE, 0, 1)}

Sym == Permutations(Alarms)
================================================================================

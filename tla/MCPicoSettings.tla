----------------------------- MODULE MCPicoSettings -----------------------------
(* A small instance of PicoSettings for TLC. *)
EXTENDS PicoSettings

\* A percentage that ubus takes for 2^32 - 1.
NegativePercent == {-1}

\* A timeout that is zero in 16 bits.
OddWatchdog == {[enable |-> TRUE, timeout |-> 65536, retries |-> 1]}

\* A percentage that loses one on its way, a timeout under the limit, retries that
\* are zero in 16 bits.
OddConfig == {[pwm |-> 59, enable |-> FALSE, timeout |-> 0, retries |-> 65536]}
================================================================================

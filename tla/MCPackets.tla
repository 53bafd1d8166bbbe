------------------------------- MODULE MCPackets -------------------------------
(* A small instance of Packets for TLC: values on both sides of a byte and of *)
(* the sign, and a version of two packets and a bit.                          *)
EXTENDS Packets, TLC

ReadingsDef ==
    {[s \in Sensors |-> 2150 + s], <<-1, -32767, 32767>> @@ (0 :> 0) @@ (4 :> -5512),
     [s \in Sensors |-> -256 * s]}
SpeedsDef == {[f \in Fans |-> 0], <<4800, 65535>>}
ConfiguredDef == <<35, 60>>
ConfiguredWatchdogDef == [enable |-> TRUE, timeout |-> 30, retries |-> 2]
AskedWatchdogDef ==
    {[enable |-> e, timeout |-> t, retries |-> IF e THEN 300 ELSE 0] :
        e \in BOOLEAN, t \in {1, 256, 65535}}
================================================================================

------------------------------ MODULE PicoHistory ------------------------------
(***************************************************************************)
(* PicoControl with a history variable, for the question about the past    *)
(* that its own state cannot answer: which press of the button still waits *)
(* for its shutdown packet.  It records steps of PicoControl and           *)
(* constrains none.                                                        *)
(***************************************************************************)
EXTENDS PicoControl

VARIABLE owed  \* "no", or where the main loop was when a press was accepted

hvars == <<vars, owed>>

HInit == Init /\ owed = "no"

HMain ==
    /\ MainLoop
    /\ owed' = IF pc = "send" THEN "no" ELSE owed

HAlarm == AlarmIsr /\ UNCHANGED owed

\* The gap: the packet has been sent and the flag has not been cleared.
PressAccepted == Up /\ btnIrq = {"RISE"} /\ held >= GracefulMin /\ held < HardMin

HGpio ==
    /\ GpioIsr
    /\ owed' = IF ~(PressAccepted /\ btnIrq' = {}) \/ owed # "no" THEN owed
               ELSE IF pc = "sent" THEN "gap" ELSE "queued"

HTick == Tick /\ UNCHANGED owed

HEnvironment == Environment /\ UNCHANGED owed

HNext == HMain \/ HAlarm \/ HGpio \/ HEnvironment \/ HTick

HSpec == HInit /\ [][HNext]_hvars

FairHSpec ==
    /\ HSpec
    /\ WF_hvars(HMain) /\ WF_hvars(HAlarm) /\ WF_hvars(HGpio) /\ WF_hvars(HTick)

\* A press the firmware accepted is followed by a shutdown packet, as
\* cm4-wrt-a.h:73-75 has it, unless it falls between the sending of a packet and the
\* clearing of the flag in the main loop of cm4-wrt-a.c, which loses it.
QueuedPressAnswered == (owed = "queued") ~> (owed = "no")
================================================================================

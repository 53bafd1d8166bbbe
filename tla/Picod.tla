--------------------------------- MODULE Picod ---------------------------------
(***************************************************************************)
(* The threads of picod and what they share beside the serial port: the    *)
(* quit event (QuitEvent), the sensor on the I2C bus (TMP103) and, in the   *)
(* build for OpenWrt, the loop of libubox (UbusServer).  main's thread      *)
(* monitors the temperatures in one build and runs the loop in the other;  *)
(* the web server's workers are there in the first only.                   *)
(*                                                                         *)
(* A thread that the signal handler stops takes no step of its own, and    *)
(* one that is reading the sensor does nothing else before it has its      *)
(* temperature.                                                            *)
(***************************************************************************)
EXTENDS UbusServer, TMP103

ASSUME PicodAssumption == Callers = Threads \ {Reader}

vars == <<evars, uvars, svars>>

\* Every value has its type, the mutex belongs to whoever is between lock and unlock,
\* and a thread that main has not joined does not outlive it.
TypeOK ==
    /\ EventTypeOK /\ UbusTypeOK /\ SensorTypeOK
    /\ main = "ended" => at[Reader] = "ended"

Init == EventInit /\ UbusInit /\ SensorInit

\* Threads that are there, with init_pico behind them.
Begun(t) ==
    /\ main # "ended" /\ Runs(t)
    /\ t # Reader => Constructed /\ stage[t] = "out"

-----------------------------------------------------------------------------
\* init_pico, the first to call instance().
Construct ==
    /\ main \in {"monitor", "init"} /\ Runs(Main)
    /\ BusMissing \/ Probe
    /\ UNCHANGED <<evars, uvars>>

\* The monitor and the page of the web server, or the timer and a method of the loop.
Sensor(t) ==
    /\ t # Reader /\ Runs(t) /\ at[t] = "busy"
    /\ IF t = Main THEN main = "monitor" \/ Serving ELSE main = "monitor"
    /\ getTemperature(t)
    /\ UNCHANGED <<evars, uvars>>

\* main and the workers come to the event in the first build only.
Comes(t) ==
    /\ Begun(t) /\ (t # Reader => main = "monitor")
    /\ Call(t)
    /\ UNCHANGED <<uvars, svars>>

Acts(t) ==
    /\ Proceeds(t) \/ HandlerSets(t)
    /\ UNCHANGED <<uvars, svars>>

Gets(t) == Locks(t) /\ UNCHANGED <<uvars, svars>>

Interrupted(t) ==
    /\ main # "ended" /\ ~(Serving /\ ~keeps)
    /\ Signal(t)
    /\ UNCHANGED <<uvars, svars>>

UloopInterrupted ==
    /\ UloopSignal
    /\ UNCHANGED <<flag_, mtx_, at, handler, svars>>

\* A step of main's thread in the second build.
Main_(step) == Begun(Main) /\ step /\ UNCHANGED <<evars, svars>>

UbusMain == Main_(Starts) \/ Main_(Turn \/ SubscribeCb \/ ConnectionLost \/ JoinReader)

SubscribersChange == Subscribers /\ UNCHANGED <<evars, svars>>

Next ==
    \/ Construct \/ UbusMain \/ UloopInterrupted \/ SubscribersChange
    \/ \E t \in Threads : Sensor(t) \/ Comes(t) \/ Acts(t) \/ Gets(t) \/ Interrupted(t)

Spec == Init /\ [][Next]_vars

\* Threads run on.  A mutex that is free again and again is got: its users are away
\* from it for up to a second between two calls.  main does not read the sensor for
\* ever: it does so once in each poll and once in each call of a method, and libubox
\* serves an expired timer, a ready descriptor and a cancelled loop in every turn.
FairSpec ==
    /\ Spec
    /\ \A t \in Threads : WF_vars(Acts(t)) /\ SF_vars(Gets(t))
    /\ WF_vars(Sensor(Main)) /\ SF_vars(Comes(Main)) /\ WF_vars(Comes(Reader))
    /\ WF_vars(Construct) /\ WF_vars(Main_(Starts)) /\ WF_vars(Main_(JoinReader))
    /\ SF_vars(Main_(Turn)) /\ SF_vars(Main_(SubscribeCb))

-----------------------------------------------------------------------------
\* Both threads hear a set event, whoever sets it, in whatever order they come: the
\* one that is first takes nothing from the other.  The exception is a signal that
\* meets its own thread inside the event: std::mutex is not recursive.  In the build
\* for OpenWrt only the reader listens.
QuitIsHeard ==
    flag_ ~> \/ at[Reader] = "ended" /\ (main = "monitor" => at[Main] = "ended")
             \/ HandlerStuck

\* As long as the loop runs picod asks for temperatures again and again, whether or
\* not the Pico answers.  Once subscribers stay, every temperature is sent to them,
\* and once there are none, none is, however often they have come and gone before.
SubscribersServed ==
    \/ <>HandlerStuck
    \/ /\ []<>(main = "timer") \/ <>[](~Serving)
       /\ <>[](Serving /\ subscribed) => <>[](last # "unheard")
       /\ <>[](Serving /\ ~subscribed) => <>[](last # "notified")
================================================================================

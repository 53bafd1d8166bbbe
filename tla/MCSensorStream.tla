----------------------------- MODULE MCSensorStream -----------------------------
(***************************************************************************)
(* Small instances of SensorCharts and SensorStream for TLC, one beside    *)
(* the other.  They share no variable: each has the monitor's step from a  *)
(* saved poll to an event as a choice of its own, and no property names    *)
(* both.  So a behaviour of one half is checked while the other rests.     *)
(***************************************************************************)
EXTENDS SensorCharts, SensorStream, TLC

VARIABLE half \* which of the two this behaviour is of

AnyStream == Permutations(Streams)

\* -12.625 degrees, which has no exact hundredths, and 25.
ColdAndWarm == {-101, 200}

MCInit == half \in {"charts", "stream"} /\ ChartsInit /\ Init

MCNext ==
    /\ \/ half = "charts" /\ ChartsNext /\ UNCHANGED vars
       \/ half = "stream" /\ Next /\ UNCHANGED chartsVars
    /\ UNCHANGED half

MCSpec == MCInit /\ [][MCNext]_<<half, chartsVars, vars>>

\* The histories stay within their length, the speeds within 16 bits, the queue within
\* its size and the events' numbers within their types (WebServer, SSEDispatcher).
TypesOK == ChartsTypeOK /\ TypeOK
================================================================================

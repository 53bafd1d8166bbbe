-------------------------------- MODULE TMP103 --------------------------------
(***************************************************************************)
(* The temperature sensors on the I2C bus (src/CM4/src/TMP103_I2C.cpp).    *)
(* All threads of picod share one I2CDevice, whose address is stored       *)
(* before a transfer and read by it, and the pointer register in each      *)
(* sensor, which a transfer sets for the next one.  Nothing is locked but  *)
(* the bus: an ioctl is one step.                                          *)
(***************************************************************************)
EXTENDS Integers

CONSTANTS
    Callers,        \* the monitor and the web server's workers
    MAX_NUM_DEVICES,
    Fitted,         \* the zones that have a sensor
    OtherRegister,  \* what the other registers hold
    Temperature     \* the byte in each zone's temperature register; a transfer reads
                    \* it in one step, so that it need not change between steps

Zones == 0 .. MAX_NUM_DEVICES - 1
TEMPERATURE_REGISTER_RO == 0

ASSUME SensorAssumption ==
    /\ MAX_NUM_DEVICES \in Nat \ {0}
    /\ Fitted \subseteq Zones
    /\ Temperature \in [Zones -> 0 .. 255] /\ OtherRegister \in 0 .. 255

VARIABLES
    probing,      \* the zone that the constructor looks for next
    present,      \* tmp_i2c_info[].present
    addr,         \* device_.addr, as a zone
    pointer,      \* the sensors' pointer registers
    stage,        \* where each caller is in getTemperature
    idx,          \* the zone each one asks for
    retVal,       \* what the last call returned ...
    measured      \* ... and history: what the zone it asked for had when it read

busVars == <<addr, pointer>>
callVars == <<stage, idx, retVal, measured>>
svars == <<probing, present, busVars, callVars>>

Constructed == probing = MAX_NUM_DEVICES

SensorTypeOK ==
    /\ probing \in 0 .. MAX_NUM_DEVICES
    /\ present \in [Zones -> BOOLEAN] /\ addr \in Zones
    /\ pointer \in [Zones -> 0 .. 3]
    /\ stage \in [Callers -> {"out", "point", "read"}]
    /\ idx \in [Callers -> Zones]
    /\ retVal \in -273 .. 127 /\ measured \in -128 .. 127

\* A sensor that has power points at its temperature register.
SensorInit ==
    /\ probing = 0 /\ present = [z \in Zones |-> FALSE] /\ addr = 0
    /\ pointer = [z \in Zones |-> TEMPERATURE_REGISTER_RO]
    /\ stage = [t \in Callers |-> "out"] /\ idx = [t \in Callers |-> 0]
    /\ retVal = -273 /\ measured = 0

\* Two's complement of a byte.
SignedByte(byte) == ((byte + 128) % 256) - 128

\* 0xFFFFFF00 | dataIn, in a 32-bit int.
decodeTemperature(dataIn) == IF dataIn < 128 THEN dataIn ELSE -256 + dataIn

-----------------------------------------------------------------------------
(* i2c_ioctl_write and i2c_ioctl_read, one byte; any transfer may fail *)

WriteByte(zone, byte) ==
    /\ zone \in Fitted
    /\ pointer' = [pointer EXCEPT ![zone] = byte]

ByteAt(zone) ==
    IF pointer[zone] = TEMPERATURE_REGISTER_RO THEN Temperature[zone] ELSE OtherRegister

-----------------------------------------------------------------------------
(* The constructor, which the first caller of instance() runs alone *)

BusMissing ==
    /\ probing = 0 /\ probing' = MAX_NUM_DEVICES
    /\ UNCHANGED <<present, busVars, callVars>>

Probe ==
    /\ ~Constructed
    /\ probing' = probing + 1 /\ addr' = probing
    /\ \/ WriteByte(probing, 0) /\ present' \in {present, [present EXCEPT ![probing] = TRUE]}
       \/ UNCHANGED <<pointer, present>>
    /\ UNCHANGED <<callVars>>

-----------------------------------------------------------------------------
(* getTemperature *)

\* Slip: a worker reads another zone than the monitor.
EveryZone == Zones

\* All callers leave the argument out.
deviceIndex == {0}

Returns(t, value) ==
    /\ stage' = [stage EXCEPT ![t] = "out"]
    /\ retVal' = value

Absent(t, i) ==
    /\ Constructed /\ stage[t] = "out"
    /\ ~present[i % MAX_NUM_DEVICES]
    /\ Returns(t, -273)
    /\ UNCHANGED <<probing, present, busVars, idx, measured>>

Select(t, i) ==
    /\ Constructed /\ stage[t] = "out"
    /\ present[i % MAX_NUM_DEVICES]
    /\ idx' = [idx EXCEPT ![t] = i % MAX_NUM_DEVICES]
    /\ addr' = i % MAX_NUM_DEVICES
    /\ stage' = [stage EXCEPT ![t] = "point"]
    /\ UNCHANGED <<probing, present, pointer, retVal, measured>>

\* A failure is printed and the sensor is read all the same.
PointToTemperature(t) ==
    /\ stage[t] = "point" /\ stage' = [stage EXCEPT ![t] = "read"]
    /\ WriteByte(addr, TEMPERATURE_REGISTER_RO) \/ UNCHANGED pointer
    /\ UNCHANGED <<probing, present, addr, idx, retVal, measured>>

ReadTemperature(t) ==
    /\ stage[t] = "read"
    /\ \/ addr \in Fitted /\ Returns(t, decodeTemperature(ByteAt(addr)))
       \/ Returns(t, -273)
    /\ measured' = SignedByte(Temperature[idx[t]])
    /\ UNCHANGED <<probing, present, busVars, idx>>

-----------------------------------------------------------------------------
getTemperature(t) ==
    \/ \E i \in deviceIndex : Absent(t, i) \/ Select(t, i)
    \/ PointToTemperature(t) \/ ReadTemperature(t)

SensorNext ==
    \/ BusMissing \/ Probe
    \/ \E t \in Callers : getTemperature(t)

\* The sensors by themselves, any caller at any time.
SensorSpec == SensorInit /\ [][SensorNext]_svars

-----------------------------------------------------------------------------
\* Whatever the threads do to the shared address and pointer, and whichever transfers
\* fail, a caller gets what the zone it asked for measures, or -273, which no sensor
\* measures.
ReadingIsTheZones == retVal \in {measured, -273}
================================================================================

--------------------------- MODULE MCSwitchDriver ---------------------------
(* Instances of SwitchDriver for TLC: the requests its run makes.            *)
EXTENDS SwitchDriver

\* The highest pin of the port set, cleared by an intensity thread and read;
\* the sensor, and a command the driver does not know.
SomeCalls ==
    {[cmd |-> "SET_TO_SWITCH", pin |-> 7, value |-> One],
     [cmd |-> "SET_FOR_INTENSITY", pin |-> 7, value |-> Zero],
     [cmd |-> "GET_FROM_SWITCH", pin |-> 7, value |-> Zero],
     [cmd |-> "GET_FROM_SENSOR", pin |-> 0, value |-> Zero],
     [cmd |-> "unknown", pin |-> 0, value |-> Zero]}
=============================================================================

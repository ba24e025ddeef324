----------------------------- MODULE SwitchPort -----------------------------
(***************************************************************************)
(* The data of the switch driver, switch_driver/switch.c: the requests of  *)
(* its ioctl and the port they read and write.  A number is the set of its *)
(* one bits: 0 is {}, 1 is {0}, and the port is the set of the pins on.    *)
(***************************************************************************)
EXTENDS Integers

CONSTANT Pins    \* the pins requests name

ASSUME PinsAssumption == Pins \subseteq Nat

Zero == {}
One == {0}

Setters == {"SET_FOR_INTENSITY", "SET_TO_SWITCH"}
Commands == Setters \cup {"GET_FROM_SWITCH", "GET_FROM_SENSOR", "unknown"}
Requests == [cmd : Commands, pin : Pins, value : SUBSET Nat]
NoRequest == [cmd |-> "none", pin |-> 0, value |-> Zero]

\* A value other than 0 and 1 takes neither branch.
Stored(port, pin, value) ==
    CASE value = Zero -> port \ {pin}
      [] value = One -> port \cup {pin}
      [] OTHER -> port

Bit(port, pin) == IF pin \in port THEN One ELSE Zero
=============================================================================

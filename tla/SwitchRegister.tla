--------------------------- MODULE SwitchRegister ---------------------------
(***************************************************************************)
(* What the ioctl of the switch driver promises its callers: between a     *)
(* call and its return it takes effect once and at once on a port with a   *)
(* bit for every pin, or it fails and changes nothing.                     *)
(***************************************************************************)
EXTENDS SwitchPort

CONSTANTS Processes, Calls

VARIABLES
    port,      \* the pins that are on
    arg,       \* the request of a process, where it finds the answer
    status     \* of the ioctl of a process

vars == <<port, arg, status>>

Init ==
    /\ port = {}
    /\ arg = [p \in Processes |-> NoRequest]
    /\ status = [p \in Processes |-> "idle"]

Ends(p, from, to) ==
    /\ status[p] = from
    /\ status' = [status EXCEPT ![p] = to]

Call(p, r) ==
    /\ Ends(p, "idle", "called")
    /\ arg' = [arg EXCEPT ![p] = r]
    /\ UNCHANGED port

Set(p) ==
    /\ arg[p].cmd \in Setters
    /\ Ends(p, "called", "ok")
    /\ port' = Stored(port, arg[p].pin, arg[p].value)
    /\ UNCHANGED arg

GetSwitch(p) ==
    /\ arg[p].cmd = "GET_FROM_SWITCH"
    /\ Ends(p, "called", "ok")
    /\ arg' = [arg EXCEPT ![p].value = Bit(port, arg[p].pin)]
    /\ UNCHANGED port

GetSensor(p) ==
    /\ arg[p].cmd = "GET_FROM_SENSOR"
    /\ Ends(p, "called", "ok")
    /\ arg' = [arg EXCEPT ![p].value = port]
    /\ UNCHANGED port

Fail(p) ==
    /\ Ends(p, "called", "failed")
    /\ UNCHANGED <<port, arg>>

Return(p) ==
    /\ \E s \in {"ok", "failed"} : Ends(p, s, "idle")
    /\ arg' = [arg EXCEPT ![p] = NoRequest]
    /\ UNCHANGED port

Next ==
    \E p \in Processes :
        \/ \E r \in Calls : Call(p, r)
        \/ Set(p) \/ GetSwitch(p) \/ GetSensor(p) \/ Fail(p) \/ Return(p)

Spec == Init /\ [][Next]_vars
=============================================================================

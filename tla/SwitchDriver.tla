---------------------------- MODULE SwitchDriver ----------------------------
(***************************************************************************)
(* dhiraj_ioctl of switch_driver/switch.c, called by several threads of    *)
(* the device server at the same time, one action per step of the call:    *)
(* the semaphore, the copy into the one global iotr, the switch over the   *)
(* command, the copy back, and the release.  Copies may fault and the wait *)
(* may be interrupted.                                                     *)
(***************************************************************************)
EXTENDS SwitchPort

CONSTANTS
    Processes,   \* the threads that call the ioctl
    Calls,       \* the requests they make
    Width        \* bits of myport, an unsigned char: 8

ASSUME SwitchDriverAssumption == Calls \subseteq Requests /\ Width \in Nat

VARIABLES
    sem,       \* the count of the semaphore
    iotr,      \* the global copy of the request
    myport,    \* the dummy register
    pc,        \* where the ioctl of a process is
    arg,       \* the request in the memory of the process
    ret        \* what the ioctl returns

driverVars == <<sem, iotr, myport, pc, arg, ret>>

Locations == {"idle", "down", "copy_from_user", "switch", "copy_to_user",
              "up", "return"}
Critical == {"copy_from_user", "switch", "copy_to_user", "up"}

DriverTypeOK ==
    /\ sem \in 0 .. 1
    /\ iotr \in [pin : Nat, value : SUBSET Nat]
    /\ myport \subseteq 0 .. Width - 1
    /\ pc \in [Processes -> Locations]
    /\ arg \in [Processes -> Requests \cup {NoRequest}]
    /\ ret \in [Processes -> {0, -1}]

DriverInit ==
    /\ sem = 1
    /\ iotr = [pin |-> 0, value |-> Zero]
    /\ myport = {}
    /\ pc = [p \in Processes |-> "idle"]
    /\ arg = [p \in Processes |-> NoRequest]
    /\ ret = [p \in Processes |-> 0]

Goto(p, from, to) ==
    /\ pc[p] = from
    /\ pc' = [pc EXCEPT ![p] = to]

Ioctl(p, r) ==
    /\ Goto(p, "idle", "down")
    /\ arg' = [arg EXCEPT ![p] = r]
    /\ UNCHANGED <<sem, iotr, myport, ret>>

\* Mutant: the semaphore is not waited for.
Down_NoLock(p) ==
    /\ Goto(p, "down", "copy_from_user")
    /\ sem' = 0
    /\ UNCHANGED <<iotr, myport, arg, ret>>

Down(p) ==
    /\ Goto(p, "down", "copy_from_user")
    /\ sem = 1
    /\ sem' = 0
    /\ UNCHANGED <<iotr, myport, arg, ret>>

\* down_interruptible looks at signals only when it has to wait.
Interrupted(p) ==
    /\ Goto(p, "down", "return")
    /\ sem = 0
    /\ ret' = [ret EXCEPT ![p] = -1]
    /\ UNCHANGED <<sem, iotr, myport, arg>>

CopyFromUser(p) ==
    /\ Goto(p, "copy_from_user", "switch")
    /\ iotr' = [pin |-> arg[p].pin, value |-> arg[p].value]
    /\ UNCHANGED <<sem, myport, arg, ret>>

\* Mutant: a fault returns without the release.
CopyFault_NoUp(p) ==
    /\ \E c \in {"copy_from_user", "copy_to_user"} : Goto(p, c, "return")
    /\ ret' = [ret EXCEPT ![p] = -1]
    /\ UNCHANGED <<sem, iotr, myport, arg>>

CopyFault(p) ==
    /\ \E c \in {"copy_from_user", "copy_to_user"} : Goto(p, c, "up")
    /\ ret' = [ret EXCEPT ![p] = -1]
    /\ UNCHANGED <<sem, iotr, myport, arg>>

\* Both setters: |= and &= on an unsigned char keep Width bits.
Set(p) ==
    /\ Goto(p, "switch", "up")
    /\ arg[p].cmd \in Setters
    /\ myport' = Stored(myport, iotr.pin, iotr.value) \cap (0 .. Width - 1)
    /\ UNCHANGED <<sem, iotr, arg, ret>>

GetFromSwitch(p) ==
    /\ Goto(p, "switch", "copy_to_user")
    /\ arg[p].cmd = "GET_FROM_SWITCH"
    /\ iotr' = [iotr EXCEPT !.value = Bit(myport, iotr.pin)]
    /\ UNCHANGED <<sem, myport, arg, ret>>

GetFromSensor(p) ==
    /\ Goto(p, "switch", "copy_to_user")
    /\ arg[p].cmd = "GET_FROM_SENSOR"
    /\ iotr' = [iotr EXCEPT !.value = myport]
    /\ UNCHANGED <<sem, myport, arg, ret>>

Default(p) ==
    /\ Goto(p, "switch", "up")
    /\ arg[p].cmd = "unknown"
    /\ ret' = [ret EXCEPT ![p] = -1]
    /\ UNCHANGED <<sem, iotr, myport, arg>>

CopyToUser(p) ==
    /\ Goto(p, "copy_to_user", "up")
    /\ arg' = [arg EXCEPT ![p].pin = iotr.pin, ![p].value = iotr.value]
    /\ UNCHANGED <<sem, iotr, myport, ret>>

Up(p) ==
    /\ Goto(p, "up", "return")
    /\ sem' = sem + 1
    /\ UNCHANGED <<iotr, myport, arg, ret>>

Return(p) ==
    /\ Goto(p, "return", "idle")
    /\ arg' = [arg EXCEPT ![p] = NoRequest]
    /\ ret' = [ret EXCEPT ![p] = 0]
    /\ UNCHANGED <<sem, iotr, myport>>

\* A call once made: what the kernel does with it.
Runs(p) ==
    \/ CopyFromUser(p) \/ CopyFault(p) \/ Set(p) \/ GetFromSwitch(p)
    \/ GetFromSensor(p) \/ Default(p) \/ CopyToUser(p) \/ Up(p) \/ Return(p)

DriverNext ==
    \E p \in Processes :
        \/ \E r \in Calls : Ioctl(p, r)
        \/ Down(p) \/ Interrupted(p) \/ Runs(p)

\* The kernel serves the waiters of a semaphore in turn: strong fairness.
DriverFairness == \A p \in Processes : SF_driverVars(Down(p)) /\ WF_driverVars(Runs(p))

DriverSpec == DriverInit /\ [][DriverNext]_driverVars /\ DriverFairness
-----------------------------------------------------------------------------
\* An ioctl has taken effect, or failed, when it comes to the release.
status ==
    [p \in Processes |->
        CASE pc[p] = "idle" -> "idle"
          [] pc[p] \in {"up", "return"} -> IF ret[p] = 0 THEN "ok" ELSE "failed"
          [] OTHER -> "called"]

Register == INSTANCE SwitchRegister WITH port <- myport

(* The ioctls of any number of threads, each a sequence of steps on one    *)
(* global request, look like atomic operations on a port that remembers    *)
(* every pin; one that fails has changed nothing.                          *)
AtomicPort == Register!Spec

(* Every ioctl returns: no path through the call leaves the semaphore down.*)
EveryIoctlReturns == \A p \in Processes : pc[p] = "down" ~> pc[p] = "idle"
=============================================================================

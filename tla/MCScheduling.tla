---------------------------- MODULE MCScheduling ----------------------------
(* Instances of Scheduling for TLC: the schedules its runs submit.           *)
EXTENDS Scheduling

CONSTANTS on, off

Sched(set, start, end, repeat) ==
    [set |-> set, start |-> start, end |-> end, repeat |-> repeat]

\* One that repeats, one without an end.
TwoKinds == {Sched(on, 1, 2, TRUE), Sched(off, 2, 0, FALSE)}
Ending == {Sched(v, s, e, FALSE) : v \in {on, off}, s \in 1 .. 2, e \in 0 .. 3}
=============================================================================

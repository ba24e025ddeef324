-------------------------- MODULE MCServerResource --------------------------
(* Instances of ServerResource for TLC: the requests its run makes.          *)
EXTENDS ServerResource

SomePuts ==
    {[state |-> 1, power |-> 100, auto |-> 1],
     [state |-> 0, power |-> 50, auto |-> 0],
     [state |-> 1, power |-> 0, auto |-> Absent]}
=============================================================================

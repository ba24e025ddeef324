--------------------------- MODULE MCRequestPath ---------------------------
(* Instances of RequestPath for TLC: the runs of its .cfg files.            *)
EXTENDS RequestPath

CONSTANTS ui, cloud, sched

TwoEach == [t \in Threads |-> 2]
OneEach == [t \in Threads |-> 1]
UiTwo == [t \in Threads |-> IF t = ui THEN 2 ELSE 1]
=============================================================================

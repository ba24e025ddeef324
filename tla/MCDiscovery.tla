----------------------------- MODULE MCDiscovery -----------------------------
(* Instances of Discovery for TLC: one host with two resources and one with  *)
(* a single resource.                                                        *)
EXTENDS Discovery

CONSTANTS h1, h2, r1, r2, r3

ThreeResources == {r1, r2, r3}
HomeOfThree == [r \in ThreeResources |-> IF r = r3 THEN h2 ELSE h1]
SomeBoots == {[h \in Hosts |-> IF h = h1 THEN 0 ELSE p] : p \in 1 .. 2}
OwnUris == [r \in ThreeResources |-> r]
=============================================================================

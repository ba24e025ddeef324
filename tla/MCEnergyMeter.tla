---------------------------- MODULE MCEnergyMeter ----------------------------
(* Instances of EnergyMeter for TLC: which host has which resource, and the  *)
(* text of their ip addresses.                                               *)
EXTENDS EnergyMeter

CONSTANTS lamp, fan, h1, h10

LampHost == lamp :> h1
TwoHosts == (lamp :> h1) @@ (fan :> h10)
H1 == {<<h1, h1>>}
SameLength == {<<h1, h1>>, <<h10, h10>>}
\* Both hosts trade places, with their resources.
Exchange ==
    {p \in Permutations(Resources \cup Hosts) :
        \A r \in Resources : p[r] \in Resources /\ Host[p[r]] = p[Host[r]]}

Report(state, power) == [state |-> state, power |-> power]
OnOff == {Report(0, 0), Report(1, 1)}
Dimmed == {Report(0, 0), Report(1, 1), Report(1, 2)}
=============================================================================

--------------------------- MODULE MCDriftRestart ---------------------------
(* bt-agent and one sibling, or bt-agent alone. *)
EXTENDS DriftRestart

MCSweep == <<"bt-agent", "bt-dashboard">>
Alone   == <<"bt-agent">>

\* The two watchers of bt-agent differ in nothing but the moments they tick.
MCSymmetry == Permutations(FleetWatchers)
=============================================================================

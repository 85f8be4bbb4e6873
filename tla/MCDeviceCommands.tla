-------------------------- MODULE MCDeviceCommands --------------------------
(* DeviceCommands on small instances: two models that share a data item.   *)
EXTENDS DeviceCommands, TLC

CONSTANTS m1, m2, p1, p2, p3

MCModels == {m1, m2}
MCPaths == {p1, p2, p3}
MCPathsOf == m1 :> {p1, p2} @@ m2 :> {p2, p3}

Symmetry == Permutations(Names) \cup Permutations(Actors)
=============================================================================

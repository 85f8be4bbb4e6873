---------------------------- MODULE MCResources ----------------------------
(* Two devices that TLC may swap.                                          *)
EXTENDS Resources, TLC

CONSTANTS devA, devB

MCDevices == {devA, devB}
MCTimes == 1..2
MCSymmetry == Permutations(MCDevices)
=============================================================================

-------------------------- MODULE DeviceCollection --------------------------
(***************************************************************************)
(* What DataTask promises about the collection of each device, without     *)
(* threads, registries or commands: a device has at most one collection;   *)
(* it works in cycles; a stop lets at most the cycle under way finish; it  *)
(* ends only after a stop or after FailLimit failed cycles in a row, and   *)
(* then it does end; the failures of one device are not those of another.  *)
(***************************************************************************)
EXTENDS Naturals

CONSTANTS Devices, FailLimit

VARIABLES
    phase,      \* "stopped", "resting" between cycles, "collecting" in one
    stopping,   \* the devices whose collection has been asked to stop
    failures    \* failed cycles of the collection since the last good one

absVars == <<phase, stopping, failures>>

AbsInit ==
    /\ phase = [d \in Devices |-> "stopped"]
    /\ stopping = {}
    /\ failures = [d \in Devices |-> 0]

Start(d) ==
    /\ phase[d] = "stopped"
    /\ phase' = [phase EXCEPT ![d] = "resting"]
    /\ UNCHANGED <<stopping, failures>>

BeginCycle(d) ==
    /\ phase[d] = "resting"
    /\ d \notin stopping
    /\ failures[d] < FailLimit
    /\ phase' = [phase EXCEPT ![d] = "collecting"]
    /\ UNCHANGED <<stopping, failures>>

EndCycle(d) ==
    /\ phase[d] = "collecting"
    /\ phase' = [phase EXCEPT ![d] = "resting"]
    /\ failures' = [failures EXCEPT ![d] = 0] \/ failures' = [failures EXCEPT ![d] = @ + 1]
    /\ UNCHANGED stopping

(* stop_device_collect for one device, stop_all for several                *)
AskToStop(S) ==
    /\ \A d \in S : phase[d] # "stopped"
    /\ stopping' = stopping \cup S
    /\ UNCHANGED <<phase, failures>>

Finish(d) ==
    /\ phase[d] = "resting"
    /\ d \in stopping \/ failures[d] = FailLimit
    /\ phase' = [phase EXCEPT ![d] = "stopped"]
    /\ stopping' = stopping \ {d}
    /\ failures' = [failures EXCEPT ![d] = 0]

AbsNext ==
    \/ \E d \in Devices : Start(d) \/ BeginCycle(d) \/ EndCycle(d) \/ Finish(d)
    \/ \E S \in SUBSET Devices : AskToStop(S)

AbsSpec == AbsInit /\ [][AbsNext]_absVars

AbsFairness == \A d \in Devices : WF_absVars(EndCycle(d)) /\ WF_absVars(Finish(d))

AbsFairSpec == AbsSpec /\ AbsFairness
=============================================================================

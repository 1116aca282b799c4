---------------------------- MODULE MCRunBinder ------------------------------
(* Instances of RunBinder for TLC. *)
EXTENDS RunBinder, TLC

CONSTANTS v1, v2, r1, r2, r3

\* Each run has its own vehicle.
OwnVehicle == [r \in Runs |-> IF r = r1 THEN v1 ELSE v2]
OnOff == [transmitting : BOOLEAN, moving : {FALSE}, progress : {0}]

\* Two runs of one vehicle, and one of a vehicle that is not in the roster.
SharedVehicle == [r \in Runs |-> IF r = r3 THEN v2 ELSE v1]
Alike == Permutations({r1, r2})
=============================================================================

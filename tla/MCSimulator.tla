----------------------------- MODULE MCSimulator -----------------------------
(* Instances of Simulator for TLC. *)
EXTENDS Simulator, TLC

CONSTANTS v1, r1, r2

OnlyVehicle == [r \in Runs |-> v1]
Line == 0 .. Length
AnyDrive == [transmitting : BOOLEAN, moving : BOOLEAN, progress : Positions]
Without(missing, bare) == [missing |-> missing, bare |-> bare]
AllShapes == {Without({}, {})}
AnyShapes == {Without(runs, {}) : runs \in {{}, {r1}, Runs \cup {NoRun}}}
               \cup {Without({}, Runs \cup {NoRun})}
Alike == Permutations({r1, r2})
=============================================================================

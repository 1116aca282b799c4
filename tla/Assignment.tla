----------------------------- MODULE Assignment ------------------------------
(***************************************************************************)
(* What the run binder promises about the assignment of runs to vehicles,  *)
(* without bindings, polling or answers: a vehicle holds at most one run,  *)
(* a run sits only on its own vehicle, it is put there only after it was   *)
(* confirmed, it may be taken off and put back while it is open, and once  *)
(* it is retired it is never on a vehicle again.                           *)
(***************************************************************************)
CONSTANTS
  Runs, NoRun, \* run ids, and the mark of a free vehicle
  Slots,       \* the vehicles
  HomeOf       \* the vehicle of each run, possibly none of Slots

VARIABLES
  slot,        \* the run on each vehicle, or NoRun
  phase        \* how far each run is

vars == <<slot, phase>>

Phases == {"requested", "confirmed", "retired"}
Later(p) == CASE p = "requested" -> Phases
              [] p = "confirmed" -> {"confirmed", "retired"}
              [] p = "retired" -> {"retired"}

Init ==
  /\ slot = [v \in Slots |-> NoRun]
  /\ phase = [r \in Runs |-> "requested"]

\* Runs move on; those that retire are on no vehicle after the step.
Progress ==
  /\ phase' \in [Runs -> Phases]
  /\ \A r \in Runs : phase'[r] \in Later(phase[r])
  /\ \A r \in Runs : phase'[r] = "retired" => \A v \in Slots : slot'[v] # r

\* A confirmed run takes its vehicle, whatever was on it.
Assign(r) ==
  /\ phase[r] = "confirmed" /\ HomeOf[r] \in Slots
  /\ slot' = [slot EXCEPT ![HomeOf[r]] = r]
  /\ Progress

\* A vehicle is freed.
Release(v) == slot' = [slot EXCEPT ![v] = NoRun] /\ Progress

\* Runs move on by themselves.
Advance == slot' = slot /\ Progress

Next == Advance \/ (\E r \in Runs : Assign(r)) \/ (\E v \in Slots : Release(v))

Spec == Init /\ [][Next]_vars
=============================================================================

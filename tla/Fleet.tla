-------------------------------- MODULE Fleet --------------------------------
(***************************************************************************)
(* The fleet container: simulator_app/domain/fleet.py.                     *)
(*                                                                         *)
(* One record per vehicle of the roster, and the mutators of FleetState as *)
(* operators on that record.  A mutator of an unknown vehicle raises       *)
(* KeyError (_require): the callers model that case with Known.            *)
(*                                                                         *)
(* bind_run and unbind_run always write run, trip, shape and terminal stop *)
(* together, so the run id stands for all four.  progress_m keeps only the *)
(* positions the properties tell apart.  The controller's override fields  *)
(* and the _kin scratch space belong to the tick loop, not to this record. *)
(***************************************************************************)
EXTENDS Lifecycle

CONSTANTS
  Roster,      \* vehicle ids of _make_fleet
  NoRun,       \* bound_run_id is None
  Start,       \* progress_m = 0.0
  Positions    \* the positions a vehicle may report, Start among them

ASSUME FleetAssumption ==
  /\ NoRun \notin Runs
  /\ Start \in Positions

VARIABLE
  fleet        \* FleetState._by_id

Vehicle ==
  [ transmitting : BOOLEAN,
    moving       : BOOLEAN,
    bound        : Runs \cup {NoRun},
    lifecycle    : LifecycleStates \cup {NoState},
    progress     : Positions ]

FleetType == fleet \in [Roster -> Vehicle]

\* A vehicle as _make_fleet creates it.
NewVehicle ==
  [ transmitting |-> FALSE, moving |-> FALSE, bound |-> NoRun,
    lifecycle |-> NoState, progress |-> Start ]

FleetInit == fleet = [v \in Roster |-> NewVehicle]

\* get(vehicle_id) is not None; otherwise _require raises.
Known(v) == v \in Roster

SetTransmitting(u, on) == [u EXCEPT !.transmitting = on]
SetMoving(u, on) == [u EXCEPT !.moving = on]
SetLifecycleState(u, s) == [u EXCEPT !.lifecycle = s]
SetProgress(u, p) == [u EXCEPT !.progress = p]

\* bind_run leaves everything but the run alone: motion, progress and _kin stay.
BindRun(u, r) == [u EXCEPT !.bound = r]

\* Mutation: unbind_run forgets to clear the run.
UnbindKeepsRun(u) ==
  [u EXCEPT !.lifecycle = NoState, !.progress = Start, !.transmitting = FALSE, !.moving = FALSE]

\* Mutation: unbind_run leaves the telemetry on.
UnbindStaysOnAir(u) ==
  [u EXCEPT !.bound = NoRun, !.lifecycle = NoState, !.progress = Start, !.moving = FALSE]

\* Mutation: unbind_run sets the progress to None, as it does with the run.
UnbindNullsProgress(u) ==
  [u EXCEPT !.bound = NoRun, !.lifecycle = NoState, !.progress = NoRun,
            !.transmitting = FALSE, !.moving = FALSE]

UnbindRun(u) ==
  [u EXCEPT !.bound = NoRun, !.lifecycle = NoState, !.progress = Start,
            !.transmitting = FALSE, !.moving = FALSE]
=============================================================================

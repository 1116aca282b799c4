------------------------------ MODULE Kinematics ------------------------------
(***************************************************************************)
(* The motion of one vehicle: simulator_app/domain/kinematics.py, and the  *)
(* stop a vehicle reports: simulator_app/domain/progression/compute.py.    *)
(*                                                                         *)
(* Every shape is a line of Length steps, a tick moves a vehicle by one of *)
(* Strides (override or random speed), and a stop is its position on the   *)
(* line.  Left out: coordinates and bearing, occupancy and fault injection. *)
(***************************************************************************)
EXTENDS Fleet, Naturals, FiniteSets

CONSTANTS
  Length,      \* shape.total_dist_m
  Stops,       \* positions with a stop, the terminal stop among them
  NoStop,      \* last_stop_id = "", and no stop reported yet
  Strides,     \* how far a moving vehicle may get in one tick
  DwellTicks,  \* STOP_DWELL_TICKS
  IdleTicks    \* POST_RUN_IDLE_S, in ticks

ASSUME KinematicsAssumption ==
  /\ Length \in Nat \ {0}
  /\ Positions = 0 .. Length /\ Start = 0
  /\ Stops \subseteq 1 .. Length /\ Length \in Stops
  /\ NoStop = 0
  /\ Strides \subseteq Nat \ {0}
  /\ DwellTicks \in Nat /\ IdleTicks \in Nat \ {0}

VARIABLE
  kin          \* _kin of each vehicle

Kin == [dwell : Nat, idle : 0 .. IdleTicks, lastStop : Stops \cup {NoStop}]

\* _init_kin.  Nothing resets these values when a run is bound or unbound.
NewKin == [dwell |-> 0, idle |-> 0, lastStop |-> NoStop]

KinType == kin \in [Roster -> Kin]
KinInit == kin = [v \in Roster |-> NewKin]

\* What a tick makes of a vehicle u with scratch values k.
Moved(u, k) == [vehicle |-> u, kin |-> k]

\* Rule 1: a dwelling vehicle only waits.
Dwell(u, k) == Moved(u, [k EXCEPT !.dwell = @ - 1])

\* Mutation: the countdown stops one tick early and never silences the vehicle.
IdleForever(u, k) == Moved(u, IF k.idle > 1 THEN [k EXCEPT !.idle = @ - 1] ELSE k)

\* Rule 2: a vehicle that stands counts down and falls silent at the end, whatever it
\* stands there for.
Idle(u, k) ==
  IF k.idle = 0 THEN Moved(u, k)
  ELSE Moved(SetTransmitting(u, u.transmitting /\ k.idle > 1), [k EXCEPT !.idle = @ - 1])

\* Mutations of rule 4: the vehicle is not stopped at the terminal, or ends its run there.
DrivesOn(u, k) == Moved(SetProgress(u, Length), [k EXCEPT !.idle = IdleTicks])
EndsRun(u, k) == Moved(UnbindRun(u), [k EXCEPT !.idle = IdleTicks])

\* Rule 4: stop at the terminal and start the countdown.
Arrive(u, k) ==
  Moved(SetMoving(SetProgress(u, Length), FALSE), [k EXCEPT !.idle = IdleTicks])

\* Rules 3 and 5: advance, and dwell on entering the zone of another stop than the last.
Advance(u, k, stride) ==
  LET p == u.progress + stride
      enters == p \in Stops /\ p # k.lastStop
  IN  Moved(SetProgress(u, p),
            IF enters THEN [k EXCEPT !.lastStop = p, !.dwell = DwellTicks] ELSE k)

\* Mutation: the dwell counter is taken one tick too far.
DwellsOnceMore(u, k, stride) == IF k.dwell >= 0 THEN Dwell(u, k) ELSE Advance(u, k, stride)

\* step_vehicle.
StepVehicle(u, k, stride) ==
  CASE k.dwell > 0 -> Dwell(u, k)
    [] k.dwell = 0 /\ ~ u.moving -> Idle(u, k)
    [] k.dwell = 0 /\ u.moving /\ u.progress + stride >= Length -> Arrive(u, k)
    [] OTHER -> Advance(u, k, stride)

\* _pick_upcoming_stop: the first stop not behind p (the terminal stop is never behind).
Upcoming(p) == CHOOSE s \in Stops : s >= p /\ \A t \in Stops : t >= p => s <= t

\* compute_stop_status: the upcoming stop, but never one before the last reported.
StopStatus(p, prev) == IF Upcoming(p) < prev THEN prev ELSE Upcoming(p)

\* INCOMING_AT_RADIUS_M, in steps; STOP_RADIUS_M is less than a step.
Near == 1

\* Its status word, about the upcoming stop even when it names another: p is the progress
\* by now, seen the position and speed of the payload.
StopStates == {"STOPPED_AT", "INCOMING_AT", "IN_TRANSIT_TO"}
CurrentStatus(p, seen) ==
  LET s == Upcoming(p)
  IN  CASE seen.progress = s /\ seen.stopped -> "STOPPED_AT"
        [] ~ (seen.progress = s /\ seen.stopped) /\ p < s /\ seen.progress \in s - Near .. s + Near
           -> "INCOMING_AT"
        [] OTHER -> "IN_TRANSIT_TO"
===============================================================================

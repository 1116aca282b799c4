------------------------------- MODULE Simulator -------------------------------
(***************************************************************************)
(* The binder, the tick loop (runtime.py) and the controller (control.py)  *)
(* on one fleet.                                                           *)
(*                                                                         *)
(* The two loops share an event loop and alternate at their awaits: the    *)
(* tick loop steps a vehicle, builds its payloads and publishes them in    *)
(* one stretch, then awaits the browser broadcasts, and computes the       *)
(* progression from the vehicle as it is after them.  Control handlers run *)
(* in worker threads.  A handler that hits step_vehicle in the middle has  *)
(* its write either overwritten (as if the handler had not run), or kept   *)
(* (as if it had run before or after), so step_vehicle is one step here.   *)
(*                                                                         *)
(* start_run and the scheduler's delayed start are "moving on"; the speed, *)
(* occupancy and fault knobs change nothing this module keeps.             *)
(***************************************************************************)
EXTENDS RunBinder, Kinematics

CONSTANTS
  NoVehicle,   \* the tick loop is not awaiting for any vehicle
  ShapeFiles,  \* what start_runtime may find in the shapes file
  Knobs,       \* control knobs this instance uses
  MaxControls  \* bound on the calls of control handlers

\* The runs, with NoRun for the default shape, whose shape is not in _shapes (all of them
\* when the file cannot be read), and those whose shape has no stops in _progression_geom
\* (all of them when the geometry cannot be built).
ShapeFile == [missing : SUBSET (Runs \cup {NoRun}), bare : SUBSET (Runs \cup {NoRun})]

ASSUME SimulatorAssumption ==
  /\ NoVehicle \notin Roster
  /\ ShapeFiles \subseteq ShapeFile
  /\ MaxControls \in Nat

VARIABLES
  shapes,      \* _shapes and _progression_geom as start_runtime left them
  tick,        \* the tick loop: "ready", "await" or "dead"; the vehicle it awaits for and the
               \* position payload it has built; what is left of the cycle
  report,      \* the progression last broadcast for each vehicle, also kept as progression_prev
  controls     \* calls of control handlers so far (only to bound them)

tickVars == <<kin, shapes, tick, report>>
simVars == <<vars, tickVars, controls>>

-----------------------------------------------------------------------------
(* The state *)

Report == [run : Runs \cup {NoRun}, progress : Positions, stop : Stops \cup {NoStop},
           status : StopStates]
NoReport == [run |-> NoRun, progress |-> Start, stop |-> NoStop, status |-> "IN_TRANSIT_TO"]

\* What the position payload says: where the vehicle is, and whether its speed is zero.
Payload == [progress : Positions, stopped : BOOLEAN]
NoPayload == [progress |-> Start, stopped |-> TRUE]
Sensed(moved) == [ progress |-> moved.vehicle.progress,
                   stopped |-> ~ moved.vehicle.moving \/ moved.kin.dwell > 0 ]

\* Types of the variables this module adds.
SimTypeOK ==
  /\ TypeOK /\ KinType
  /\ shapes \in ShapeFiles
  /\ tick \in [at : {"ready", "await", "dead"}, vehicle : Roster \cup {NoVehicle},
               payload : Payload, todo : SUBSET Roster]
  /\ tick.at = "await" <=> tick.vehicle # NoVehicle
  /\ report \in [Roster -> Report]
  /\ controls \in 0 .. MaxControls

SimInit ==
  /\ Init /\ KinInit
  /\ shapes \in ShapeFiles
  /\ tick = [at |-> "ready", vehicle |-> NoVehicle, payload |-> NoPayload, todo |-> {}]
  /\ report = [v \in Roster |-> NoReport]
  /\ controls = 0

-----------------------------------------------------------------------------
(* The tick loop *)

\* A new cycle, after the sleep.
TickWake ==
  /\ tick.at = "ready" /\ tick.todo = {}
  /\ tick' = [tick EXCEPT !.todo = Roster]
  /\ UNCHANGED <<vars, kin, shapes, report, controls>>

\* SIM_RANDOM_DROP_RATE: the vehicle is left out of this cycle.
TickDrop(v) ==
  /\ tick.at = "ready" /\ v \in tick.todo
  /\ tick' = [tick EXCEPT !.todo = @ \ {v}]
  /\ UNCHANGED <<vars, kin, shapes, report, controls>>

\* Step the vehicle; if it then transmits, publish and await the broadcasts.
TickStep(v, stride) ==
  /\ tick.at = "ready" /\ v \in tick.todo
  /\ fleet[v].bound \notin shapes.missing
  /\ LET after == StepVehicle(fleet[v], kin[v], stride)
     IN  /\ fleet' = [fleet EXCEPT ![v] = after.vehicle]
         /\ kin' = [kin EXCEPT ![v] = after.kin]
         /\ tick' = [ at |-> IF after.vehicle.transmitting THEN "await" ELSE "ready",
                      vehicle |-> IF after.vehicle.transmitting THEN v ELSE NoVehicle,
                      payload |-> IF after.vehicle.transmitting THEN Sensed(after) ELSE NoPayload,
                      todo |-> tick.todo \ {v} ]
  /\ UNCHANGED <<db, binderVars, shapes, report, controls>>

\* _get_shape raises KeyError: the task ends, and no vehicle moves again.
TickDies(v) ==
  /\ tick.at = "ready" /\ v \in tick.todo
  /\ fleet[v].bound \in shapes.missing
  /\ tick' = [tick EXCEPT !.at = "dead"]
  /\ UNCHANGED <<vars, kin, shapes, report, controls>>

\* After the broadcasts: the progression of the run that is bound by now, from where the
\* vehicle is by now and from the payload of before.  A shape without stops repeats the
\* last stop.
TickReport ==
  LET v == tick.vehicle  u == fleet[v]  prev == report[v]
      lost == u.bound \in shapes.missing \cup shapes.bare
  IN  /\ tick.at = "await"
      /\ report' = [report EXCEPT ![v] =
           [ run |-> u.bound, progress |-> u.progress,
             stop |-> IF lost THEN prev.stop ELSE StopStatus(u.progress, prev.stop),
             status |-> IF lost THEN "IN_TRANSIT_TO"
                        ELSE CurrentStatus(u.progress, tick.payload) ]]
      /\ tick' = [tick EXCEPT !.at = "ready", !.vehicle = NoVehicle, !.payload = NoPayload]
      /\ UNCHANGED <<vars, kin, shapes, controls>>

-----------------------------------------------------------------------------
(* The controller, in worker threads *)

Transmit(v, on) == "transmit" \in Knobs /\ fleet' = [fleet EXCEPT ![v] = SetTransmitting(@, on)]
Moving(v, on) == "moving" \in Knobs /\ fleet' = [fleet EXCEPT ![v] = SetMoving(@, on)]

\* The vehicle stands just before its terminal and moves, with or without a run.
JumpToTerminal(v) ==
  /\ "jump_to_terminal" \in Knobs
  /\ fleet[v].bound \notin shapes.missing
  /\ fleet' = [fleet EXCEPT ![v] = SetMoving(SetProgress(@, Length - 1), TRUE)]

JumpToStop(v, s) ==
  /\ "set_progress" \in Knobs
  /\ fleet[v].bound \notin shapes.missing
  /\ fleet' = [fleet EXCEPT ![v] = SetProgress(@, s)]

\* set_dwell_override: the vehicle waits where it is; a stop named with it counts as visited.
DwellAt(v, s, n) ==
  /\ "dwell" \in Knobs
  /\ LET last == IF s = NoStop THEN kin[v].lastStop ELSE s
     IN  kin' = [kin EXCEPT ![v] = [kin[v] EXCEPT !.dwell = n, !.lastStop = last]]

Control(v) ==
  /\ controls < MaxControls
  /\ controls' = controls + 1
  /\ \/ /\ \/ \E on \in BOOLEAN : Transmit(v, on)
           \/ \E on \in BOOLEAN : Moving(v, on)
           \/ JumpToTerminal(v)
           \/ \E s \in Stops : JumpToStop(v, s)
        /\ UNCHANGED kin
     \/ /\ \E s \in Stops \cup {NoStop}, n \in {0, DwellTicks} : DwellAt(v, s, n)
        /\ UNCHANGED fleet
  /\ UNCHANGED <<db, binderVars, shapes, tick, report>>

-----------------------------------------------------------------------------
(* The composition *)

\* The binder, its callers and databus, as in RunBinder; Drive stands there for this module.
BinderNext ==
  /\ \/ PollStep
     \/ AgeHeld
     \/ \E r \in Runs : Track(r) \/ Age(r) \/ UntrackLater(r) \/ DatabusStep(r)
  /\ UNCHANGED <<tickVars, controls>>

TickNext ==
  \/ TickWake
  \/ TickReport
  \/ \E v \in Roster : TickDrop(v) \/ TickDies(v) \/ \E d \in Strides : TickStep(v, d)

SimNext == BinderNext \/ TickNext \/ \E v \in Roster : Control(v)

SimSpec == SimInit /\ [][SimNext]_simVars

\* The tick task runs, and a vehicle is not dropped from every cycle.
TickFairness ==
  /\ WF_simVars(TickWake \/ TickReport)
  /\ \A v \in Roster : SF_simVars(TickDies(v) \/ \E d \in Strides : TickStep(v, d))

FairSimSpec == SimSpec /\ TickFairness

-----------------------------------------------------------------------------
(* Properties *)

\* The tick loop and the controller do to the binder nothing but what RunBinder's Drive
\* allows, so what is proved of the binder holds of the whole simulator.
BinderUndisturbed == Spec

\* Only the transmit knob puts a vehicle without a run on the air ("Vehicles only
\* transmit once their bound run reaches Confirmed", README.md:420): neither a run that is
\* taken off, nor the tick loop, nor another control that lands after it was, does.
OnAirWithoutRun(v) == fleet[v].transmitting /\ fleet[v].bound = NoRun
GoesOnAirByKnob ==
  \A v \in Roster : OnAirWithoutRun(v)' /\ ~ OnAirWithoutRun(v) => Transmit(v, TRUE)
OnAirHasRun == [][GoesOnAirByKnob]_simVars

\* The shape of a run it met was missing, and the tick loop is no more.
TickDead == tick.at = "dead"

\* A moving vehicle arrives or is stopped, dwells, drops and controls included
\* (kinematics.py:153-161).
RideEnds == \A v \in Roster : fleet[v].moving ~> ~ fleet[v].moving \/ TickDead

\* A vehicle whose countdown runs at its terminal stops transmitting unless it leaves,
\* although controls and dwells interrupt the countdown (kinematics.py:171-179,191-196).
FallsSilent ==
  \A v \in Roster :
    fleet[v].transmitting /\ fleet[v].progress = Length /\ kin[v].idle > 0
      ~> ~ fleet[v].transmitting \/ fleet[v].progress # Length \/ TickDead

\* The tick loop silences a vehicle only at its terminal ("Seconds a vehicle remains
\* transmitting after reaching the terminal stop", kinematics.py:44).
SilencedAtTerminal ==
  [][\A v \in Roster : TickNext /\ fleet[v].transmitting /\ ~ fleet'[v].transmitting
                        => fleet[v].progress = Length]_simVars

\* A vehicle reported as standing at a stop was at that stop when its position was taken
\* ("Vehicle is considered *at* a stop when within this radius", compute.py:25).
StoppedAtItsStop ==
  [][\A v \in Roster : TickReport /\ tick.vehicle = v /\ report'[v].status = "STOPPED_AT"
                        => report'[v].stop = tick.payload.progress]_simVars
===============================================================================

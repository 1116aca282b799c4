--------------------------- MODULE SimulatorProofs ---------------------------
(***************************************************************************)
(* Proofs about the composition of the binder, the tick loop and the       *)
(* controller, for any line, strides, fleet, runs, shapes and failures.    *)
(* What the tick loop and the controller do to a vehicle is a Drive of     *)
(* RunBinder, so the simulator implements RunBinder and inherits all that  *)
(* is proved of it.                                                        *)
(***************************************************************************)
EXTENDS Simulator, RunBinderProofs, WellFoundedInduction

\* What the tick loop and the controller may do to the record of a vehicle: switch
\* telemetry, set it moving or not, and place it; never its run or lifecycle.
Driven(u, w) == w \in Vehicle /\ w.bound = u.bound /\ w.lifecycle = u.lifecycle

\* Drives names every such change.
FullDrives == Drives = [transmitting : BOOLEAN, moving : BOOLEAN, progress : Positions]

SimIInv == IInv /\ KinType

\* With the types of what the tick loop adds.
SimTInv == SimIInv /\ SimTypeOK

-----------------------------------------------------------------------------
(* Lemmas about the operators *)

\* Each mutator of the fleet that leaves the run alone is a drive.
LEMMA NoDrive == ASSUME NEW u \in Vehicle PROVE Driven(u, u)
  BY DEF Driven

LEMMA TransmittingDrives ==
  ASSUME NEW u \in Vehicle, NEW on, on \in BOOLEAN
  PROVE  Driven(u, SetTransmitting(u, on)) /\ SetTransmitting(u, on).transmitting = on
  BY DEF Driven, SetTransmitting, Vehicle

LEMMA MovingDrives ==
  ASSUME NEW u \in Vehicle, NEW on, on \in BOOLEAN
  PROVE  Driven(u, SetMoving(u, on)) /\ SetMoving(u, on).transmitting = u.transmitting
  BY DEF Driven, SetMoving, Vehicle

LEMMA ProgressDrives ==
  ASSUME NEW u \in Vehicle, NEW p \in Positions
  PROVE  Driven(u, SetProgress(u, p)) /\ SetProgress(u, p).transmitting = u.transmitting
  BY DEF Driven, SetProgress, Vehicle

\* Two drives make a drive.
LEMMA DrivesCompose ==
  ASSUME NEW u, NEW w, NEW x, Driven(u, w), Driven(w, x)
  PROVE  Driven(u, x)
  BY DEF Driven

\* step_vehicle keeps the record and the scratch values in range, leaves the run alone
\* and never switches telemetry on (kinematics.py:150-206).
LEMMA StepVehicleFacts ==
  ASSUME NEW u \in Vehicle, NEW k \in Kin, NEW stride \in Strides
  PROVE  /\ Driven(u, StepVehicle(u, k, stride).vehicle)
         /\ StepVehicle(u, k, stride).kin \in Kin
         /\ StepVehicle(u, k, stride).vehicle.transmitting => u.transmitting
  <1> USE KinematicsAssumption
  <1> DEFINE s == StepVehicle(u, k, stride)
  <1>0. /\ u.transmitting \in BOOLEAN /\ u.moving \in BOOLEAN /\ u.progress \in 0 .. Length
        /\ k.dwell \in Nat /\ k.idle \in 0 .. IdleTicks
    BY DEF Vehicle, Kin
  <1>1. CASE k.dwell > 0
    <2>1. s.vehicle = u /\ s.kin = [k EXCEPT !.dwell = @ - 1]
      BY <1>1 DEF StepVehicle, Dwell, Moved
    <2>2. s.kin \in Kin
      BY <1>1, <2>1 DEF Kin
    <2> QED
      BY <2>1, <2>2, NoDrive
  <1>2. CASE k.dwell = 0 /\ ~ u.moving
    <2>1. s = Idle(u, k)
      BY <1>2 DEF StepVehicle
    <2>2. CASE k.idle = 0
      <3>1. s.vehicle = u /\ s.kin = k
        BY <2>1, <2>2 DEF Idle, Moved
      <3> QED
        BY <3>1, NoDrive
    <2>3. CASE k.idle # 0
      <3> DEFINE on == u.transmitting /\ k.idle > 1
      <3>1. s.vehicle = SetTransmitting(u, on) /\ s.kin = [k EXCEPT !.idle = @ - 1]
        BY <2>1, <2>3 DEF Idle, Moved
      <3>2. on \in BOOLEAN /\ (on => u.transmitting)
        BY <1>0
      <3>3. s.kin \in Kin
        BY <1>0, <2>3, <3>1 DEF Kin
      <3> HIDE DEF on
      <3> QED
        BY <3>1, <3>2, <3>3, TransmittingDrives
    <2> QED
      BY <2>2, <2>3
  <1>3. CASE k.dwell = 0 /\ u.moving /\ u.progress + stride >= Length
    <2>1. s = Arrive(u, k)
      BY <1>3 DEF StepVehicle
    <2> DEFINE w == SetProgress(u, Length)
    <2>2. s.vehicle = SetMoving(w, FALSE) /\ s.kin = [k EXCEPT !.idle = IdleTicks]
      BY <2>1 DEF Arrive, Moved
    <2>3. s.kin \in Kin
      BY <2>2 DEF Kin
    <2>4. Driven(u, w) /\ w.transmitting = u.transmitting
      BY ProgressDrives
    <2>5. w \in Vehicle
      BY <2>4 DEF Driven
    <2> HIDE DEF w
    <2>6. Driven(w, s.vehicle) /\ s.vehicle.transmitting = w.transmitting
      BY <2>2, <2>5, MovingDrives
    <2>7. Driven(u, s.vehicle)
      BY <2>4, <2>6, DrivesCompose
    <2> QED
      BY <2>3, <2>4, <2>6, <2>7
  <1>4. CASE k.dwell = 0 /\ u.moving /\ ~ (u.progress + stride >= Length)
    <2> DEFINE p == u.progress + stride
    <2>1. s = Advance(u, k, stride)
      BY <1>4 DEF StepVehicle
    <2>2. p \in Positions
      BY <1>0, <1>4
    <2>3. s.vehicle = SetProgress(u, p)
      BY <2>1 DEF Advance, Moved
    <2>4. CASE p \in Stops /\ p # k.lastStop
      <3>1. s.kin = [k EXCEPT !.lastStop = p, !.dwell = DwellTicks]
        BY <2>1, <2>4 DEF Advance, Moved
      <3>2. s.kin \in Kin
        BY <2>4, <3>1 DEF Kin
      <3> HIDE DEF p
      <3> QED
        BY <2>2, <2>3, <3>2, ProgressDrives
    <2>5. CASE ~ (p \in Stops /\ p # k.lastStop)
      <3>1. s.kin = k
        BY <2>1, <2>5 DEF Advance, Moved
      <3> HIDE DEF p
      <3> QED
        BY <2>2, <2>3, <3>1, ProgressDrives
    <2> QED
      BY <2>4, <2>5
  <1> QED
    BY <1>0, <1>1, <1>2, <1>3, <1>4

\* Two records that agree on run and lifecycle differ by a Drive.
LEMMA DriveBetween ==
  ASSUME NEW u \in Vehicle, NEW w, Driven(u, w)
  PROVE  w = SetProgress(SetMoving(SetTransmitting(u, w.transmitting), w.moving), w.progress)
  BY DEF Driven, Vehicle, SetProgress, SetMoving, SetTransmitting

LEMMA DrivenIsNext ==
  ASSUME FleetType, FullDrives, NEW v \in Roster, NEW w, Driven(fleet[v], w),
         fleet' = [fleet EXCEPT ![v] = w], UNCHANGED <<db, binderVars>>
  PROVE  Next
  <1> DEFINE d == [transmitting |-> w.transmitting, moving |-> w.moving, progress |-> w.progress]
  <1>1. w \in Vehicle /\ fleet[v] \in Vehicle
    BY DEF Driven, FleetType
  <1>2. d \in Drives
    BY <1>1 DEF FullDrives, Vehicle
  <1>3. w = SetProgress(SetMoving(SetTransmitting(fleet[v], d.transmitting), d.moving), d.progress)
    BY <1>1, DriveBetween
  <1>4. Drive(v, d)
    BY <1>3 DEF Drive
  <1> QED
    BY <1>2, <1>4 DEF Next

-----------------------------------------------------------------------------
(* Steps of the simulator are steps of the binder's specification *)

\* A control changes one vehicle by a Drive, or only scratch values.
LEMMA ControlSteps ==
  ASSUME SimIInv, NEW v \in Roster, Control(v)
  PROVE  /\ \/ \E w : Driven(fleet[v], w) /\ fleet' = [fleet EXCEPT ![v] = w]
            \/ UNCHANGED fleet
         /\ UNCHANGED <<db, binderVars>> /\ KinType'
  <1> USE KinematicsAssumption
  <1>1. fleet[v] \in Vehicle /\ kin[v] \in Kin
    BY DEF SimIInv, IInv, TypeOK, FleetType, KinType
  <1>2. UNCHANGED <<db, binderVars>>
    BY DEF Control
  <1>3. ASSUME NEW on \in BOOLEAN, Transmit(v, on)
        PROVE  \E w : Driven(fleet[v], w) /\ fleet' = [fleet EXCEPT ![v] = w]
    <2>1. Driven(fleet[v], SetTransmitting(fleet[v], on))
      BY <1>1 DEF Driven, SetTransmitting, Vehicle
    <2> QED
      BY <1>3, <2>1 DEF Transmit
  <1>4. ASSUME NEW on \in BOOLEAN, Moving(v, on)
        PROVE  \E w : Driven(fleet[v], w) /\ fleet' = [fleet EXCEPT ![v] = w]
    <2>1. Driven(fleet[v], SetMoving(fleet[v], on))
      BY <1>1 DEF Driven, SetMoving, Vehicle
    <2> QED
      BY <1>4, <2>1 DEF Moving
  <1>5. ASSUME JumpToTerminal(v)
        PROVE  \E w : Driven(fleet[v], w) /\ fleet' = [fleet EXCEPT ![v] = w]
    <2> DEFINE u == fleet[v]
    <2>1. Length - 1 \in Positions
      OBVIOUS
    <2>2. SetMoving(SetProgress(u, Length - 1), TRUE)
            = [u EXCEPT !.progress = Length - 1, !.moving = TRUE]
      BY <1>1 DEF SetMoving, SetProgress, Vehicle
    <2>3. Driven(u, SetMoving(SetProgress(u, Length - 1), TRUE))
      BY <1>1, <2>1, <2>2 DEF Driven, Vehicle
    <2> QED
      BY <1>5, <2>3 DEF JumpToTerminal
  <1>6. ASSUME NEW s \in Stops, JumpToStop(v, s)
        PROVE  \E w : Driven(fleet[v], w) /\ fleet' = [fleet EXCEPT ![v] = w]
    <2>1. Driven(fleet[v], SetProgress(fleet[v], s))
      BY <1>1 DEF Driven, SetProgress, Vehicle
    <2> QED
      BY <1>6, <2>1 DEF JumpToStop
  <1>7. ASSUME NEW s \in Stops \cup {NoStop}, NEW n \in {0, DwellTicks}, DwellAt(v, s, n)
        PROVE  KinType'
    <2> DEFINE k == kin[v]
               last == IF s = NoStop THEN k.lastStop ELSE s
    <2>1. n \in Nat /\ last \in Stops \cup {NoStop}
      BY <1>1 DEF Kin
    <2>2. [k EXCEPT !.dwell = n, !.lastStop = last] \in Kin
      BY <1>1, <2>1 DEF Kin
    <2>3. kin' = [kin EXCEPT ![v] = [k EXCEPT !.dwell = n, !.lastStop = last]]
      BY <1>7 DEF DwellAt
    <2> HIDE DEF last
    <2> QED
      BY <2>2, <2>3 DEF KinType, SimIInv
  <1>8. UNCHANGED kin => KinType'
    BY DEF SimIInv, KinType
  <1> QED
    BY <1>2, <1>3, <1>4, <1>5, <1>6, <1>7, <1>8 DEF Control

\* A step of the tick loop drives one vehicle, or leaves fleet and scratch values alone.
LEMMA TickSteps ==
  ASSUME SimIInv, TickNext
  PROVE  /\ \/ \E v \in Roster : \E w :
                 Driven(fleet[v], w) /\ fleet' = [fleet EXCEPT ![v] = w] /\ UNCHANGED <<db, binderVars>>
            \/ UNCHANGED vars
         /\ KinType'
  <1>1. UNCHANGED kin => KinType'
    BY DEF SimIInv, KinType
  <1>2. ASSUME NEW v \in Roster, NEW d \in Strides, TickStep(v, d)
        PROVE  /\ Driven(fleet[v], StepVehicle(fleet[v], kin[v], d).vehicle)
               /\ fleet' = [fleet EXCEPT ![v] = StepVehicle(fleet[v], kin[v], d).vehicle]
               /\ UNCHANGED <<db, binderVars>> /\ KinType'
    <2>1. fleet[v] \in Vehicle /\ kin[v] \in Kin
      BY DEF SimIInv, IInv, TypeOK, FleetType, KinType
    <2> QED
      BY <1>2, <2>1, StepVehicleFacts DEF TickStep, KinType, SimIInv
  <1>3. ASSUME TickWake \/ TickReport \/ \E v \in Roster : TickDrop(v) \/ TickDies(v)
        PROVE  UNCHANGED vars /\ UNCHANGED kin
    BY <1>3 DEF TickWake, TickReport, TickDrop, TickDies
  <1> QED
    BY <1>1, <1>2, <1>3 DEF TickNext

LEMMA SimStep == ASSUME FullDrives, SimIInv, [SimNext]_simVars
                 PROVE  [Next]_vars /\ SimIInv'
  <1>1. FleetType /\ IInv
    BY DEF SimIInv, IInv, TypeOK
  <1>2. UNCHANGED kin => KinType'
    BY DEF SimIInv, KinType
  <1>3. [Next]_vars /\ KinType'
    <2>1. CASE BinderNext
      BY <1>2, <2>1 DEF BinderNext, Next, tickVars
    <2>2. CASE TickNext
      BY <1>1, <2>2, TickSteps, DrivenIsNext
    <2>3. ASSUME NEW v \in Roster, Control(v) PROVE [Next]_vars /\ KinType'
      <3>1. CASE UNCHANGED fleet
        BY <2>3, <3>1, ControlSteps DEF vars
      <3>2. ASSUME NEW w, Driven(fleet[v], w), fleet' = [fleet EXCEPT ![v] = w]
            PROVE  Next
        BY <1>1, <2>3, <3>2, ControlSteps, DrivenIsNext
      <3> QED
        BY <2>3, <3>1, <3>2, ControlSteps
    <2>4. CASE UNCHANGED simVars
      BY <1>2, <2>4 DEF simVars, tickVars
    <2> QED
      BY <2>1, <2>2, <2>3, <2>4 DEF SimNext
  <1>4. IInv'
    BY <1>1, <1>3, NextInv
  <1> QED
    BY <1>3, <1>4 DEF SimIInv

LEMMA SimInitInv == SimInit => Init /\ SimIInv
  <1> SUFFICES ASSUME SimInit PROVE Init /\ SimIInv
    OBVIOUS
  <1>1. Init /\ IInv
    BY InitInv DEF SimInit
  <1>2. NewKin \in Kin
    BY KinematicsAssumption DEF NewKin, Kin
  <1>3. KinType
    BY <1>2 DEF SimInit, KinInit, KinType
  <1> QED
    BY <1>1, <1>3 DEF SimIInv

\* Neither the tick loop nor a control of any kind, landing anywhere between the binder's
\* steps, does to the binder's world what RunBinder does not allow.
THEOREM SimImplementsBinder ==
  ASSUME FullDrives
  PROVE  SimSpec => BinderUndisturbed
  <1>1. SimIInv /\ [SimNext]_simVars => [Next]_vars /\ SimIInv'
    BY SimStep
  <1>2. SimInit => Init /\ SimIInv
    BY SimInitInv
  <1> QED
    BY <1>1, <1>2, PTL DEF SimSpec, Spec, BinderUndisturbed

-----------------------------------------------------------------------------
(* What the binder promises, in the whole simulator *)

\* The run on a vehicle is one the poll loop still visits, with the tick loop and the
\* controller at work.
THEOREM SimBoundPolled ==
  ASSUME FullDrives
  PROVE  SimSpec => []BoundIsPolled
  BY SimImplementsBinder, BoundPolled, PTL DEF BinderUndisturbed

\* A delayed untrack drops the binding of a run that is over and on no vehicle, whatever
\* the tick loop and the controls have made of the vehicle by then.
THEOREM SimClosedRetired ==
  ASSUME FullDrives
  PROVE  SimSpec => []ClosedIsRetired
  BY SimImplementsBinder, ClosedRetired, PTL DEF BinderUndisturbed

\* The whole simulator, ticks and knobs included, implements the abstract assignment of
\* runs to vehicles (run_binder.py:89-175).
THEOREM SimImplementsAssignment ==
  ASSUME FullDrives
  PROVE  SimSpec => ImplementsAssignment
  BY SimImplementsBinder, Refinement, PTL DEF BinderUndisturbed

\* Neither a tick nor a knob takes a live run off its vehicle, nor makes the binder do so:
\* only an answer about a run of the vehicle does.
THEOREM SimLiveRunsOusted ==
  ASSUME FullDrives
  PROVE  SimSpec => LiveRunOustedByAnswer
  BY SimImplementsBinder, LiveRunsOusted, PTL DEF BinderUndisturbed

\* The label of a vehicle is spoilt by other runs of the vehicle only, while the vehicle is
\* stepped and controlled.
THEOREM SimLabelsSpoilt ==
  ASSUME FullDrives
  PROVE  SimSpec => LabelSpoiltByOtherRun
  BY SimImplementsBinder, LabelsSpoilt, PTL DEF BinderUndisturbed

\* A control other than the transmit knob keeps or switches off telemetry, and no
\* control takes a run off.
LEMMA ControlKeepsSilence ==
  ASSUME SimIInv, NEW v \in Roster, Control(v), NEW q \in Roster
  PROVE  /\ fleet'[q].bound = fleet[q].bound
         /\ \/ fleet'[q].transmitting => fleet[q].transmitting
            \/ Transmit(q, TRUE)
  <1> DEFINE Quiet == /\ fleet'[q].bound = fleet[q].bound
                      /\ fleet'[q].transmitting => fleet[q].transmitting
  <1>1. fleet \in [Roster -> Vehicle] /\ fleet[v] \in Vehicle
    BY DEF SimIInv, IInv, TypeOK, FleetType
  <1>2. ASSUME NEW w, Driven(fleet[v], w), w.transmitting => fleet[v].transmitting,
               fleet' = [fleet EXCEPT ![v] = w]
        PROVE  Quiet
    BY <1>1, <1>2 DEF Driven
  <1>3. ASSUME NEW on \in BOOLEAN, Transmit(v, on)
        PROVE  fleet'[q].bound = fleet[q].bound /\ (Quiet \/ Transmit(q, TRUE))
    <2>1. fleet' = [fleet EXCEPT ![v] = SetTransmitting(fleet[v], on)]
      BY <1>3 DEF Transmit
    <2>2. /\ Driven(fleet[v], SetTransmitting(fleet[v], on))
          /\ SetTransmitting(fleet[v], on).transmitting = on
      BY <1>1, TransmittingDrives
    <2>3. fleet'[q].bound = fleet[q].bound
      BY <1>1, <2>1, <2>2 DEF Driven
    <2>4. CASE v = q /\ on
      <3>1. on = TRUE
        BY <2>4
      <3> QED
        BY <1>3, <2>3, <2>4, <3>1
    <2>5. CASE v # q
      BY <1>1, <2>1, <2>3, <2>5
    <2>6. CASE ~ on
      BY <1>2, <2>1, <2>2, <2>6
    <2> QED
      BY <2>3, <2>4, <2>5, <2>6
  <1>4. ASSUME NEW on \in BOOLEAN, Moving(v, on) PROVE Quiet
    <2>1. fleet' = [fleet EXCEPT ![v] = SetMoving(fleet[v], on)]
      BY <1>4 DEF Moving
    <2> QED
      BY <1>1, <1>2, <2>1, MovingDrives
  <1>5. ASSUME JumpToTerminal(v) PROVE Quiet
    <2> DEFINE w == SetProgress(fleet[v], Length - 1)
    <2>1. fleet' = [fleet EXCEPT ![v] = SetMoving(w, TRUE)]
      BY <1>5 DEF JumpToTerminal
    <2>2. Length - 1 \in Positions
      BY KinematicsAssumption
    <2>3. Driven(fleet[v], w) /\ w.transmitting = fleet[v].transmitting
      BY <1>1, <2>2, ProgressDrives
    <2>4. w \in Vehicle
      BY <2>3 DEF Driven
    <2> HIDE DEF w
    <2>5. Driven(w, SetMoving(w, TRUE)) /\ SetMoving(w, TRUE).transmitting = w.transmitting
      BY <2>4, MovingDrives
    <2>6. Driven(fleet[v], SetMoving(w, TRUE))
      BY <2>3, <2>5, DrivesCompose
    <2> QED
      BY <1>2, <2>1, <2>3, <2>5, <2>6
  <1>6. ASSUME NEW s \in Stops, JumpToStop(v, s) PROVE Quiet
    <2>1. fleet' = [fleet EXCEPT ![v] = SetProgress(fleet[v], s)]
      BY <1>6 DEF JumpToStop
    <2>2. s \in Positions
      BY KinematicsAssumption
    <2> QED
      BY <1>1, <1>2, <2>1, <2>2, ProgressDrives
  <1>7. UNCHANGED fleet => Quiet
    OBVIOUS
  <1> HIDE DEF Quiet
  <1>8. Quiet => fleet'[q].bound = fleet[q].bound /\ (fleet'[q].transmitting => fleet[q].transmitting)
    BY DEF Quiet
  <1> QED
    BY <1>3, <1>4, <1>5, <1>6, <1>7, <1>8 DEF Control

\* The tick loop takes no run off and switches no telemetry on.
LEMMA TickKeepsSilence ==
  ASSUME SimIInv, TickNext, NEW q \in Roster
  PROVE  fleet'[q].bound = fleet[q].bound /\ (fleet'[q].transmitting => fleet[q].transmitting)
  <1>1. fleet \in [Roster -> Vehicle] /\ kin \in [Roster -> Kin]
    BY DEF SimIInv, IInv, TypeOK, FleetType, KinType
  <1>2. ASSUME NEW v \in Roster, NEW d \in Strides, TickStep(v, d)
        PROVE  fleet'[q].bound = fleet[q].bound /\ (fleet'[q].transmitting => fleet[q].transmitting)
    <2> DEFINE w == StepVehicle(fleet[v], kin[v], d).vehicle
    <2>1. fleet' = [fleet EXCEPT ![v] = w]
      BY <1>2 DEF TickStep
    <2>2. Driven(fleet[v], w) /\ (w.transmitting => fleet[v].transmitting)
      BY <1>1, StepVehicleFacts
    <2> HIDE DEF w
    <2> QED
      BY <1>1, <2>1, <2>2 DEF Driven
  <1>3. ASSUME TickWake \/ TickReport \/ \E v \in Roster : TickDrop(v) \/ TickDies(v)
        PROVE  UNCHANGED fleet
    BY <1>3 DEF TickWake, TickReport, TickDrop, TickDies, vars
  <1> QED
    BY <1>2, <1>3 DEF TickNext

\* The binder switches telemetry on only together with a run, and off with it.
LEMMA BinderBindsFirst ==
  ASSUME SimIInv, BinderNext, NEW q \in Roster, OnAirWithoutRun(q)'
  PROVE  OnAirWithoutRun(q)
  <1>1. fleet \in [Roster -> Vehicle] /\ call \in Call
    BY DEF SimIInv, IInv, TypeOK, FleetType, BinderType
  <1>2. CASE UNCHANGED fleet
    BY <1>2 DEF OnAirWithoutRun
  <1>3. ASSUME NEW v \in Roster, NEW w, fleet' = [fleet EXCEPT ![v] = w],
               w.transmitting /\ w.bound = NoRun => OnAirWithoutRun(v)
        PROVE  OnAirWithoutRun(q)
    BY <1>1, <1>3 DEF OnAirWithoutRun
  <1>4. CASE PollLost
    <2> DEFINE v == VehicleOf[call.run]
    <2>1. v \in Roster /\ fleet' = [fleet EXCEPT ![v] = UnbindRun(fleet[v])]
      BY <1>4 DEF PollLost, Known
    <2>2. ~ UnbindRun(fleet[v]).transmitting
      BY <1>1, <2>1 DEF UnbindRun, Vehicle
    <2> HIDE DEF v
    <2> QED
      BY <1>3, <2>1, <2>2
  <1>5. CASE PollChange
    <2> DEFINE r == call.run
               v == VehicleOf[r]
               w == ApplyState(fleet[v], r, call.reply)
    <2>1. v \in Roster /\ call.reply \in LifecycleStates /\ fleet' = [fleet EXCEPT ![v] = w]
      BY <1>5 DEF PollChange, Known
    <2>2. r \in Runs
      BY <1>5, ReplyHasRun DEF PollChange, SimIInv, IInv, LifecycleStates, RUNNING_STATES, CLOSED_STATES, NoState
    <2>3. fleet[v] \in Vehicle
      BY <1>1, <2>1
    <2>4. w.transmitting /\ w.bound = NoRun => OnAirWithoutRun(v)
      <3>1. CASE call.reply = "Confirmed"
        BY <2>1, <2>2, <2>3, <3>1, ApplyStateFacts, FleetAssumption
      <3>2. CASE call.reply \in TERMINAL_STATES
        <4>1. call.reply # "Confirmed"
          BY <3>2 DEF TERMINAL_STATES
        <4>2. w = UnbindRun(SetTransmitting(SetLifecycleState(fleet[v], call.reply), FALSE))
          BY <3>2, <4>1 DEF ApplyState
        <4> QED
          BY <2>3, <4>2 DEF UnbindRun, SetTransmitting, SetLifecycleState, Vehicle
      <3>3. CASE call.reply # "Confirmed" /\ call.reply \notin TERMINAL_STATES
        <4>1. w = SetLifecycleState(fleet[v], call.reply)
          BY <3>3 DEF ApplyState
        <4> QED
          BY <2>3, <4>1 DEF SetLifecycleState, Vehicle, OnAirWithoutRun
      <3> QED
        BY <3>1, <3>2, <3>3
    <2> HIDE DEF v, w
    <2> QED
      BY <1>3, <2>1, <2>4
  <1>6. UNCHANGED fleet \/ PollLost \/ PollChange
    BY DEF BinderNext, PollStep, PollWake, PollSkip, PollRequest, PollResume, PollError,
           PollNotYet, PollSame, PollDies, AgeHeld, Track, Age, UntrackLater, DatabusStep
  <1> QED
    BY <1>2, <1>4, <1>5, <1>6

\* Whatever the order of binder, tick loop and controls, only the transmit knob puts a
\* vehicle without a run on the air.
THEOREM OnAirOnlyWithRun ==
  ASSUME FullDrives
  PROVE  SimSpec => OnAirHasRun
  <1>1. SimInit => SimIInv
    BY SimInitInv
  <1>2. SimIInv /\ [SimNext]_simVars => SimIInv'
    BY SimStep
  <1>3. SimIInv /\ [SimNext]_simVars => [GoesOnAirByKnob]_simVars
    <2> SUFFICES ASSUME SimIInv, SimNext, NEW q \in Roster,
                        OnAirWithoutRun(q)', ~ OnAirWithoutRun(q)
                 PROVE  Transmit(q, TRUE)
      BY DEF GoesOnAirByKnob
    <2>1. CASE BinderNext
      BY <2>1, BinderBindsFirst
    <2>2. CASE TickNext
      BY <2>2, TickKeepsSilence DEF OnAirWithoutRun
    <2>3. ASSUME NEW v \in Roster, Control(v) PROVE Transmit(q, TRUE)
      BY <2>3, ControlKeepsSilence DEF OnAirWithoutRun
    <2> QED
      BY <2>1, <2>2, <2>3 DEF SimNext
  <1> QED
    BY <1>1, <1>2, <1>3, PTL DEF SimSpec, OnAirHasRun
-----------------------------------------------------------------------------
(* What a tick reports *)

\* A set of naturals that is not empty has a least member.
LEMMA LeastStop ==
  ASSUME NEW T, T \subseteq Nat, T # {}
  PROVE  \E s \in T : \A t \in T : s <= t
  <1>1. PICK s \in T : \A t \in T : ~ (<<t, s>> \in OpToRel(<, Nat))
    BY NatLessThanWellFounded, WFMin
  <1>2. \A t \in T : ~ (t < s)
    BY <1>1 DEF OpToRel
  <1> QED
    BY <1>2

\* Stops are positions of the line.
LEMMA StopsOnLine == \A s \in Stops \cup {NoStop} : s \in Nat /\ s <= Length
  <1> SUFFICES ASSUME NEW s \in Stops PROVE s \in Nat /\ s <= Length
    BY KinematicsAssumption
  <1>1. Stops \subseteq 1 .. Length /\ Length \in Nat
    BY KinematicsAssumption
  <1> QED
    BY <1>1

\* From anywhere on the line the upcoming stop is a stop (compute.py:163-182).
LEMMA UpcomingFacts ==
  ASSUME NEW p \in Positions
  PROVE  Upcoming(p) \in Stops /\ Upcoming(p) \in Nat
  <1> DEFINE T == {s \in Stops : s >= p}
  <1>1. T \subseteq Nat /\ Length \in T
    <2>1. Length \in Stops /\ Length >= p
      BY KinematicsAssumption
    <2> QED
      BY <2>1, StopsOnLine
  <1>2. PICK s \in T : \A t \in T : s <= t
    BY <1>1, LeastStop
  <1>3. s \in Stops /\ s >= p /\ \A t \in Stops : t >= p => s <= t
    BY <1>2
  <1>4. Upcoming(p) \in Stops
    BY <1>3 DEF Upcoming
  <1> QED
    BY <1>4, StopsOnLine

\* The stop reported is a stop (compute.py:147-154).
LEMMA StopStatusFacts ==
  ASSUME NEW p \in Positions, NEW prev \in Stops \cup {NoStop}
  PROVE  StopStatus(p, prev) \in Stops \cup {NoStop}
  BY UpcomingFacts DEF StopStatus

\* Every report is well formed.
LEMMA ReportFacts ==
  ASSUME SimTInv, TickReport
  PROVE  /\ tick.vehicle \in Roster
         /\ \E w \in Report : report' = [report EXCEPT ![tick.vehicle] = w]
  <1> DEFINE v == tick.vehicle
             u == fleet[v]
             prev == report[v]
             lost == u.bound \in shapes.missing \cup shapes.bare
             stop == IF lost THEN prev.stop ELSE StopStatus(u.progress, prev.stop)
             status == IF lost THEN "IN_TRANSIT_TO" ELSE CurrentStatus(u.progress, tick.payload)
             w == [run |-> u.bound, progress |-> u.progress, stop |-> stop, status |-> status]
  <1>1. v \in Roster
    BY DEF SimTInv, SimTypeOK, TickReport
  <1>2. u \in Vehicle /\ prev \in Report
    BY <1>1 DEF SimTInv, SimIInv, IInv, TypeOK, FleetType, SimTypeOK
  <1>3. /\ u.bound \in Runs \cup {NoRun} /\ u.progress \in Positions
        /\ prev.stop \in Stops \cup {NoStop}
    BY <1>2 DEF Vehicle, Report
  <1> HIDE DEF u, prev
  <1>4. stop \in Stops \cup {NoStop}
    BY <1>3, StopStatusFacts
  <1>5. CurrentStatus(u.progress, tick.payload) \in StopStates
    BY DEF CurrentStatus, StopStates
  <1>6. status \in StopStates
    BY <1>5 DEF StopStates
  <1>7. report' = [report EXCEPT ![v] = w]
    BY DEF TickReport, u, prev
  <1> HIDE DEF stop, status, v
  <1>8. w \in Report
    BY <1>3, <1>4, <1>6 DEF Report
  <1> HIDE DEF w
  <1> QED
    BY <1>1, <1>7, <1>8 DEF v

\* What the tick loop has built before it awaits is a position and a speed.
LEMMA SensedFacts ==
  ASSUME NEW u \in Vehicle, NEW k \in Kin, NEW stride \in Strides
  PROVE  Sensed(StepVehicle(u, k, stride)) \in Payload
  <1> DEFINE s == StepVehicle(u, k, stride)
  <1>1. s.vehicle \in Vehicle
    BY StepVehicleFacts DEF Driven
  <1> HIDE DEF s
  <1>2. s.vehicle.progress \in Positions
    BY <1>1 DEF Vehicle
  <1>3. (~ s.vehicle.moving \/ s.kin.dwell > 0) \in BOOLEAN
    OBVIOUS
  <1>4. Sensed(s) \in Payload
    BY <1>2, <1>3 DEF Sensed, Payload
  <1> QED
    BY <1>4 DEF s

LEMMA SimTypeStep ==
  ASSUME FullDrives, SimTInv, [SimNext]_simVars
  PROVE  SimTInv'
  <1> DEFINE TickType == tick \in [at : {"ready", "await", "dead"}, vehicle : Roster \cup {NoVehicle},
                                   payload : Payload, todo : SUBSET Roster]
             TickAt == tick.at = "await" <=> tick.vehicle # NoVehicle
             Mine == TickType /\ TickAt /\ report \in [Roster -> Report]
  <1>1. SimIInv' /\ TypeOK' /\ KinType'
    BY SimStep DEF SimTInv, SimIInv, IInv
  <1>2. Mine /\ shapes \in ShapeFiles /\ controls \in 0 .. MaxControls
    BY DEF SimTInv, SimTypeOK
  <1>3. UNCHANGED <<tick, report>> => Mine'
    BY <1>2
  <1>4. CASE BinderNext
    BY <1>1, <1>2, <1>3, <1>4 DEF BinderNext, tickVars, SimTInv, SimTypeOK
  <1>5. CASE UNCHANGED simVars
    BY <1>1, <1>2, <1>3, <1>5 DEF simVars, tickVars, SimTInv, SimTypeOK
  <1>6. ASSUME NEW v \in Roster, Control(v) PROVE SimTInv'
    <2>1. UNCHANGED <<shapes, tick, report>> /\ controls < MaxControls /\ controls' = controls + 1
      BY <1>6 DEF Control
    <2>2. controls' \in 0 .. MaxControls
      BY <1>2, <2>1, SimulatorAssumption
    <2> QED
      BY <1>1, <1>2, <1>3, <2>1, <2>2 DEF SimTInv, SimTypeOK
  <1>7. ASSUME TickNext PROVE SimTInv'
    <2>1. UNCHANGED <<shapes, controls>>
      BY <1>7 DEF TickNext, TickWake, TickReport, TickDrop, TickDies, TickStep
    <2>2. ASSUME TickWake PROVE Mine'
      BY <1>2, <2>2 DEF TickWake
    <2>3. ASSUME TickReport PROVE Mine'
      <3>1. report' \in [Roster -> Report]
        BY <1>2, <2>3, ReportFacts
      <3>2. tick' = [tick EXCEPT !.at = "ready", !.vehicle = NoVehicle, !.payload = NoPayload]
        BY <2>3 DEF TickReport
      <3>3. NoPayload \in Payload
        BY KinematicsAssumption DEF NoPayload, Payload
      <3>4. TickType' /\ TickAt'
        BY <1>2, <3>2, <3>3
      <3> QED
        BY <3>1, <3>4
    <2>4. ASSUME NEW v \in Roster, TickDrop(v) \/ TickDies(v) PROVE Mine'
      BY <1>2, <2>4 DEF TickDrop, TickDies
    <2>5. ASSUME NEW v \in Roster, NEW d \in Strides, TickStep(v, d) PROVE Mine'
      <3> DEFINE s == StepVehicle(fleet[v], kin[v], d)
                 on == s.vehicle.transmitting
      <3>1. fleet[v] \in Vehicle /\ kin[v] \in Kin
        BY DEF SimTInv, SimIInv, IInv, TypeOK, FleetType, KinType
      <3>2. Sensed(s) \in Payload /\ NoPayload \in Payload
        BY <3>1, SensedFacts, KinematicsAssumption DEF NoPayload, Payload
      <3>3. /\ tick' = [ at |-> IF on THEN "await" ELSE "ready",
                         vehicle |-> IF on THEN v ELSE NoVehicle,
                         payload |-> IF on THEN Sensed(s) ELSE NoPayload,
                         todo |-> tick.todo \ {v} ]
            /\ report' = report
        BY <2>5 DEF TickStep
      <3>4. v # NoVehicle
        BY SimulatorAssumption
      <3>5. tick.todo \ {v} \in SUBSET Roster
        BY <1>2
      <3> HIDE DEF s, on
      <3>6. CASE on
        BY <1>2, <3>2, <3>3, <3>4, <3>5, <3>6
      <3>7. CASE ~ on
        BY <1>2, <3>2, <3>3, <3>5, <3>7
      <3> QED
        BY <3>6, <3>7
    <2>6. Mine'
      BY <1>7, <2>2, <2>3, <2>4, <2>5 DEF TickNext
    <2> QED
      BY <1>1, <1>2, <2>1, <2>6 DEF SimTInv, SimTypeOK
  <1> QED
    BY <1>4, <1>5, <1>6, <1>7 DEF SimNext

LEMMA SimTypeInit == SimInit => SimTInv
  <1> SUFFICES ASSUME SimInit PROVE SimTInv
    OBVIOUS
  <1>1. SimIInv /\ TypeOK /\ KinType
    BY SimInitInv DEF SimIInv, IInv
  <1>2. NoPayload \in Payload /\ NoReport \in Report
    BY KinematicsAssumption DEF NoPayload, Payload, NoReport, Report, StopStates
  <1> QED
    BY <1>1, <1>2, SimulatorAssumption DEF SimInit, SimTInv, SimTypeOK

LEMMA SimInvariance == ASSUME FullDrives PROVE SimSpec => []SimTInv
  <1>1. SimTInv /\ [SimNext]_simVars => SimTInv'
    BY SimTypeStep
  <1> QED
    BY <1>1, SimTypeInit, PTL DEF SimSpec

\* The variables of the whole simulator keep their types.
THEOREM SimTypeCorrect ==
  ASSUME FullDrives
  PROVE  SimSpec => []SimTypeOK
  <1>1. SimTInv => SimTypeOK
    BY DEF SimTInv
  <1> QED
    BY <1>1, SimInvariance, PTL

-----------------------------------------------------------------------------
(* What the ends of a ride and of a countdown rest on *)

\* The ticks a ride still takes at most: each step of the line may cost a dwell.
TicksLeft(u, k) == (Length - u.progress) * (DwellTicks + 1) + k.dwell

RideBounded == \A v \in Roster : TicksLeft(fleet[v], kin[v]) \in Nat

\* A tick brings a vehicle that moves closer to its terminal stop.
RideShortens ==
  \A v \in Roster, d \in Strides :
    TickStep(v, d) /\ fleet[v].moving =>
      \/ ~ fleet'[v].moving /\ fleet'[v].progress = Length
      \/ /\ fleet'[v].moving
         /\ TicksLeft(fleet'[v], kin'[v]) < TicksLeft(fleet[v], kin[v])

\* A tick of a vehicle whose countdown runs counts a dwell or the countdown down, or the
\* vehicle moves; when nothing is left of the countdown its telemetry is off.
CountdownShortens ==
  \A v \in Roster, d \in Strides :
    TickStep(v, d) /\ ~ fleet[v].moving /\ kin[v].idle > 0 =>
      /\ kin'[v].dwell + kin'[v].idle = kin[v].dwell + kin[v].idle - 1
      /\ kin'[v].idle = 0 => ~ fleet'[v].transmitting
      /\ ~ fleet'[v].moving /\ fleet'[v].progress = fleet[v].progress

LEMMA Shorter ==
  ASSUME NEW a \in Nat, NEW b \in Nat, NEW c \in Nat, NEW d \in Nat, a + 1 <= b, c <= d
  PROVE  a * (d + 1) + c < b * (d + 1)
  <1> DEFINE D == d + 1
  <1>1. PICK e \in Nat : b = a + 1 + e
    <2>1. b - a - 1 \in Nat /\ b = a + 1 + (b - a - 1)
      OBVIOUS
    <2> QED
      BY <2>1
  <1>2. b * D = a * D + D + e * D
    BY <1>1
  <1>3. e * D \in Nat /\ a * D \in Nat
    OBVIOUS
  <1>4. c < D
    OBVIOUS
  <1> HIDE DEF D
  <1>5. D \in Nat
    BY DEF D
  <1>6. a * D + c < b * D
    BY <1>2, <1>3, <1>4, <1>5
  <1> QED
    BY <1>6 DEF D

\* What is left of a ride is a number, and a tick of a moving vehicle takes some of it off
\* or ends the ride at the terminal stop (kinematics.py:150-206).
LEMMA StepShortens ==
  ASSUME NEW u \in Vehicle, NEW k \in Kin, NEW stride \in Strides, u.moving
  PROVE  LET s == StepVehicle(u, k, stride)
         IN  \/ ~ s.vehicle.moving /\ s.vehicle.progress = Length
             \/ /\ s.vehicle.moving
                /\ TicksLeft(s.vehicle, s.kin) < TicksLeft(u, k)
  <1> USE KinematicsAssumption
  <1> DEFINE s == StepVehicle(u, k, stride)
             p == u.progress + stride
             D == DwellTicks + 1
  <1>1. /\ u.progress \in Nat /\ u.progress <= Length /\ Length \in Nat
        /\ k.dwell \in Nat /\ stride \in Nat /\ stride >= 1 /\ DwellTicks \in Nat
    BY DEF Vehicle, Kin
  <1>2. CASE k.dwell > 0
    <2>1. s.vehicle = u /\ s.kin = [k EXCEPT !.dwell = @ - 1]
      BY <1>2 DEF StepVehicle, Dwell, Moved
    <2>2. s.kin.dwell = k.dwell - 1
      BY <1>1, <2>1 DEF Kin
    <2> DEFINE way == (Length - u.progress) * D
    <2>3. way \in Int
      BY <1>1
    <2> HIDE DEF way
    <2>4. way + s.kin.dwell < way + k.dwell
      BY <1>1, <2>2, <2>3
    <2> QED
      BY <2>1, <2>4 DEF TicksLeft, way
  <1>3. CASE k.dwell = 0 /\ p >= Length
    <2>0. s = Arrive(u, k)
      BY <1>3 DEF StepVehicle
    <2>1. s.vehicle = SetMoving(SetProgress(u, Length), FALSE)
      BY <2>0 DEF Arrive, Moved
    <2>2. ~ s.vehicle.moving /\ s.vehicle.progress = Length
      BY <2>1 DEF SetMoving, SetProgress, Vehicle
    <2> QED
      BY <2>2
  <1>4. CASE k.dwell = 0 /\ ~ (p >= Length)
    <2>1. s = Advance(u, k, stride)
      BY <1>1, <1>4 DEF StepVehicle
    <2>2. s.vehicle = SetProgress(u, p)
      BY <2>1 DEF Advance, Moved
    <2>3. s.vehicle.moving /\ s.vehicle.progress = p
      BY <2>2 DEF SetProgress, Vehicle
    <2>4. s.kin.dwell \in {0, DwellTicks}
      <3>1. s.kin = [k EXCEPT !.lastStop = p, !.dwell = DwellTicks] \/ s.kin = k
        BY <2>1 DEF Advance, Moved
      <3> HIDE DEF s
      <3> QED
        BY <1>4, <3>1 DEF Kin
    <2> DEFINE a == Length - p  b == Length - u.progress
    <2>5. a \in Nat /\ b \in Nat /\ a + 1 <= b
      BY <1>1, <1>4
    <2>6. s.kin.dwell \in Nat /\ s.kin.dwell <= DwellTicks
      BY <1>1, <2>4
    <2> HIDE DEF s, a, b
    <2>7. a * (DwellTicks + 1) + s.kin.dwell < b * (DwellTicks + 1)
      BY <1>1, <2>5, <2>6, Shorter
    <2>8. TicksLeft(u, k) = b * (DwellTicks + 1)
      <3>1. b * (DwellTicks + 1) + 0 = b * (DwellTicks + 1)
        BY <1>1, <2>5
      <3> QED
        BY <1>4, <3>1 DEF TicksLeft, b
    <2>9. TicksLeft(s.vehicle, s.kin) = a * (DwellTicks + 1) + s.kin.dwell
      BY <2>3 DEF TicksLeft, a
    <2> QED
      BY <2>3, <2>7, <2>8, <2>9 DEF s
  <1> QED
    BY <1>1, <1>2, <1>3, <1>4

\* Every tick brings a moving vehicle closer to its terminal stop by a measure that is a
\* number, dwells included, and only there does a tick stop it: with a tick loop that goes
\* on and no more controls every ride ends (kinematics.py:150-206).
THEOREM TicksEndRides ==
  ASSUME FullDrives
  PROVE  SimSpec => []RideBounded /\ [][RideShortens]_simVars
  <1>1. SimTInv => RideBounded
    <2> SUFFICES ASSUME SimTInv, NEW v \in Roster PROVE TicksLeft(fleet[v], kin[v]) \in Nat
      BY DEF RideBounded
    <2>1. /\ Length - fleet[v].progress \in Nat /\ DwellTicks + 1 \in Nat
          /\ kin[v].dwell \in Nat
      BY KinematicsAssumption
         DEF SimTInv, SimIInv, IInv, TypeOK, FleetType, KinType, Vehicle, Kin
    <2>2. (Length - fleet[v].progress) * (DwellTicks + 1) \in Nat
      BY <2>1
    <2> QED
      BY <2>1, <2>2 DEF TicksLeft
  <1>2. SimTInv /\ [SimNext]_simVars => [RideShortens]_simVars
    <2> SUFFICES ASSUME SimTInv, NEW v \in Roster, NEW d \in Strides,
                        TickStep(v, d), fleet[v].moving
                 PROVE  \/ ~ fleet'[v].moving /\ fleet'[v].progress = Length
                        \/ /\ fleet'[v].moving
                           /\ TicksLeft(fleet'[v], kin'[v]) < TicksLeft(fleet[v], kin[v])
      BY DEF RideShortens
    <2>1. fleet \in [Roster -> Vehicle] /\ kin \in [Roster -> Kin]
      BY DEF SimTInv, SimIInv, IInv, TypeOK, FleetType, KinType
    <2>2. /\ fleet'[v] = StepVehicle(fleet[v], kin[v], d).vehicle
          /\ kin'[v] = StepVehicle(fleet[v], kin[v], d).kin
      BY <2>1 DEF TickStep
    <2> QED
      BY <2>1, <2>2, StepShortens
  <1> QED
    BY <1>1, <1>2, SimInvariance, PTL DEF SimSpec

\* Every tick of a standing vehicle whose countdown runs takes one off the dwell or the
\* countdown, and the countdown does not end with telemetry on (kinematics.py:153-179).
THEOREM TicksEndCountdowns ==
  ASSUME FullDrives
  PROVE  SimSpec => [][CountdownShortens]_simVars
  <1>1. SimTInv /\ [SimNext]_simVars => [CountdownShortens]_simVars
    <2> SUFFICES ASSUME SimTInv, NEW v \in Roster, NEW d \in Strides,
                        TickStep(v, d), ~ fleet[v].moving, kin[v].idle > 0
                 PROVE  /\ kin'[v].dwell + kin'[v].idle = kin[v].dwell + kin[v].idle - 1
                        /\ kin'[v].idle = 0 => ~ fleet'[v].transmitting
                        /\ ~ fleet'[v].moving /\ fleet'[v].progress = fleet[v].progress
      BY DEF CountdownShortens
    <2>1. fleet \in [Roster -> Vehicle] /\ kin \in [Roster -> Kin]
      BY DEF SimTInv, SimIInv, IInv, TypeOK, FleetType, KinType
    <2>2. /\ fleet'[v] = StepVehicle(fleet[v], kin[v], d).vehicle
          /\ kin'[v] = StepVehicle(fleet[v], kin[v], d).kin
      BY <2>1 DEF TickStep
    <2> DEFINE u == fleet[v]  k == kin[v]
    <2>3. u \in Vehicle /\ k \in Kin /\ k.dwell \in Nat /\ k.idle \in Nat
      BY <2>1, KinematicsAssumption DEF Kin
    <2>4. CASE k.dwell > 0
      <3>1. fleet'[v] = u /\ kin'[v] = [k EXCEPT !.dwell = @ - 1]
        BY <2>2, <2>4 DEF StepVehicle, Dwell, Moved
      <3> QED
        BY <2>3, <3>1 DEF Kin
    <2>5. CASE k.dwell = 0
      <3>1. /\ fleet'[v] = SetTransmitting(u, u.transmitting /\ k.idle > 1)
            /\ kin'[v] = [k EXCEPT !.idle = @ - 1]
        BY <2>2, <2>3, <2>5 DEF StepVehicle, Idle, Moved
      <3>2. /\ kin'[v].idle = k.idle - 1 /\ kin'[v].dwell = k.dwell
            /\ fleet'[v].moving = u.moving /\ fleet'[v].progress = u.progress
        BY <2>3, <3>1 DEF Kin, Vehicle, SetTransmitting
      <3>3. CASE k.idle > 1
        BY <2>3, <3>2, <3>3
      <3>4. CASE ~ (k.idle > 1)
        <4>1. ~ fleet'[v].transmitting
          BY <2>3, <3>1, <3>4 DEF Vehicle, SetTransmitting
        <4> QED
          BY <2>3, <3>2, <4>1
      <3> QED
        BY <3>3, <3>4
    <2> QED
      BY <2>3, <2>4, <2>5
  <1> QED
    BY <1>1, SimInvariance, PTL DEF SimSpec
-----------------------------------------------------------------------------
(* What the two divergences of the tick loop hang on *)

\* No vehicle is sent back along its line.
NoneSentBack == \A v \in Roster : fleet'[v].progress >= fleet[v].progress

\* A knob is turned on the vehicle, or the binder applies a new state of a run to it.
KnobOrRun(v) == Control(v) \/ (VehicleOf[call.run] = v /\ (PollLost \/ PollChange))
SentBackBy == \A v \in Roster : fleet'[v].progress < fleet[v].progress => KnobOrRun(v)

\* Ticks only advance.
LEMMA StepAdvances ==
  ASSUME NEW u \in Vehicle, NEW k \in Kin, NEW stride \in Strides
  PROVE  StepVehicle(u, k, stride).vehicle.progress >= u.progress
  <1> USE KinematicsAssumption
  <1> DEFINE s == StepVehicle(u, k, stride).vehicle
             p == u.progress + stride
  <1>1. /\ u.progress \in Nat /\ u.progress <= Length /\ Length \in Nat
        /\ k.dwell \in Nat /\ stride \in Nat
    BY DEF Vehicle, Kin
  <1>2. CASE k.dwell > 0
    <2>1. s = u
      BY <1>2 DEF StepVehicle, Dwell, Moved
    <2> QED
      BY <1>1, <2>1
  <1>3. CASE k.dwell = 0 /\ ~ u.moving
    <2>1. s = u \/ s = SetTransmitting(u, u.transmitting /\ k.idle > 1)
      BY <1>3 DEF StepVehicle, Idle, Moved
    <2>2. s.progress = u.progress
      BY <2>1 DEF SetTransmitting, Vehicle
    <2> QED
      BY <1>1, <2>2
  <1>4. CASE k.dwell = 0 /\ u.moving /\ p >= Length
    <2>0. StepVehicle(u, k, stride) = Arrive(u, k)
      BY <1>1, <1>4 DEF StepVehicle
    <2>1. s = SetMoving(SetProgress(u, Length), FALSE)
      BY <2>0 DEF Arrive, Moved
    <2>2. s.progress = Length
      BY <2>1 DEF SetMoving, SetProgress, Vehicle
    <2> QED
      BY <1>1, <2>2
  <1>5. CASE k.dwell = 0 /\ ~ (p >= Length)
    <2>1. s = SetProgress(u, p) \/ ~ u.moving
      BY <1>1, <1>5 DEF StepVehicle, Advance, Moved
    <2>2. CASE s = SetProgress(u, p)
      <3>1. s.progress = p
        BY <2>2 DEF SetProgress, Vehicle
      <3> QED
        BY <1>1, <3>1
    <2> QED
      BY <1>3, <1>5, <2>1, <2>2
  <1> QED
    BY <1>1, <1>2, <1>3, <1>4, <1>5

\* A vehicle is sent back only by a knob or by the binder, when a run comes on it or leaves
\* it: never by the tick loop, by another vehicle or by a run of another vehicle
\* (kinematics.py:150-206, run_binder.py:143-175, control.py:150-195).
THEOREM SentBackByKnobOrRun ==
  ASSUME FullDrives
  PROVE  SimSpec => [][SentBackBy]_simVars
  <1>1. SimTInv /\ [SimNext]_simVars => [SentBackBy]_simVars
    <2> SUFFICES ASSUME SimTInv, SimNext, NEW q \in Roster,
                        fleet'[q].progress < fleet[q].progress
                 PROVE  KnobOrRun(q)
      BY DEF SentBackBy
    <2>1. fleet \in [Roster -> Vehicle] /\ kin \in [Roster -> Kin]
      BY DEF SimTInv, SimIInv, IInv, TypeOK, FleetType, KinType
    <2>2. fleet[q].progress \in Nat
      BY <2>1, KinematicsAssumption DEF Vehicle
    <2>3. fleet'[q] # fleet[q]
      BY <2>2
    <2>4. ASSUME NEW v \in Roster, NEW d \in Strides, TickStep(v, d) PROVE FALSE
      <3>1. fleet' = [fleet EXCEPT ![v] = StepVehicle(fleet[v], kin[v], d).vehicle]
        BY <2>4 DEF TickStep
      <3>2. fleet'[q] = StepVehicle(fleet[q], kin[q], d).vehicle
        BY <2>1, <2>3, <3>1
      <3>3. fleet'[q].progress >= fleet[q].progress
        BY <2>1, <3>2, StepAdvances
      <3>4. fleet'[q].progress \in Nat
        BY <2>1, <3>2, StepVehicleFacts, KinematicsAssumption DEF Driven, Vehicle
      <3> QED
        BY <2>2, <3>3, <3>4
    <2>5. ~ TickNext
      BY <2>3, <2>4 DEF TickNext, TickWake, TickReport, TickDrop, TickDies, vars
    <2>6. ASSUME NEW v \in Roster, Control(v) PROVE v = q
      BY <2>1, <2>3, <2>6
         DEF Control, Transmit, Moving, JumpToTerminal, JumpToStop
    <2>7. CASE BinderNext
      <3>1. (PollLost \/ PollChange) \/ UNCHANGED fleet
        BY <2>7 DEF BinderNext, PollStep, PollResume, PollError, PollNotYet, PollSame, PollDies,
                    PollWake, PollSkip, PollRequest, AgeHeld, Track, Age, UntrackLater,
                    DatabusStep
      <3>2. PollLost \/ PollChange
        BY <2>3, <3>1
      <3>3. VehicleOf[call.run] = q
        BY <2>1, <2>3, <3>2 DEF PollLost, PollChange
      <3> QED
        BY <3>2, <3>3 DEF KnobOrRun
    <2> QED
      BY <2>5, <2>6, <2>7 DEF SimNext, KnobOrRun
  <1> QED
    BY <1>1, SimInvariance, PTL DEF SimSpec

\* The stop last reported is not ahead of the one coming up.
ReportBehind == \A v \in Roster : report[v].stop <= Upcoming(fleet[v].progress)

\* The upcoming stop moves on with the vehicle.
LEMMA UpcomingMonotone ==
  ASSUME NEW p \in Positions, NEW q \in Positions, p <= q
  PROVE  Upcoming(p) <= Upcoming(q)
  <1> DEFINE T(x) == {s \in Stops : s >= x}
             IsNext(x, s) == s \in Stops /\ s >= x /\ \A t \in Stops : t >= x => s <= t
  <1>1. ASSUME NEW x \in Positions PROVE IsNext(x, Upcoming(x))
    <2>1. T(x) \subseteq Nat /\ Length \in T(x)
      <3>1. Length \in Stops /\ Length >= x
        BY KinematicsAssumption
      <3> QED
        BY <3>1, StopsOnLine
    <2>2. PICK s \in T(x) : \A t \in T(x) : s <= t
      BY <2>1, LeastStop
    <2>3. IsNext(x, s)
      BY <2>2
    <2> QED
      BY <2>3 DEF Upcoming
  <1>2. IsNext(p, Upcoming(p)) /\ IsNext(q, Upcoming(q))
    BY <1>1
  <1>3. p \in Nat /\ q \in Nat /\ Upcoming(q) \in Nat
    BY KinematicsAssumption, UpcomingFacts
  <1>4. Upcoming(q) >= p
    BY <1>2, <1>3
  <1> QED
    BY <1>2, <1>4

\* The upcoming stop of a vehicle that is not sent back does not go back.
LEMMA UpcomingStays ==
  ASSUME SimTInv, SimTInv', NoneSentBack, NEW v \in Roster
  PROVE  /\ Upcoming(fleet[v].progress) <= Upcoming(fleet'[v].progress)
         /\ Upcoming(fleet[v].progress) \in Nat /\ Upcoming(fleet'[v].progress) \in Nat
  <1>1. fleet[v].progress \in Positions /\ fleet'[v].progress \in Positions
    BY DEF SimTInv, SimIInv, IInv, TypeOK, FleetType, Vehicle
  <1>2. fleet[v].progress <= fleet'[v].progress
    BY <1>1, KinematicsAssumption DEF NoneSentBack
  <1> QED
    BY <1>1, <1>2, UpcomingMonotone, UpcomingFacts

\* A report names the stop coming up, or repeats the last one for want of a shape.
LEMMA ReportNames ==
  ASSUME SimTInv, ReportBehind, TickReport
  PROVE  LET v == tick.vehicle  s == Upcoming(fleet[v].progress)
         IN  /\ v \in Roster /\ fleet' = fleet /\ s \in Nat
             /\ report'[v].stop = s \/ report'[v].stop = report[v].stop
             /\ report'[v].status = "STOPPED_AT" =>
                  report'[v].stop = s /\ tick.payload.progress = s
             /\ \A q \in Roster : q # v => report'[q] = report[q]
  <1> DEFINE v == tick.vehicle
             p == fleet[v].progress
             prev == report[v]
             lost == fleet[v].bound \in shapes.missing \cup shapes.bare
             stop == IF lost THEN prev.stop ELSE StopStatus(p, prev.stop)
             status == IF lost THEN "IN_TRANSIT_TO" ELSE CurrentStatus(p, tick.payload)
             w == [run |-> fleet[v].bound, progress |-> p, stop |-> stop, status |-> status]
  <1>1. v \in Roster /\ fleet' = fleet /\ report' = [report EXCEPT ![v] = w]
    BY DEF SimTInv, SimTypeOK, TickReport, vars
  <1>2. p \in Positions /\ report \in [Roster -> Report]
    BY <1>1 DEF SimTInv, SimIInv, IInv, TypeOK, FleetType, SimTypeOK, Vehicle
  <1>3. Upcoming(p) \in Nat /\ prev.stop <= Upcoming(p) /\ prev.stop \in Nat
    BY <1>1, <1>2, UpcomingFacts, StopsOnLine DEF ReportBehind, Report
  <1>4. StopStatus(p, prev.stop) = Upcoming(p)
    BY <1>3 DEF StopStatus
  <1>5. CurrentStatus(p, tick.payload) = "STOPPED_AT" => tick.payload.progress = Upcoming(p)
    BY DEF CurrentStatus
  <1>6. report'[v] = w /\ \A q \in Roster : q # v => report'[q] = report[q]
    BY <1>1, <1>2
  <1>7. stop = Upcoming(p) \/ stop = prev.stop
    BY <1>4
  <1>8. status = "STOPPED_AT" => stop = Upcoming(p) /\ tick.payload.progress = Upcoming(p)
    BY <1>4, <1>5
  <1>9. w.stop = stop /\ w.status = status
    OBVIOUS
  <1> HIDE DEF w, stop, status, p
  <1> QED
    BY <1>1, <1>3, <1>6, <1>7, <1>8, <1>9 DEF p

LEMMA ReportBehindStep ==
  ASSUME FullDrives, SimTInv, ReportBehind, NoneSentBack, [SimNext]_simVars
  PROVE  ReportBehind'
  <1>1. SimTInv'
    BY SimTypeStep
  <1>2. SUFFICES ASSUME NEW q \in Roster PROVE report'[q].stop <= Upcoming(fleet'[q].progress)
    BY DEF ReportBehind
  <1>3. report[q].stop \in Nat /\ report[q].stop <= Upcoming(fleet[q].progress)
    BY StopsOnLine DEF SimTInv, SimTypeOK, Report, ReportBehind
  <1>4. CASE TickReport
    BY <1>1, <1>3, <1>4, ReportNames, UpcomingStays
  <1>5. CASE ~ TickReport
    <2>1. report' = report
      BY <1>5 DEF SimNext, TickNext, TickWake, TickDrop, TickDies, TickStep, Control,
                  BinderNext, tickVars, simVars
    <2> QED
      BY <1>1, <1>3, <2>1, UpcomingStays
  <1> QED
    BY <1>4, <1>5

\* A vehicle is reported as standing at another stop than the one it is at only after it
\* was sent back to where an earlier stop comes up again, by a run or a knob
\* (SentBackByKnobOrRun): the await and the memory of the last report do not do it by
\* themselves (compute.py:147-182).
THEOREM StoppedWhereItIs ==
  ASSUME FullDrives
  PROVE  SimSpec /\ [][NoneSentBack]_simVars => StoppedAtItsStop
  <1> DEFINE ItsStop == \A v \in Roster : TickReport /\ tick.vehicle = v
                                           /\ report'[v].status = "STOPPED_AT"
                                           => report'[v].stop = tick.payload.progress
  <1>1. SimInit => ReportBehind
    <2> SUFFICES ASSUME SimInit, NEW v \in Roster
                 PROVE  report[v].stop <= Upcoming(fleet[v].progress)
      BY DEF ReportBehind
    <2>1. fleet[v].progress \in Positions
      BY SimTypeInit DEF SimTInv, SimIInv, IInv, TypeOK, FleetType, Vehicle
    <2>2. report[v].stop = 0
      BY KinematicsAssumption DEF SimInit, NoReport
    <2> QED
      BY <2>1, <2>2, UpcomingFacts
  <1>2. SimTInv /\ ReportBehind /\ [SimNext]_simVars /\ [NoneSentBack]_simVars => ReportBehind'
    <2> SUFFICES ASSUME SimTInv, ReportBehind, [SimNext]_simVars, [NoneSentBack]_simVars
                 PROVE  ReportBehind'
      OBVIOUS
    <2>1. UNCHANGED simVars => NoneSentBack
      BY KinematicsAssumption
         DEF simVars, vars, NoneSentBack, SimTInv, SimIInv, IInv, TypeOK, FleetType, Vehicle
    <2> QED
      BY <2>1, ReportBehindStep
  <1>3. SimTInv /\ ReportBehind /\ [SimNext]_simVars => [ItsStop]_simVars
    BY ReportNames
  <1>4. StoppedAtItsStop <=> [][ItsStop]_simVars
    BY DEF StoppedAtItsStop
  <1> QED
    BY <1>1, <1>2, <1>3, <1>4, SimInvariance, PTL DEF SimSpec

\* A vehicle whose countdown runs does not leave its terminal stop.
WaitsItOut ==
  \A v \in Roster :
    kin[v].idle > 0 /\ fleet[v].progress = Length => fleet'[v].progress = Length

\* Countdowns run at the terminal stop only.
CountsAtTerminal == \A v \in Roster : kin[v].idle > 0 => fleet[v].progress = Length

\* A tick leaves a countdown as it is, takes it down, or starts it at the terminal stop,
\* and silences a vehicle only as the last of a countdown.
LEMMA StepCountdown ==
  ASSUME NEW u \in Vehicle, NEW k \in Kin, NEW stride \in Strides,
         k.idle > 0 => u.progress = Length
  PROVE  LET s == StepVehicle(u, k, stride)
         IN  /\ s.kin.idle > 0 => s.vehicle.progress = Length
             /\ u.transmitting /\ ~ s.vehicle.transmitting => k.idle > 0
  <1> USE KinematicsAssumption
  <1> DEFINE s == StepVehicle(u, k, stride)
  <1>1. /\ u.progress \in Nat /\ u.progress <= Length /\ Length \in Nat
        /\ k.dwell \in Nat /\ k.idle \in Nat /\ stride \in Nat /\ stride >= 1
    BY DEF Vehicle, Kin
  <1>2. CASE k.dwell > 0
    <2>1. s.vehicle = u /\ s.kin = [k EXCEPT !.dwell = @ - 1]
      BY <1>2 DEF StepVehicle, Dwell, Moved
    <2> QED
      BY <2>1 DEF Kin
  <1>3. CASE k.dwell = 0 /\ ~ u.moving
    <2>1. s = Idle(u, k)
      BY <1>3 DEF StepVehicle
    <2>2. CASE k.idle = 0
      <3>1. s.vehicle = u /\ s.kin = k
        BY <2>1, <2>2 DEF Idle, Moved
      <3> QED
        BY <2>2, <3>1
    <2>3. CASE k.idle # 0
      <3>1. s.vehicle = SetTransmitting(u, u.transmitting /\ k.idle > 1)
        BY <2>1, <2>3 DEF Idle, Moved
      <3>2. s.vehicle.progress = u.progress
        BY <3>1 DEF SetTransmitting, Vehicle
      <3> QED
        BY <1>1, <2>3, <3>2
    <2> QED
      BY <2>2, <2>3
  <1>4. CASE k.dwell = 0 /\ u.moving /\ u.progress + stride >= Length
    <2>1. s = Arrive(u, k)
      BY <1>4 DEF StepVehicle
    <2>2. s.vehicle = SetMoving(SetProgress(u, Length), FALSE)
      BY <2>1 DEF Arrive, Moved
    <2> QED
      BY <2>2 DEF SetMoving, SetProgress, Vehicle
  <1>5. CASE k.dwell = 0 /\ u.moving /\ ~ (u.progress + stride >= Length)
    <2>1. s = Advance(u, k, stride)
      BY <1>5 DEF StepVehicle
    <2>2. s.vehicle = SetProgress(u, u.progress + stride)
      BY <2>1 DEF Advance, Moved
    <2>3. s.vehicle.transmitting = u.transmitting
      BY <2>2 DEF SetProgress, Vehicle
    <2>4. s.kin.idle = k.idle
      BY <2>1 DEF Advance, Moved, Kin
    <2>5. ~ (k.idle > 0)
      BY <1>1, <1>5
    <2> QED
      BY <2>3, <2>4, <2>5
  <1> QED
    BY <1>1, <1>2, <1>3, <1>4, <1>5

LEMMA CountdownStep ==
  ASSUME SimTInv, CountsAtTerminal, WaitsItOut, [SimNext]_simVars
  PROVE  CountsAtTerminal'
  <1>0. fleet \in [Roster -> Vehicle] /\ kin \in [Roster -> Kin]
    BY DEF SimTInv, SimIInv, IInv, TypeOK, FleetType, KinType
  <1> SUFFICES ASSUME NEW q \in Roster, kin'[q].idle > 0
               PROVE  fleet'[q].progress = Length
    BY DEF CountsAtTerminal
  <1>1. CASE kin'[q].idle = kin[q].idle
    BY <1>1 DEF CountsAtTerminal, WaitsItOut
  <1>2. ASSUME NEW d \in Strides, TickStep(q, d) PROVE fleet'[q].progress = Length
    <2>1. /\ fleet'[q] = StepVehicle(fleet[q], kin[q], d).vehicle
          /\ kin'[q] = StepVehicle(fleet[q], kin[q], d).kin
      BY <1>0, <1>2 DEF TickStep
    <2> QED
      BY <1>0, <2>1, StepCountdown DEF CountsAtTerminal
  <1>3. kin'[q].idle = kin[q].idle \/ \E d \in Strides : TickStep(q, d)
    <2>1. CASE UNCHANGED kin
      BY <2>1
    <2>2. ASSUME NEW v \in Roster, NEW d \in Strides, TickStep(v, d), v # q
          PROVE  kin'[q] = kin[q]
      BY <1>0, <2>2 DEF TickStep
    <2>3. ASSUME NEW v \in Roster, Control(v) PROVE kin'[q].idle = kin[q].idle
      <3>1. CASE UNCHANGED kin
        BY <3>1
      <3>2. ASSUME NEW s, NEW n, DwellAt(v, s, n) PROVE kin'[q].idle = kin[q].idle
        BY <1>0, <3>2 DEF DwellAt, Kin
      <3> QED
        BY <2>3, <3>1, <3>2 DEF Control
    <2>4. CASE BinderNext \/ UNCHANGED simVars
      BY <2>4 DEF BinderNext, simVars, tickVars
    <2>5. TickNext => UNCHANGED kin \/ \E v \in Roster, d \in Strides : TickStep(v, d)
      BY DEF TickNext, TickWake, TickReport, TickDrop, TickDies
    <2> QED
      BY <2>1, <2>2, <2>3, <2>4, <2>5 DEF SimNext
  <1> QED
    BY <1>1, <1>2, <1>3

\* The tick loop silences a vehicle on its way only if one left its terminal stop while its
\* countdown ran, which takes a run or a knob (SentBackByKnobOrRun): otherwise countdowns
\* start, run and end at the terminal stop (kinematics.py:164-179).
THEOREM SilencedWhereItEnded ==
  ASSUME FullDrives
  PROVE  SimSpec /\ [][WaitsItOut]_simVars => SilencedAtTerminal
  <1> DEFINE AtTerminal == \A v \in Roster : TickNext /\ fleet[v].transmitting
                                              /\ ~ fleet'[v].transmitting
                                              => fleet[v].progress = Length
  <1>1. SimInit => CountsAtTerminal
    BY DEF SimInit, KinInit, NewKin, CountsAtTerminal
  <1>2. SimTInv /\ CountsAtTerminal /\ [SimNext]_simVars /\ [WaitsItOut]_simVars
          => CountsAtTerminal'
    <2> SUFFICES ASSUME SimTInv, CountsAtTerminal, [SimNext]_simVars, [WaitsItOut]_simVars
                 PROVE  CountsAtTerminal'
      OBVIOUS
    <2>1. UNCHANGED simVars => WaitsItOut
      BY DEF simVars, vars, WaitsItOut
    <2> QED
      BY <2>1, CountdownStep
  <1>3. SimTInv /\ CountsAtTerminal /\ [SimNext]_simVars => [AtTerminal]_simVars
    <2> SUFFICES ASSUME SimTInv, CountsAtTerminal, NEW q \in Roster, TickNext,
                        fleet[q].transmitting, ~ fleet'[q].transmitting
                 PROVE  fleet[q].progress = Length
      OBVIOUS
    <2>1. fleet \in [Roster -> Vehicle] /\ kin \in [Roster -> Kin]
      BY DEF SimTInv, SimIInv, IInv, TypeOK, FleetType, KinType
    <2>2. ASSUME NEW v \in Roster, NEW d \in Strides, TickStep(v, d)
          PROVE  fleet[q].progress = Length
      <3>1. fleet' = [fleet EXCEPT ![v] = StepVehicle(fleet[v], kin[v], d).vehicle]
        BY <2>2 DEF TickStep
      <3>2. v = q /\ fleet'[q] = StepVehicle(fleet[q], kin[q], d).vehicle
        BY <2>1, <3>1
      <3> QED
        BY <2>1, <3>2, StepCountdown DEF CountsAtTerminal
    <2>3. CASE UNCHANGED fleet
      BY <2>3
    <2> QED
      BY <2>2, <2>3 DEF TickNext, TickWake, TickReport, TickDrop, TickDies, vars
  <1>4. SilencedAtTerminal <=> [][AtTerminal]_simVars
    BY DEF SilencedAtTerminal
  <1> QED
    BY <1>1, <1>2, <1>3, <1>4, SimInvariance, PTL DEF SimSpec
===============================================================================

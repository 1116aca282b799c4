------------------------------ MODULE RunBinder ------------------------------
(***************************************************************************)
(* The run binder: simulator_app/services/run_binder.py.                   *)
(*                                                                         *)
(* track and untrack change a dictionary of bindings; poll_loop visits the *)
(* bindings one at a time, awaits databus for each run's state and applies *)
(* what changed to the run's vehicle.  While the loop awaits, everything   *)
(* else may run: view threads track runs again, the delayed untrack of a   *)
(* closed run fires, databus moves on, the tick loop and the controller    *)
(* change the vehicles.  The loop then goes on with the binding object it  *)
(* read before the await and with an answer that may be out of date.       *)
(*                                                                         *)
(* Abstractions.  The loop visits the listed bindings in any order (the    *)
(* code: insertion order).  tracked_since is reduced to whether the grace  *)
(* period has passed.  The request and databus's reading of its state are  *)
(* one step: nothing between them reads or writes what both touch.  After  *)
(* the await the handler runs to its end in one step; it is one stretch of *)
(* code without an await.                                                  *)
(***************************************************************************)
EXTENDS Fleet, Databus, Naturals

CONSTANTS
  Vehicles,    \* vehicle ids a run may name, the roster's among them
  VehicleOf,   \* the vehicle each run was created for
  MaxTracks,   \* bound on the calls of track
  Drives       \* what the tick loop and the controller may set on a vehicle

ASSUME BinderAssumption ==
  /\ Roster \subseteq Vehicles
  /\ VehicleOf \in [Runs -> Vehicles]
  /\ MaxTracks \in Nat
  /\ Drives \subseteq [transmitting : BOOLEAN, moving : BOOLEAN, progress : Positions]

VARIABLES
  bindings,    \* _bindings: the BoundRun of each run, Untracked when absent
  loop,        \* where poll_loop is: "ready", "await" or "dead"
  todo,        \* what is left of list(self._bindings) in this round
  call,        \* the loop's local variables during the await
  timers,      \* call_later(_UNTRACK_DELAY_S, untrack, run_id) not yet fired
  tracks       \* calls of track so far (only to bound them)

binderVars == <<bindings, loop, todo, call, timers, tracks>>
vars == <<fleet, db, binderVars>>

-----------------------------------------------------------------------------
(* The state *)

\* Mutation: one closed state is missing.
TerminalWithoutCancelled == {"Completed", "Interrupted", "Short Turned"}

TERMINAL_STATES == {"Completed", "Cancelled", "Interrupted", "Short Turned"}

\* A BoundRun: the lifecycle state last seen, and whether the grace period is over.
BoundRun == [state : LifecycleStates \cup {NoState}, aged : BOOLEAN]
NewBoundRun == [state |-> NoState, aged |-> FALSE]
Untracked == [state |-> "untracked", aged |-> FALSE]
Tracked(r) == bindings[r] # Untracked

\* The loop's locals: run_id, binding, whether that object is still the one in
\* the dictionary, and what the await came back with.
Call ==
  [ run     : Runs \cup {NoRun},
    binding : BoundRun \cup {Untracked},
    shared  : BOOLEAN,
    reply   : LifecycleStates \cup {NoState, Raised} ]
NoCall == [run |-> NoRun, binding |-> Untracked, shared |-> FALSE, reply |-> NoState]

BinderType ==
  /\ bindings \in [Runs -> BoundRun \cup {Untracked}]
  /\ loop \in {"ready", "await", "dead"}
  /\ todo \in SUBSET Runs
  /\ call \in Call
  /\ loop = "await" <=> call.run # NoRun
  /\ timers \in [Runs -> Nat]
  /\ tracks \in Nat

\* Types of every variable (one type invariant for the fleet, databus and binder).
TypeOK == FleetType /\ DbType /\ BinderType

BinderInit ==
  /\ bindings = [r \in Runs |-> Untracked]
  /\ loop = "ready"
  /\ todo = {}
  /\ call = NoCall
  /\ timers = [r \in Runs |-> 0]
  /\ tracks = 0

Init == FleetInit /\ DbInit /\ BinderInit

\* The binding the loop holds is no longer the dictionary's.
Disown(r) == IF call.run = r THEN [call EXCEPT !.shared = FALSE] ELSE call

-----------------------------------------------------------------------------
(* Callers of track, and the clock *)

\* track: a new object replaces the old one, whatever state that had reached.
\* The callers are the track view (a worker thread) and the scheduler.
Track(r) ==
  /\ tracks < MaxTracks
  /\ bindings' = [bindings EXCEPT ![r] = NewBoundRun]
  /\ call' = Disown(r)
  /\ tracks' = tracks + 1
  /\ UNCHANGED <<fleet, db, loop, todo, timers>>

\* _RUN_LOST_GRACE_S have passed since track created the object.
Age(r) ==
  /\ Tracked(r) /\ ~ bindings[r].aged
  /\ bindings' = [bindings EXCEPT ![r].aged = TRUE]
  /\ call' = IF call.run = r THEN [call EXCEPT !.binding.aged = TRUE] ELSE call
  /\ UNCHANGED <<fleet, db, loop, todo, timers, tracks>>

\* The same for an object that only the loop still holds.
AgeHeld ==
  /\ loop = "await" /\ ~ call.shared /\ ~ call.binding.aged
  /\ call' = [call EXCEPT !.binding.aged = TRUE]
  /\ UNCHANGED <<fleet, db, bindings, loop, todo, timers, tracks>>

\* The delayed untrack of a run seen closed: it drops whatever is tracked now.
UntrackLater(r) ==
  /\ timers[r] > 0
  /\ timers' = [timers EXCEPT ![r] = @ - 1]
  /\ bindings' = [bindings EXCEPT ![r] = Untracked]
  /\ call' = Disown(r)
  /\ UNCHANGED <<fleet, db, loop, todo, tracks>>

-----------------------------------------------------------------------------
(* poll_loop up to the await *)

\* A new round, after the sleep: list(self._bindings).
PollWake ==
  /\ loop = "ready" /\ todo = {}
  /\ todo' = {r \in Runs : Tracked(r)}
  /\ UNCHANGED <<fleet, db, bindings, loop, call, timers, tracks>>

\* Untracked since the round began, or already terminal.
PollSkip(r) ==
  /\ loop = "ready" /\ r \in todo
  /\ ~ Tracked(r) \/ bindings[r].state \in TERMINAL_STATES
  /\ todo' = todo \ {r}
  /\ UNCHANGED <<fleet, db, bindings, loop, call, timers, tracks>>

\* Read the binding and await get_run_state.
PollRequest(r, reply) ==
  /\ loop = "ready" /\ r \in todo
  /\ Tracked(r) /\ bindings[r].state \notin TERMINAL_STATES
  /\ reply \in Replies(r)
  /\ todo' = todo \ {r}
  /\ loop' = "await"
  /\ call' = [run |-> r, binding |-> bindings[r], shared |-> TRUE, reply |-> reply]
  /\ UNCHANGED <<fleet, db, bindings, timers, tracks>>

-----------------------------------------------------------------------------
(* poll_loop after the await: one action per way through the body *)

\* Mutations of _apply_state: the run is bound as soon as it exists, the label is
\* not updated, the bind or the unbind is missing.
BindsTooEarly(u, r, s) ==
  IF s \in TERMINAL_STATES THEN UnbindRun(u) ELSE BindRun(SetLifecycleState(u, s), r)
NeverLabels(u, r, s) ==
  IF s = "Confirmed" THEN SetTransmitting(BindRun(u, r), TRUE)
  ELSE IF s \in TERMINAL_STATES THEN UnbindRun(u) ELSE u
NeverBinds(u, r, s) ==
  IF s \in TERMINAL_STATES THEN UnbindRun(u) ELSE SetLifecycleState(u, s)
NeverUnbinds(u, r, s) ==
  IF s = "Confirmed" THEN SetTransmitting(BindRun(SetLifecycleState(u, s), r), TRUE)
  ELSE SetTransmitting(SetLifecycleState(u, s), s \notin TERMINAL_STATES)

\* _apply_state on the vehicle u of run r, in the order of the calls.
ApplyState(u, r, s) ==
  LET seen == SetLifecycleState(u, s)
  IN  CASE s = "Confirmed" ->
             LET stopped == SetProgress(SetMoving(BindRun(seen, r), FALSE), Start)
             IN  SetTransmitting(stopped, TRUE)
        [] s \in TERMINAL_STATES -> UnbindRun(SetTransmitting(seen, FALSE))
        [] OTHER -> seen

\* Back to the for loop.
Continue == loop' = "ready" /\ call' = NoCall

\* Mutation: the except clause falls through with new_state = None.
ErrorIsLost ==
  /\ loop = "await" /\ call.reply = Raised /\ Known(VehicleOf[call.run])
  /\ fleet' = [fleet EXCEPT ![VehicleOf[call.run]] = UnbindRun(@)]
  /\ bindings' = [bindings EXCEPT ![call.run] = Untracked]
  /\ Continue
  /\ UNCHANGED <<db, todo, timers, tracks>>

\* get_run_state raised: log and go on.
PollError ==
  /\ loop = "await" /\ call.reply = Raised
  /\ Continue
  /\ UNCHANGED <<fleet, db, bindings, todo, timers, tracks>>

\* None for a run never seen yet, within the grace period.
PollNotYet ==
  /\ loop = "await" /\ call.reply = NoState
  /\ call.binding.state = NoState /\ ~ call.binding.aged
  /\ Continue
  /\ UNCHANGED <<fleet, db, bindings, todo, timers, tracks>>

\* None otherwise: _force_unbind unbinds the vehicle and drops the run's binding.
PollLost ==
  LET r == call.run  v == VehicleOf[r]
  IN  /\ loop = "await" /\ call.reply = NoState
      /\ call.binding.state # NoState \/ call.binding.aged
      /\ Known(v)
      /\ fleet' = [fleet EXCEPT ![v] = UnbindRun(@)]
      /\ bindings' = [bindings EXCEPT ![r] = Untracked]
      /\ Continue
      /\ UNCHANGED <<db, todo, timers, tracks>>

\* The state is the one already seen.
PollSame ==
  /\ loop = "await" /\ call.reply \in LifecycleStates
  /\ call.reply = call.binding.state
  /\ Continue
  /\ UNCHANGED <<fleet, db, bindings, todo, timers, tracks>>

\* The object held takes the new state: the dictionary sees it if it is the same object.
Observe == IF call.shared THEN [bindings EXCEPT ![call.run].state = call.reply] ELSE bindings

\* A new state: record it, apply it, and set the delayed untrack of a closed run.
PollChange ==
  LET r == call.run  v == VehicleOf[r]
  IN  /\ loop = "await" /\ call.reply \in LifecycleStates
      /\ call.reply # call.binding.state
      /\ Known(v)
      /\ bindings' = Observe
      /\ fleet' = [fleet EXCEPT ![v] = ApplyState(@, r, call.reply)]
      /\ timers' = IF call.reply \in TERMINAL_STATES
                   THEN [timers EXCEPT ![r] = @ + 1] ELSE timers
      /\ Continue
      /\ UNCHANGED <<db, todo, tracks>>

\* The vehicle is not in the roster: the KeyError leaves poll_loop, whose task ends.
\* A changed state has been recorded by then; a lost run stays tracked.
PollDies ==
  /\ loop = "await" /\ ~ Known(VehicleOf[call.run])
  /\ \/ /\ call.reply = NoState
        /\ call.binding.state # NoState \/ call.binding.aged
        /\ bindings' = bindings
     \/ /\ call.reply \in LifecycleStates /\ call.reply # call.binding.state
        /\ bindings' = Observe
  /\ loop' = "dead" /\ call' = NoCall
  /\ UNCHANGED <<fleet, db, todo, timers, tracks>>

PollResume == PollError \/ PollNotYet \/ PollLost \/ PollSame \/ PollChange \/ PollDies

-----------------------------------------------------------------------------
(* The environment of the binder *)

\* The tick loop and the controller: they move a vehicle and switch its telemetry
\* on and off, and never touch the run fields.
Drive(v, d) ==
  /\ fleet' = [fleet EXCEPT ![v] =
       SetProgress(SetMoving(SetTransmitting(@, d.transmitting), d.moving), d.progress)]
  /\ UNCHANGED <<db, binderVars>>

\* Telemetry of the run's vehicle reaches databus.
Pinged(r) == Known(VehicleOf[r]) /\ fleet[VehicleOf[r]].transmitting

\* Telemetry starts a confirmed run; from then on its state may also change without.
DatabusStep(r) ==
  /\ \/ DbCreate(r)
     \/ DbConfirm(r)
     \/ \E s \in DbRunning : DbAdvance(r, s) /\ (db[r] = "Confirmed" => Pinged(r))
     \/ \E s \in DbClosing : DbClose(r, s)
     \/ DbLose(r)
  /\ UNCHANGED <<fleet, binderVars>>

PollStep ==
  PollWake \/ PollResume \/ \E r \in Runs : PollSkip(r) \/ \E x \in Replies(r) : PollRequest(r, x)

Next ==
  \/ PollStep
  \/ AgeHeld
  \/ \E r \in Runs : Track(r) \/ Age(r) \/ UntrackLater(r) \/ DatabusStep(r)
  \/ \E v \in Roster, d \in Drives : Drive(v, d)

Spec == Init /\ [][Next]_vars

\* The event loop runs the poll task, the timers and the clock; databus is not
\* unreachable for ever, so a run polled again and again is answered in the end.
Fairness ==
  /\ WF_vars(PollStep)
  /\ WF_vars(AgeHeld)
  /\ \A r \in Runs : WF_vars(Age(r)) /\ WF_vars(UntrackLater(r))
  /\ \A r \in Runs : SF_vars(PollRequest(r, Answer(db[r])))

FairSpec == Spec /\ Fairness

-----------------------------------------------------------------------------
(* Properties *)

\* The run r is on a vehicle.
Bound(r) == Known(VehicleOf[r]) /\ fleet[VehicleOf[r]].bound = r

\* r is over for the simulator: databus has ended it, it is on no vehicle and no
\* answer that would bind it is still to be applied.
Retired(r) == Ended(r) /\ ~ Bound(r) /\ ~ (call.run = r /\ call.reply = "Confirmed")

\* The run on a vehicle is one the poll loop still visits and has not seen ended:
\* whatever untrack, track and late answers did to its binding, the loop will
\* notice its end (run_binder.py:101-106 skips the others).
BoundIsPolled ==
  \A v \in Roster : LET r == fleet[v].bound IN
    r # NoRun => /\ VehicleOf[r] = v
                 /\ Tracked(r) /\ bindings[r].state \notin TERMINAL_STATES

\* A delayed untrack still to fire, or a binding in a terminal state, belongs to a
\* retired run: dropping the binding can strand no vehicle (run_binder.py:138-141).
ClosedIsRetired ==
  \A r \in Runs :
    timers[r] > 0 \/ bindings[r].state \in TERMINAL_STATES => Retired(r)

\* The state shown on a vehicle is the one last seen of the run it carries; a run that
\* has been tracked anew has not been seen yet (run_binder.py:134-146).
ShowsItsRun(v) ==
  LET r == fleet[v].bound
  IN  r # NoRun /\ bindings[r].state # NoState => fleet[v].lifecycle = bindings[r].state

\* Only another run of the vehicle spoils that, and only while it is on its way to its
\* confirmation or has lost the vehicle: set_lifecycle_state does not ask which run the
\* vehicle carries (run_binder.py:146).  Late answers, runs tracked anew, delayed
\* untracks and runs of other vehicles never do.
LabelSpoiltByOtherRun ==
  [][\A v \in Roster :
       ShowsItsRun(v) /\ ~ ShowsItsRun(v)'
         => /\ call.run # fleet[v].bound /\ VehicleOf[call.run] = v
            /\ call.reply \in {"Initialized"} \cup RUNNING_STATES]_vars

\* A run is taken off its vehicle only when databus has ended it or lost it
\* ("with the run still not found (404), treat it as lost", run_binder.py:23-24): the code
\* breaks this.
LiveRunKeepsVehicle ==
  [][\A r \in Runs : Bound(r) /\ ~ Bound(r)' => Ended(r)]_vars

\* What does take a live run r off: the poll loop holds an answer about a run q of the
\* same vehicle, which is None (a 404, or any failed call), or which shows that another run has
\* ended, or puts it on the vehicle.
Ousts(q, r) ==
  /\ call.run = q /\ VehicleOf[q] = VehicleOf[r]
  /\ call.reply = NoState \/ (q # r /\ (Ended(q) \/ Bound(q)'))

\* Nothing else does: no call that raised, no other answer about the run itself, however
\* late, no run of another vehicle, no track, no untrack and no tick
\* (run_binder.py:109-124,148-175).
LiveRunOustedByAnswer ==
  [][\A r \in Runs : Bound(r) /\ ~ Bound(r)' => Ended(r) \/ \E q \in Runs : Ousts(q, r)]_vars

\* After databus ends or loses a run, the run leaves its vehicle and never comes
\* back, late answers and repeated tracking included (README.md, operator flow 6).
EndedRunReleased == \A r \in Runs : Ended(r) ~> [] ~ Bound(r)

\* A tracked run that stays confirmed is put on its vehicle (README.md, operator flow 4).
ConfirmedRunBound ==
  \A r \in Runs : db[r] = "Confirmed" /\ Tracked(r)
                 ~> Bound(r) \/ db[r] # "Confirmed" \/ ~ Tracked(r)

\* The binder implements the abstract assignment of runs to vehicles.
PhaseOf(r) == IF Retired(r) THEN "retired"
              ELSE IF Unconfirmed(r) THEN "requested" ELSE "confirmed"
Assigned == INSTANCE Assignment WITH
  Slots <- Roster, HomeOf <- VehicleOf,
  slot <- [v \in Roster |-> fleet[v].bound],
  phase <- [r \in Runs |-> PhaseOf(r)]
ImplementsAssignment == Assigned!Spec
=============================================================================

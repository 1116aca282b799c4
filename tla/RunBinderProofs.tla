--------------------------- MODULE RunBinderProofs ---------------------------
(***************************************************************************)
(* Proofs about the run binder, for any fleet, any set of runs (two runs   *)
(* may share a vehicle, a run may name a vehicle that is not in the        *)
(* roster), any failures of the calls to databus and any number of calls   *)
(* of track.                                                               *)
(***************************************************************************)
EXTENDS RunBinder, TLAPS

\* The object the loop holds is a binding it may still change; while it is shared it
\* is the one in the dictionary.
HeldIsOpen ==
  call.run # NoRun => /\ call.binding.state \notin TERMINAL_STATES
                      /\ call.binding # Untracked
                      /\ call.shared => bindings[call.run] = call.binding

\* What an answer says of its run still holds when it is applied: an ended run has
\* ended, and a confirmed one has not been dropped from the dictionary meanwhile.
ReplyHolds ==
  /\ call.run = NoRun => call = NoCall
  /\ call.reply \in TERMINAL_STATES => Ended(call.run)
  /\ call.reply = "Confirmed" => Tracked(call.run)

\* The inductive invariant.
IInv == TypeOK /\ HeldIsOpen /\ ReplyHolds /\ ClosedIsRetired /\ BoundIsPolled

-----------------------------------------------------------------------------
(* Lemmas about the operators *)

\* Every mutator of a vehicle returns a vehicle (fleet.py:101-169).
LEMMA VehicleOps ==
  ASSUME NEW u \in Vehicle, NEW r \in Runs, NEW s \in LifecycleStates, NEW on \in BOOLEAN,
         NEW p \in Positions
  PROVE  /\ SetTransmitting(u, on) \in Vehicle
         /\ SetMoving(u, on) \in Vehicle
         /\ SetProgress(u, p) \in Vehicle
         /\ SetLifecycleState(u, s) \in Vehicle
         /\ BindRun(u, r) \in Vehicle
         /\ UnbindRun(u) \in Vehicle
BY FleetAssumption
   DEF Vehicle, SetTransmitting, SetMoving, SetProgress, SetLifecycleState, BindRun, UnbindRun

\* What _apply_state does to the run of a vehicle: it binds the run on Confirmed,
\* frees the vehicle on a terminal state and leaves it alone otherwise.
LEMMA ApplyStateFacts ==
  ASSUME NEW u \in Vehicle, NEW r \in Runs, NEW s \in LifecycleStates
  PROVE  /\ ApplyState(u, r, s) \in Vehicle
         /\ s = "Confirmed" => ApplyState(u, r, s).bound = r
         /\ s \in TERMINAL_STATES => ApplyState(u, r, s).bound = NoRun
         /\ s # "Confirmed" /\ s \notin TERMINAL_STATES => ApplyState(u, r, s).bound = u.bound
<1> DEFINE seen == SetLifecycleState(u, s)
<1>1. seen \in Vehicle /\ seen.bound = u.bound
  BY VehicleOps DEF SetLifecycleState, Vehicle
<1>2. CASE s = "Confirmed"
  <2> DEFINE bnd == BindRun(seen, r)
             stp == SetMoving(bnd, FALSE)
             rst == SetProgress(stp, Start)
             trn == SetTransmitting(rst, TRUE)
  <2>1. bnd \in Vehicle /\ bnd.bound = r
    BY <1>1 DEF BindRun, Vehicle
  <2>2. stp \in Vehicle /\ stp.bound = r
    BY <2>1, VehicleOps DEF SetMoving, Vehicle
  <2>3. rst \in Vehicle /\ rst.bound = r
    BY <2>2, VehicleOps, FleetAssumption DEF SetProgress, Vehicle
  <2>4. trn \in Vehicle /\ trn.bound = r
    BY <2>3, VehicleOps DEF SetTransmitting, Vehicle
  <2>5. s \notin TERMINAL_STATES
    BY <1>2 DEF TERMINAL_STATES
  <2>6. ApplyState(u, r, s) = trn
    BY <1>2, <2>5 DEF ApplyState
  <2> HIDE DEF trn
  <2> QED BY <2>4, <2>5, <2>6, <1>2
<1>3. CASE s \in TERMINAL_STATES
  <2>1. s # "Confirmed"
    BY <1>3 DEF TERMINAL_STATES
  <2>2. ApplyState(u, r, s) = UnbindRun(SetTransmitting(seen, FALSE))
    BY <1>3, <2>1 DEF ApplyState
  <2>3. SetTransmitting(seen, FALSE) \in Vehicle
    BY <1>1, VehicleOps, FleetAssumption
  <2>4. /\ UnbindRun(SetTransmitting(seen, FALSE)) \in Vehicle
        /\ UnbindRun(SetTransmitting(seen, FALSE)).bound = NoRun
    BY <2>3, VehicleOps, FleetAssumption DEF UnbindRun, Vehicle
  <2> QED BY <2>1, <2>2, <2>4, <1>3
<1>4. CASE s # "Confirmed" /\ s \notin TERMINAL_STATES
  <2>1. ApplyState(u, r, s) = seen
    BY <1>4 DEF ApplyState
  <2> QED BY <2>1, <1>1, <1>4
<1> QED BY <1>2, <1>3, <1>4

LEMMA TerminalIsClosed == TERMINAL_STATES = CLOSED_STATES
BY DEF TERMINAL_STATES, CLOSED_STATES

\* The locals of the loop after a replacement of the binding they were read from.
LEMMA DisownFacts ==
  ASSUME TypeOK, NEW r \in Runs
  PROVE  /\ Disown(r) \in Call
         /\ Disown(r).run = call.run
         /\ Disown(r).reply = call.reply
         /\ Disown(r).binding = call.binding
         /\ Disown(r).shared => call.shared /\ call.run # r
         /\ call = NoCall => Disown(r) = NoCall
<1> USE FleetAssumption DEF TypeOK, BinderType
<1>1. CASE call.run = r
  <2>1. Disown(r) = [call EXCEPT !.shared = FALSE]
    BY <1>1 DEF Disown
  <2>2. call # NoCall
    BY <1>1 DEF NoCall
  <2> QED BY <2>1, <2>2, <1>1 DEF Call
<1>2. CASE call.run # r
  BY <1>2 DEF Disown
<1> QED BY <1>1, <1>2

\* An answer in flight is the answer about some run.
LEMMA ReplyHasRun ==
  ASSUME TypeOK, ReplyHolds, call.reply # NoState PROVE call.run \in Runs
BY DEF TypeOK, BinderType, Call, ReplyHolds, NoCall

-----------------------------------------------------------------------------
(* The invariant is inductive *)

LEMMA InitInv == Init => IInv
<1> SUFFICES ASSUME Init PROVE IInv
  OBVIOUS
<1> USE DEF Init, FleetInit, DbInit, BinderInit
<1>1. NewVehicle \in Vehicle /\ NewVehicle.bound = NoRun
  BY FleetAssumption DEF NewVehicle, Vehicle
<1>2. NoCall \in Call
  BY DEF NoCall, Call
<1>3. TypeOK
  BY <1>1, <1>2 DEF TypeOK, FleetType, DbType, DbStatus, BinderType, NoCall
<1>4. HeldIsOpen /\ ReplyHolds
  BY DEF HeldIsOpen, ReplyHolds, NoCall, TERMINAL_STATES, NoState
<1>5. ClosedIsRetired
  <2>1. Untracked.state \notin TERMINAL_STATES
    BY DEF Untracked, TERMINAL_STATES
  <2> QED BY <2>1 DEF ClosedIsRetired
<1>6. BoundIsPolled
  BY <1>1 DEF BoundIsPolled
<1> QED BY <1>3, <1>4, <1>5, <1>6 DEF IInv

\* track: the new binding is open and no timer, answer or vehicle changes.
LEMMA TrackInv == ASSUME IInv, NEW r \in Runs, Track(r) PROVE IInv'
<1> USE DEF IInv, Track
<1>0. NewBoundRun \in BoundRun /\ NewBoundRun # Untracked /\ NewBoundRun.state \notin TERMINAL_STATES
  BY DEF NewBoundRun, BoundRun, Untracked, NoState, TERMINAL_STATES
<1>1. TypeOK'
  BY <1>0, DisownFacts DEF TypeOK, FleetType, DbType, BinderType
<1>2. HeldIsOpen'
  BY DisownFacts DEF HeldIsOpen, TypeOK, BinderType
<1>3. ReplyHolds'
  BY <1>0, DisownFacts DEF ReplyHolds, TypeOK, BinderType, Tracked, Ended
<1>4. ClosedIsRetired'
  BY <1>0, DisownFacts DEF ClosedIsRetired, Retired, Bound, Known, Ended, TypeOK, BinderType
<1>5. BoundIsPolled'
  BY <1>0 DEF BoundIsPolled, Tracked, TypeOK, FleetType, Vehicle, BinderType
<1> QED BY <1>1, <1>2, <1>3, <1>4, <1>5

LEMMA AgeInv == ASSUME IInv, NEW r \in Runs, Age(r) PROVE IInv'
<1> USE DEF IInv, Age
<1>0. /\ bindings[r] \in BoundRun
      /\ bindings' \in [Runs -> BoundRun \cup {Untracked}]
      /\ bindings'[r] = [bindings[r] EXCEPT !.aged = TRUE]
      /\ \A q \in Runs : bindings'[q].state = bindings[q].state
      /\ \A q \in Runs : Tracked(q) => bindings'[q] # Untracked
  BY DEF TypeOK, BinderType, Tracked, Untracked, BoundRun
<1>a. /\ call' \in Call /\ call'.run = call.run
      /\ call'.reply = call.reply /\ call'.shared = call.shared
      /\ call.run # r => call' = call
      /\ call.run = r => /\ call.binding \in BoundRun
                         /\ call'.binding = [call.binding EXCEPT !.aged = TRUE]
  <2>1. CASE call.run = r
    <3>1. call.binding \in BoundRun
      BY <2>1, FleetAssumption DEF TypeOK, BinderType, Call, HeldIsOpen
    <3>2. call' = [call EXCEPT !.binding = [call.binding EXCEPT !.aged = TRUE]]
      BY <2>1
    <3>3. [call.binding EXCEPT !.aged = TRUE] \in BoundRun
      BY <3>1 DEF BoundRun
    <3> QED BY <2>1, <3>1, <3>2, <3>3 DEF TypeOK, BinderType, Call
  <2>2. CASE call.run # r
    BY <2>2 DEF TypeOK, BinderType
  <2> QED BY <2>1, <2>2
<1>1. TypeOK'
  BY <1>0, <1>a DEF TypeOK, FleetType, DbType, BinderType
<1>2. HeldIsOpen'
  <2>1. CASE call.run = r
    <3>1. call'.binding.state = call.binding.state /\ call'.binding # Untracked
      BY <1>a, <2>1 DEF BoundRun, Untracked
    <3> QED BY <1>0, <1>a, <2>1, <3>1, FleetAssumption DEF HeldIsOpen
  <2>2. CASE call.run # r
    BY <1>a, <2>2 DEF HeldIsOpen, TypeOK, BinderType
  <2> QED BY <2>1, <2>2
<1>3. ReplyHolds'
  <2>1. (call.run = NoRun => call = NoCall)'
    BY <1>a, FleetAssumption DEF ReplyHolds
  <2>2. (call.reply = "Confirmed" => Tracked(call.run))'
    <3> SUFFICES ASSUME call.reply = "Confirmed" PROVE Tracked(call.run)'
      BY <1>a
    <3>1. call.run \in Runs /\ Tracked(call.run)
      BY ReplyHasRun DEF ReplyHolds, NoState
    <3> QED BY <1>0, <1>a, <3>1 DEF Tracked
  <2> QED BY <1>a, <2>1, <2>2 DEF ReplyHolds, Ended
<1>4. ClosedIsRetired'
  BY <1>0, <1>a DEF ClosedIsRetired, Retired, Bound, Known, Ended
<1>5. BoundIsPolled'
  BY <1>0 DEF BoundIsPolled, Tracked, TypeOK, FleetType, Vehicle
<1> QED BY <1>1, <1>2, <1>3, <1>4, <1>5

LEMMA AgeHeldInv == ASSUME IInv, AgeHeld PROVE IInv'
<1> USE DEF IInv, AgeHeld
<1>0. /\ call'.run = call.run /\ call'.reply = call.reply /\ ~ call'.shared
      /\ call' \in Call /\ call'.binding.state = call.binding.state
      /\ call'.binding # Untracked /\ call.run # NoRun
  BY DEF TypeOK, BinderType, Call, BoundRun, HeldIsOpen, Untracked
<1>1. TypeOK'
  BY <1>0 DEF TypeOK, FleetType, DbType, BinderType
<1>2. HeldIsOpen' /\ ReplyHolds'
  BY <1>0 DEF HeldIsOpen, ReplyHolds, Tracked, Ended
<1>3. ClosedIsRetired'
  BY <1>0 DEF ClosedIsRetired, Retired, Bound, Known, Ended
<1>4. BoundIsPolled'
  BY DEF BoundIsPolled, Tracked
<1> QED BY <1>1, <1>2, <1>3, <1>4

\* The delayed untrack: a run with a timer is retired, so nothing on a vehicle and no
\* answer to apply depends on the binding it drops.
LEMMA UntrackLaterInv == ASSUME IInv, NEW r \in Runs, UntrackLater(r) PROVE IInv'
<1> USE DEF IInv, UntrackLater
<1>0. Retired(r)
  BY DEF ClosedIsRetired
<1>1. TypeOK'
  BY DisownFacts DEF TypeOK, FleetType, DbType, BinderType
<1>2. HeldIsOpen'
  BY DisownFacts DEF HeldIsOpen, TypeOK, BinderType
<1>3. ReplyHolds'
  <2>1. /\ call'.run = call.run /\ call'.reply = call.reply
        /\ call = NoCall => call' = NoCall
    BY DisownFacts
  <2>2. call'.run = NoRun => call' = NoCall
    BY <2>1 DEF ReplyHolds
  <2>3. call'.reply \in TERMINAL_STATES => Ended(call.run)'
    BY <2>1 DEF ReplyHolds, Ended
  <2>4. ASSUME call'.reply = "Confirmed" PROVE Tracked(call.run)'
    <3>1. call.run # r /\ Tracked(call.run)
      BY <1>0, <2>1, <2>4 DEF ReplyHolds, Retired
    <3>2. bindings'[call.run] = bindings[call.run]
      BY <3>1 DEF TypeOK, BinderType, Tracked
    <3> QED
      BY <2>1, <3>1, <3>2 DEF Tracked
  <2> QED
    BY <2>2, <2>3, <2>4 DEF ReplyHolds
<1>4. ClosedIsRetired'
  <2>1. /\ call'.run = call.run /\ call'.reply = call.reply
        /\ UNCHANGED <<fleet, db>>
    BY DisownFacts
  <2>2. ASSUME NEW q \in Runs, timers'[q] > 0 \/ bindings'[q].state \in TERMINAL_STATES
        PROVE  timers[q] > 0 \/ bindings[q].state \in TERMINAL_STATES
    BY <2>2 DEF TypeOK, BinderType, Untracked, TERMINAL_STATES
  <2>3. \A q \in Runs : Retired(q) => Retired(q)'
    BY <2>1 DEF Retired, Bound, Ended
  <2> QED
    BY <2>2, <2>3 DEF ClosedIsRetired
<1>5. BoundIsPolled'
  BY <1>0 DEF BoundIsPolled, Tracked, Retired, Bound, Known, TypeOK, BinderType, FleetType, Vehicle
<1> QED BY <1>1, <1>2, <1>3, <1>4, <1>5

\* Databus moves: an ended run stays ended.
LEMMA EndedForever == ASSUME DbType, NEW r \in Runs, DatabusStep(r), NEW q \in Runs, Ended(q)
                      PROVE  Ended(q)'
BY DEF DbType, DatabusStep, DbCreate, DbConfirm, DbAdvance, DbClose, DbLose, Open, Ended,
   RUNNING_STATES, CLOSED_STATES

LEMMA DatabusInv == ASSUME IInv, NEW r \in Runs, DatabusStep(r) PROVE IInv'
<1> USE DEF IInv
<1>0. UNCHANGED <<fleet, binderVars>>
  BY DEF DatabusStep
<1>1. DbType'
  BY DatabusAssumption DEF TypeOK, DbType, DatabusStep, DbCreate, DbConfirm, DbAdvance, DbClose,
     DbLose, DbStatus, LifecycleStates, RUNNING_STATES, CLOSED_STATES
<1>2. \A q \in Runs : Ended(q) => Ended(q)'
  BY EndedForever DEF TypeOK
<1>3. TypeOK'
  BY <1>0, <1>1 DEF TypeOK, FleetType, BinderType, binderVars
<1>4. HeldIsOpen' /\ BoundIsPolled'
  BY <1>0 DEF HeldIsOpen, BoundIsPolled, Tracked, binderVars
<1>5. ReplyHolds'
  <2>1. call.reply \in TERMINAL_STATES => call.run \in Runs
    BY ReplyHasRun DEF TERMINAL_STATES, NoState
  <2> QED BY <1>0, <1>2, <2>1 DEF ReplyHolds, Tracked, binderVars
<1>6. ClosedIsRetired'
  BY <1>0, <1>2 DEF ClosedIsRetired, Retired, Bound, Known, binderVars
<1> QED BY <1>3, <1>4, <1>5, <1>6

LEMMA DriveInv == ASSUME IInv, NEW v \in Roster, NEW d \in Drives, Drive(v, d) PROVE IInv'
<1> USE DEF IInv
<1> DEFINE u == SetProgress(SetMoving(SetTransmitting(fleet[v], d.transmitting), d.moving), d.progress)
<1>0. UNCHANGED <<db, binderVars>> /\ fleet' = [fleet EXCEPT ![v] = u]
  BY DEF Drive
<1>1. u \in Vehicle /\ u.bound = fleet[v].bound
  BY BinderAssumption DEF TypeOK, FleetType, Vehicle, SetProgress, SetMoving, SetTransmitting
<1> HIDE DEF u
<1>2. FleetType' /\ \A w \in Roster : fleet'[w].bound = fleet[w].bound
  BY <1>0, <1>1 DEF TypeOK, FleetType
<1>3. TypeOK'
  BY <1>0, <1>2 DEF TypeOK, DbType, BinderType, binderVars
<1>4. HeldIsOpen' /\ ReplyHolds'
  BY <1>0 DEF HeldIsOpen, ReplyHolds, Tracked, Ended, binderVars
<1>5. ClosedIsRetired'
  BY <1>0, <1>2 DEF ClosedIsRetired, Retired, Bound, Known, Ended, binderVars
<1>6. BoundIsPolled'
  BY <1>0, <1>2 DEF BoundIsPolled, Tracked, binderVars
<1> QED BY <1>3, <1>4, <1>5, <1>6

\* A new round and a skipped binding change only what is left to visit.
LEMMA TodoInv ==
  ASSUME IInv, PollWake \/ \E r \in Runs : PollSkip(r) PROVE IInv'
<1> USE DEF IInv
<1>1. UNCHANGED <<fleet, db, bindings, loop, call, timers, tracks>> /\ todo' \in SUBSET Runs
  BY DEF PollWake, PollSkip, TypeOK, BinderType
<1> QED BY <1>1 DEF TypeOK, FleetType, DbType, BinderType, HeldIsOpen, ReplyHolds, Tracked,
     ClosedIsRetired, Retired, Bound, Known, Ended, BoundIsPolled

\* What databus answers about a run (databus_client.py:167-177).
LEMMA ReplyFacts ==
  ASSUME DbType, NEW r \in Runs, NEW reply \in Replies(r)
  PROVE  /\ reply \in LifecycleStates \cup {NoState, Raised}
         /\ reply \in TERMINAL_STATES => Ended(r)
         /\ reply = "Confirmed" => ~ Ended(r)
         /\ reply = "Confirmed" => db[r] = "Confirmed"
<1>1. db[r] \in DbStatus
  BY DEF DbType
<1>2. CASE reply \in Failures
  BY <1>2, DatabusAssumption DEF NoState, Raised, TERMINAL_STATES
<1>3. CASE reply = Answer(db[r])
  BY <1>1, <1>3 DEF Answer, DbStatus, Ended, LifecycleStates, RUNNING_STATES, CLOSED_STATES,
     TERMINAL_STATES, NoState
<1> QED BY <1>2, <1>3 DEF Replies

\* The request: the answer is true of the run, and no run it could bind is retired.
LEMMA PollRequestInv ==
  ASSUME IInv, NEW r \in Runs, NEW reply \in Replies(r), PollRequest(r, reply) PROVE IInv'
<1> USE DEF IInv, PollRequest
<1>0. /\ reply \in LifecycleStates \cup {NoState, Raised}
      /\ reply \in TERMINAL_STATES => Ended(r)
      /\ reply = "Confirmed" => ~ Ended(r)
  BY ReplyFacts DEF TypeOK
<1>1. TypeOK'
  <2>1. call' \in Call /\ call'.run = r
    BY <1>0 DEF Call, TypeOK, BinderType
  <2> QED BY <2>1, FleetAssumption DEF TypeOK, FleetType, DbType, BinderType
<1>2. HeldIsOpen' /\ ReplyHolds'
  BY <1>0, FleetAssumption DEF HeldIsOpen, ReplyHolds, Tracked, Ended
<1>3. ClosedIsRetired'
  <2> SUFFICES ASSUME NEW q \in Runs,
                      (timers[q] > 0 \/ bindings[q].state \in TERMINAL_STATES)'
               PROVE  Retired(q)'
    BY DEF ClosedIsRetired
  <2>1. Ended(q) /\ ~ Bound(q)
    BY DEF ClosedIsRetired, Retired
  <2> QED BY <1>0, <2>1 DEF Retired, Bound, Known, Ended
<1>4. BoundIsPolled'
  BY DEF BoundIsPolled, Tracked
<1> QED BY <1>1, <1>2, <1>3, <1>4

LEMMA NoCallFacts == NoCall \in Call /\ NoCall.run = NoRun /\ NoCall.reply = NoState
BY DEF NoCall, Call

\* The ways through the loop's body that change nothing but the loop's own state.
LEMMA PollQuietInv == ASSUME IInv, PollError \/ PollNotYet \/ PollSame PROVE IInv'
<1> USE DEF IInv
<1>1. UNCHANGED <<fleet, db, bindings, todo, timers, tracks>> /\ loop' = "ready" /\ call' = NoCall
  BY DEF PollError, PollNotYet, PollSame, Continue
<1>2. TypeOK'
  BY <1>1, NoCallFacts DEF TypeOK, FleetType, DbType, BinderType
<1>3. HeldIsOpen' /\ ReplyHolds'
  BY <1>1, NoCallFacts DEF HeldIsOpen, ReplyHolds, TERMINAL_STATES, NoState
<1>4. ClosedIsRetired'
  BY <1>1, NoCallFacts DEF ClosedIsRetired, Retired, Bound, Known, Ended, NoState
<1>5. BoundIsPolled'
  BY <1>1 DEF BoundIsPolled, Tracked
<1> QED BY <1>2, <1>3, <1>4, <1>5

\* _force_unbind drops a binding and frees the vehicle of that run: the run is on no
\* vehicle afterwards, whichever run the vehicle carried.
LEMMA PollLostInv == ASSUME IInv, PollLost PROVE IInv'
<1> USE DEF IInv
<1> DEFINE r == call.run
           v == VehicleOf[r]
           u == UnbindRun(fleet[v])
<1>0. /\ r \in Runs /\ v \in Roster
      /\ fleet' = [fleet EXCEPT ![v] = u]
      /\ bindings' = [bindings EXCEPT ![r] = Untracked]
      /\ loop' = "ready" /\ call' = NoCall
      /\ UNCHANGED <<db, todo, timers, tracks>>
  BY DEF PollLost, Continue, Known, TypeOK, BinderType, Call
<1>1. fleet[v] \in Vehicle /\ u \in Vehicle /\ u.bound = NoRun
  BY <1>0, FleetAssumption DEF TypeOK, FleetType, UnbindRun, Vehicle, NoState
<1> HIDE DEF r, v, u
<1>2. TypeOK'
  BY <1>0, <1>1, NoCallFacts DEF TypeOK, FleetType, DbType, BinderType
<1>3. HeldIsOpen' /\ ReplyHolds'
  BY <1>0, NoCallFacts DEF HeldIsOpen, ReplyHolds, TERMINAL_STATES, NoState
<1>4. \A w \in Roster : fleet'[w].bound = fleet[w].bound \/ fleet'[w].bound = NoRun
  BY <1>0, <1>1 DEF TypeOK, FleetType
<1>5. ClosedIsRetired'
  <2> SUFFICES ASSUME NEW q \in Runs,
                      (timers[q] > 0 \/ bindings[q].state \in TERMINAL_STATES)'
               PROVE  Retired(q)'
    BY DEF ClosedIsRetired
  <2>1. Ended(q) /\ ~ Bound(q)
    BY <1>0 DEF ClosedIsRetired, Retired, Untracked, TERMINAL_STATES, TypeOK, BinderType
  <2> QED BY <1>0, <1>4, <2>1, NoCallFacts, FleetAssumption DEF Retired, Bound, Known, Ended, NoState
<1>6. BoundIsPolled'
  <2> SUFFICES ASSUME NEW w \in Roster, fleet'[w].bound # NoRun
               PROVE  LET q == fleet'[w].bound
                      IN  /\ VehicleOf[q] = w /\ bindings'[q] # Untracked
                          /\ bindings'[q].state \notin TERMINAL_STATES
    BY DEF BoundIsPolled, Tracked
  <2>1. w # v /\ fleet'[w] = fleet[w]
    BY <1>0, <1>1 DEF TypeOK, FleetType
  <2>2. fleet[w].bound \in Runs /\ VehicleOf[fleet[w].bound] = w /\ fleet[w].bound # r
    BY <2>1 DEF BoundIsPolled, TypeOK, FleetType, Vehicle, v
  <2> QED BY <1>0, <2>1, <2>2 DEF BoundIsPolled, Tracked, TypeOK, BinderType
<1> QED BY <1>2, <1>3, <1>5, <1>6

\* Recording the new state keeps the dictionary's type, keeps every run tracked, and
\* changes at most the state of the polled run's binding, to the answer.
LEMMA ObserveFacts ==
  ASSUME IInv, loop = "await", call.reply \in LifecycleStates
  PROVE  /\ Observe \in [Runs -> BoundRun \cup {Untracked}]
         /\ \A q \in Runs : Tracked(q) => Observe[q] # Untracked
         /\ \A q \in Runs : \/ Observe[q] = bindings[q]
                            \/ q = call.run /\ Observe[q].state = call.reply
<1> USE DEF IInv
<1>1. CASE call.shared
  <2>1. call.run \in Runs /\ bindings[call.run] \in BoundRun
    BY <1>1, FleetAssumption DEF TypeOK, BinderType, Call, HeldIsOpen
  <2> DEFINE b == [bindings[call.run] EXCEPT !.state = call.reply]
  <2>2. b \in BoundRun /\ b.state = call.reply
    BY <2>1 DEF BoundRun
  <2>3. b # Untracked
    BY <2>2 DEF Untracked, LifecycleStates, RUNNING_STATES, CLOSED_STATES
  <2>4. Observe = [bindings EXCEPT ![call.run] = b]
    BY <1>1 DEF Observe
  <2> HIDE DEF b
  <2> QED BY <2>1, <2>2, <2>3, <2>4 DEF TypeOK, BinderType, Tracked
<1>2. CASE ~ call.shared
  BY <1>2 DEF Observe, TypeOK, BinderType, Tracked
<1> QED BY <1>1, <1>2

\* A new state.  A terminal one retires the run; a confirmed one takes the vehicle for
\* a run that is tracked and has not been seen ended.
LEMMA PollChangeInv == ASSUME IInv, PollChange PROVE IInv'
<1> USE DEF IInv
<1> DEFINE r == call.run
           v == VehicleOf[r]
           u == ApplyState(fleet[v], r, call.reply)
<1>0. /\ r \in Runs /\ v \in Roster /\ call.reply \in LifecycleStates
      /\ fleet' = [fleet EXCEPT ![v] = u]
      /\ bindings' = Observe
      /\ timers' = IF call.reply \in TERMINAL_STATES THEN [timers EXCEPT ![r] = @ + 1] ELSE timers
      /\ loop = "await" /\ loop' = "ready" /\ call' = NoCall
      /\ UNCHANGED <<db, todo, tracks>>
  BY DEF PollChange, Continue, Known, TypeOK, BinderType, Call
<1>1. fleet[v] \in Vehicle
  BY <1>0 DEF TypeOK, FleetType
<1>2. /\ u \in Vehicle
      /\ call.reply = "Confirmed" => u.bound = r
      /\ call.reply \in TERMINAL_STATES => u.bound = NoRun
      /\ call.reply # "Confirmed" /\ call.reply \notin TERMINAL_STATES => u.bound = fleet[v].bound
  BY <1>0, <1>1, ApplyStateFacts
<1>3. /\ bindings' \in [Runs -> BoundRun \cup {Untracked}]
      /\ \A q \in Runs : Tracked(q) => bindings'[q] # Untracked
      /\ \A q \in Runs : \/ bindings'[q] = bindings[q]
                         \/ q = r /\ bindings'[q].state = call.reply
  BY <1>0, ObserveFacts
<1>4. /\ timers' \in [Runs -> Nat]
      /\ \A q \in Runs : \/ timers'[q] = timers[q]
                         \/ q = r /\ call.reply \in TERMINAL_STATES
  BY <1>0 DEF TypeOK, BinderType
<1>5. call.reply \in TERMINAL_STATES => Ended(r)
  BY DEF ReplyHolds
<1>5a. v = VehicleOf[r]
  OBVIOUS
<1>5b. call.reply = "Confirmed" => Tracked(r) /\ ~ Retired(r)
  BY DEF ReplyHolds, Retired
<1>5c. "Confirmed" \notin TERMINAL_STATES
  BY DEF TERMINAL_STATES
<1> HIDE DEF r, v, u
<1>6. TypeOK'
  BY <1>0, <1>2, <1>3, <1>4, NoCallFacts DEF TypeOK, FleetType, DbType, BinderType
<1>7. HeldIsOpen' /\ ReplyHolds'
  BY <1>0, NoCallFacts DEF HeldIsOpen, ReplyHolds, TERMINAL_STATES, NoState
<1>8. ClosedIsRetired'
  <2> SUFFICES ASSUME NEW q \in Runs,
                      (timers[q] > 0 \/ bindings[q].state \in TERMINAL_STATES)'
               PROVE  Ended(q)' /\ ~ Bound(q)'
    BY <1>0, NoCallFacts, FleetAssumption DEF ClosedIsRetired, Retired, NoState
  <2>1. CASE q = r /\ call.reply \in TERMINAL_STATES
    BY <2>1, <1>0, <1>2, <1>5, <1>5a, FleetAssumption DEF Ended, Bound, Known, TypeOK, FleetType
  <2>2. CASE ~ (q = r /\ call.reply \in TERMINAL_STATES)
    <3>1. Retired(q)
      BY <2>2, <1>3, <1>4 DEF ClosedIsRetired
    <3>2. q = r => call.reply # "Confirmed"
      BY <3>1, <1>5b
    <3> QED BY <3>1, <3>2, <1>0, <1>2, FleetAssumption DEF Retired, Ended, Bound, Known, TypeOK, FleetType
  <2> QED BY <2>1, <2>2
<1>9. BoundIsPolled'
  <2> SUFFICES ASSUME NEW w \in Roster, NEW q, q = fleet'[w].bound, q # NoRun
               PROVE  /\ VehicleOf[q] = w /\ bindings'[q] # Untracked
                      /\ bindings'[q].state \notin TERMINAL_STATES
    BY DEF BoundIsPolled, Tracked
  <2>1. CASE w = v /\ call.reply = "Confirmed"
    <3>1. q = r /\ VehicleOf[q] = w /\ Tracked(q) /\ ~ Retired(q)
      BY <2>1, <1>0, <1>2, <1>5a, <1>5b DEF TypeOK, FleetType
    <3>2. bindings[q].state \notin TERMINAL_STATES
      BY <3>1, <1>0 DEF ClosedIsRetired
    <3> QED BY <3>1, <3>2, <2>1, <1>0, <1>3, <1>5c
  <2>2. CASE ~ (w = v /\ call.reply = "Confirmed")
    <3>1. fleet[w].bound = q /\ (w = v => call.reply \notin TERMINAL_STATES)
      BY <2>2, <1>0, <1>2 DEF TypeOK, FleetType
    <3>2. /\ q \in Runs /\ VehicleOf[q] = w /\ Tracked(q)
          /\ bindings[q].state \notin TERMINAL_STATES
      BY <3>1 DEF BoundIsPolled, TypeOK, FleetType, Vehicle
    <3>3. q = r => w = v
      BY <3>2, <1>5a
    <3> QED BY <3>1, <3>2, <3>3, <1>3
  <2> QED BY <2>1, <2>2
<1> QED BY <1>6, <1>7, <1>8, <1>9

\* The KeyError for an unknown vehicle ends the loop: nothing is on that vehicle.
LEMMA PollDiesInv == ASSUME IInv, PollDies PROVE IInv'
<1> USE DEF IInv
<1> DEFINE r == call.run
<1>0. /\ r \in Runs /\ VehicleOf[r] \notin Roster
      /\ loop = "await" /\ loop' = "dead" /\ call' = NoCall
      /\ UNCHANGED <<fleet, db, todo, timers, tracks>>
  BY DEF PollDies, Known, TypeOK, BinderType, Call
<1>1. /\ bindings' \in [Runs -> BoundRun \cup {Untracked}]
      /\ \A q \in Runs : Tracked(q) => bindings'[q] # Untracked
      /\ \A q \in Runs : \/ bindings'[q] = bindings[q]
                         \/ q = r /\ bindings'[q].state = call.reply
  <2>1. CASE bindings' = bindings
    BY <2>1 DEF TypeOK, BinderType, Tracked
  <2>2. CASE call.reply \in LifecycleStates /\ bindings' = Observe
    BY <2>2, <1>0, ObserveFacts
  <2> QED BY <2>1, <2>2 DEF PollDies
<1>2. TypeOK'
  BY <1>0, <1>1, NoCallFacts DEF TypeOK, FleetType, DbType, BinderType
<1>3. HeldIsOpen' /\ ReplyHolds'
  BY <1>0, NoCallFacts DEF HeldIsOpen, ReplyHolds, TERMINAL_STATES, NoState
<1>4. ClosedIsRetired'
  <2> SUFFICES ASSUME NEW q \in Runs,
                      (timers[q] > 0 \/ bindings[q].state \in TERMINAL_STATES)'
               PROVE  Ended(q) /\ ~ Bound(q)
    BY <1>0, NoCallFacts, FleetAssumption DEF ClosedIsRetired, Retired, NoState, Ended, Bound, Known
  <2>1. CASE q = r /\ call.reply \in TERMINAL_STATES
    BY <2>1, <1>0 DEF ReplyHolds, Bound, Known
  <2>2. CASE ~ (q = r /\ call.reply \in TERMINAL_STATES)
    BY <2>2, <1>0, <1>1 DEF ClosedIsRetired, Retired
  <2> QED BY <2>1, <2>2
<1>5. BoundIsPolled'
  BY <1>0, <1>1 DEF BoundIsPolled, Tracked, TypeOK, FleetType, Vehicle
<1> QED BY <1>2, <1>3, <1>4, <1>5

LEMMA NextInv == IInv /\ [Next]_vars => IInv'
<1> SUFFICES ASSUME IInv, [Next]_vars PROVE IInv'
  OBVIOUS
<1>1. CASE PollWake \/ \E r \in Runs : PollSkip(r)
  BY <1>1, TodoInv
<1>2. CASE \E r \in Runs : \E x \in Replies(r) : PollRequest(r, x)
  BY <1>2, PollRequestInv
<1>3. CASE PollResume
  BY <1>3, PollQuietInv, PollLostInv, PollChangeInv, PollDiesInv DEF PollResume
<1>4. CASE AgeHeld
  BY <1>4, AgeHeldInv
<1>5. CASE \E r \in Runs : Track(r) \/ Age(r) \/ UntrackLater(r) \/ DatabusStep(r)
  BY <1>5, TrackInv, AgeInv, UntrackLaterInv, DatabusInv
<1>6. CASE \E v \in Roster, d \in Drives : Drive(v, d)
  BY <1>6, DriveInv
<1>7. CASE UNCHANGED vars
  BY <1>7 DEF vars, binderVars, IInv, TypeOK, FleetType, DbType, BinderType, HeldIsOpen, ReplyHolds,
     Tracked, ClosedIsRetired, Retired, Bound, Known, Ended, BoundIsPolled
<1> QED BY <1>1, <1>2, <1>3, <1>4, <1>5, <1>6, <1>7 DEF Next, PollStep

LEMMA Invariance == Spec => []IInv
<1> QED BY InitInv, NextInv, PTL DEF Spec

\* In every reachable state each variable has its type, for any constants.
THEOREM TypeCorrect == Spec => []TypeOK
<1>1. IInv => TypeOK
  BY DEF IInv
<1> QED BY <1>1, Invariance, PTL

\* The run on a vehicle is always one the poll loop still visits (run_binder.py:101-106),
\* whatever is tracked again or untracked while an answer is awaited.
THEOREM BoundPolled == Spec => []BoundIsPolled
<1>1. IInv => BoundIsPolled
  BY DEF IInv
<1> QED BY <1>1, Invariance, PTL

\* The delayed untrack (run_binder.py:138-141) only ever drops the binding of a run that
\* is over and on no vehicle.
THEOREM ClosedRetired == Spec => []ClosedIsRetired
<1>1. IInv => ClosedIsRetired
  BY DEF IInv
<1> QED BY <1>1, Invariance, PTL

-----------------------------------------------------------------------------
(* What a step may do to the three things the remaining theorems are about *)

\* Databus never takes back a confirmation or an end.
LEMMA DbForward ==
  ASSUME IInv, [Next]_vars, NEW q \in Runs
  PROVE  (Ended(q) => Ended(q)') /\ (~ Unconfirmed(q) => ~ Unconfirmed(q)')
<1>1. CASE UNCHANGED db
  BY <1>1 DEF Ended, Unconfirmed
<1>2. CASE \E r \in Runs : DatabusStep(r)
  <2>1. PICK r \in Runs : DatabusStep(r)
    BY <1>2
  <2>2. Ended(q) => Ended(q)'
    BY <2>1, EndedForever DEF IInv, TypeOK
  <2>3. ASSUME NEW x, x \notin {"new", "Initialized"}, db' = [db EXCEPT ![r] = x],
               ~ Unconfirmed(q)
        PROVE  ~ Unconfirmed(q)'
    BY <2>3 DEF IInv, TypeOK, DbType, Unconfirmed
  <2>4. ~ Unconfirmed(q) => ~ Unconfirmed(q)'
    <3>1. CASE DbCreate(r)
      BY <3>1 DEF IInv, TypeOK, DbType, DbCreate, Unconfirmed
    <3>2. CASE DbConfirm(r)
      BY <3>2, <2>3 DEF DbConfirm
    <3>3. CASE \E s \in DbRunning : DbAdvance(r, s)
      BY <3>3, <2>3, DatabusAssumption DEF DbAdvance, RUNNING_STATES
    <3>4. CASE \E s \in DbClosing : DbClose(r, s)
      BY <3>4, <2>3, DatabusAssumption DEF DbClose, CLOSED_STATES
    <3>5. CASE DbLose(r)
      BY <3>5, <2>3 DEF DbLose
    <3> QED BY <2>1, <3>1, <3>2, <3>3, <3>4, <3>5 DEF DatabusStep
  <2> QED BY <2>2, <2>4
<1>3. UNCHANGED db \/ \E r \in Runs : DatabusStep(r)
  BY DEF Next, vars, PollStep, PollResume, PollWake, PollSkip, PollRequest, PollError, PollNotYet,
     PollLost, PollSame, PollChange, PollDies, AgeHeld, Track, Age, UntrackLater, Drive
<1> QED BY <1>1, <1>2, <1>3

\* Only two actions change which run a vehicle carries.
LEMMA FleetSteps ==
  ASSUME IInv, [Next]_vars
  PROVE  \/ \A v \in Roster : fleet'[v].bound = fleet[v].bound
         \/ PollLost
         \/ PollChange
<1>1. CASE UNCHANGED fleet
  BY <1>1
<1>2. CASE \E v \in Roster, d \in Drives : Drive(v, d)
  BY <1>2, BinderAssumption DEF IInv, TypeOK, FleetType, Vehicle, Drive, SetProgress, SetMoving,
     SetTransmitting
<1>3. UNCHANGED fleet \/ (\E v \in Roster, d \in Drives : Drive(v, d)) \/ PollLost \/ PollChange
  BY DEF Next, vars, PollStep, PollResume, PollWake, PollSkip, PollRequest, PollError, PollNotYet,
     PollSame, PollDies, AgeHeld, Track, Age, UntrackLater, DatabusStep
<1> QED BY <1>1, <1>2, <1>3

\* An answer awaits its application unchanged, is dropped, or is a fresh one.
LEMMA CallSteps ==
  ASSUME IInv, [Next]_vars
  PROVE  \/ call'.run = call.run /\ call'.reply = call.reply
         \/ call' = NoCall
         \/ \E r \in Runs : \E x \in Replies(r) : PollRequest(r, x)
<1>1. CASE UNCHANGED call
  BY <1>1
<1>2. CASE AgeHeld
  BY <1>2 DEF AgeHeld, IInv, TypeOK, BinderType, Call
<1>3. CASE \E r \in Runs : Track(r) \/ UntrackLater(r)
  BY <1>3, DisownFacts DEF Track, UntrackLater, IInv
<1>4. CASE \E r \in Runs : Age(r)
  BY <1>4 DEF Age, IInv, TypeOK, BinderType, Call
<1>5. CASE PollResume
  BY <1>5 DEF PollResume, PollError, PollNotYet, PollLost, PollSame, PollChange, PollDies, Continue
<1>6. \/ UNCHANGED call
      \/ AgeHeld \/ PollResume
      \/ \E r \in Runs : Track(r) \/ UntrackLater(r) \/ Age(r)
      \/ \E r \in Runs : \E x \in Replies(r) : PollRequest(r, x)
  BY DEF Next, vars, binderVars, PollStep, PollWake, PollSkip, DatabusStep, Drive
<1> QED BY <1>1, <1>2, <1>3, <1>4, <1>5, <1>6

\* The two ways the run on a vehicle changes, in terms of the answer applied.
LEMMA Rebinding ==
  ASSUME IInv, PollLost \/ PollChange
  PROVE  LET v == VehicleOf[call.run]
         IN  /\ call.run \in Runs /\ v \in Roster /\ call' = NoCall
             /\ \A w \in Roster : w # v => fleet'[w].bound = fleet[w].bound
             /\ \/ call.reply \in TERMINAL_STATES \cup {NoState} /\ fleet'[v].bound = NoRun
                \/ call.reply = "Confirmed" /\ fleet'[v].bound = call.run
                \/ fleet'[v].bound = fleet[v].bound
<1> DEFINE r == call.run
           v == VehicleOf[r]
<1>1. r \in Runs /\ v \in Roster /\ call' = NoCall
  BY DEF IInv, PollLost, PollChange, Continue, Known, TypeOK, BinderType, Call
<1>2. fleet[v] \in Vehicle /\ fleet \in [Roster -> Vehicle]
  BY <1>1 DEF IInv, TypeOK, FleetType
<1>3. CASE PollLost
  <2>1. fleet' = [fleet EXCEPT ![v] = UnbindRun(fleet[v])] /\ call.reply = NoState
    BY <1>3 DEF PollLost
  <2>2. UnbindRun(fleet[v]).bound = NoRun
    BY <1>2 DEF UnbindRun, Vehicle
  <2> HIDE DEF v
  <2> QED BY <1>1, <1>2, <2>1, <2>2 DEF v
<1>4. CASE PollChange
  <2>1. /\ fleet' = [fleet EXCEPT ![v] = ApplyState(fleet[v], r, call.reply)]
        /\ call.reply \in LifecycleStates
    BY <1>4 DEF PollChange
  <2> DEFINE u == ApplyState(fleet[v], r, call.reply)
  <2>2. /\ call.reply = "Confirmed" => u.bound = r
        /\ call.reply \in TERMINAL_STATES => u.bound = NoRun
        /\ call.reply # "Confirmed" /\ call.reply \notin TERMINAL_STATES => u.bound = fleet[v].bound
    BY <1>1, <1>2, <2>1, ApplyStateFacts
  <2>3. fleet'[v].bound = u.bound /\ \A w \in Roster : w # v => fleet'[w].bound = fleet[w].bound
    BY <1>1, <1>2, <2>1
  <2> HIDE DEF u
  <2> QED BY <1>1, <2>1, <2>2, <2>3
<1> QED BY <1>3, <1>4

-----------------------------------------------------------------------------
(* What takes a live run off its vehicle *)

\* What is known of runs on vehicles and of answers: neither concerns a run databus has
\* not confirmed.
KnownRuns ==
  /\ \A r \in Runs : Bound(r) => ~ Unconfirmed(r)
  /\ call.reply = "Confirmed" => ~ Unconfirmed(call.run)

LEMMA KnownRunsInit == Init => KnownRuns
BY FleetAssumption DEF Init, FleetInit, BinderInit, NewVehicle, NoCall, NoState, KnownRuns, Bound, Known

LEMMA KnownRunsStep == IInv /\ KnownRuns /\ [Next]_vars => KnownRuns'
<1> SUFFICES ASSUME IInv, KnownRuns, [Next]_vars PROVE KnownRuns'
  OBVIOUS
<1>1. \A r \in Runs : ~ Unconfirmed(r) => ~ Unconfirmed(r)'
  BY DbForward
<1>2. ASSUME NEW r \in Runs, Bound(r)' PROVE ~ Unconfirmed(r)'
  <2>1. CASE \A v \in Roster : fleet'[v].bound = fleet[v].bound
    BY <1>1, <1>2, <2>1 DEF Bound, Known, KnownRuns
  <2>2. CASE PollLost \/ PollChange
    <3>1. Bound(r) \/ (call.run = r /\ call.reply = "Confirmed")
      BY <1>2, <2>2, Rebinding, FleetAssumption DEF Bound, Known
    <3> QED BY <1>1, <3>1 DEF KnownRuns
  <2> QED BY <2>1, <2>2, FleetSteps
<1>3. ASSUME call'.reply = "Confirmed" PROVE (~ Unconfirmed(call.run))'
  <2>1. CASE call'.run = call.run /\ call'.reply = call.reply
    <3>1. call.run \in Runs
      BY <2>1, <1>3, ReplyHasRun DEF IInv, NoState
    <3>2. PICK r \in Runs : r = call.run
      BY <3>1
    <3>3. ~ Unconfirmed(r)'
      BY <1>1, <1>3, <2>1, <3>2 DEF KnownRuns
    <3> QED BY <2>1, <3>2, <3>3 DEF Unconfirmed
  <2>2. CASE call' = NoCall
    BY <1>3, <2>2, NoCallFacts DEF NoState
  <2>3. CASE \E r \in Runs : \E x \in Replies(r) : PollRequest(r, x)
    <3>1. PICK r \in Runs : \E x \in Replies(r) : PollRequest(r, x)
      BY <2>3
    <3>2. db[r] = "Confirmed" /\ db' = db /\ call'.run = r
      BY <1>3, <3>1, ReplyFacts DEF PollRequest, IInv, TypeOK
    <3> QED BY <3>2 DEF Unconfirmed
  <2> QED BY <2>1, <2>2, <2>3, CallSteps
<1> QED BY <1>2, <1>3 DEF KnownRuns

\* A live run is taken off its vehicle only by the answer of a poll about a run of that
\* vehicle: a None (a 404, and any failed call), or the end or the arrival of another run
\* (run_binder.py:109-124,148-175).
THEOREM LiveRunsOusted == Spec => LiveRunOustedByAnswer
<1>1. IInv /\ [Next]_vars
      => [\A r \in Runs : Bound(r) /\ ~ Bound(r)' => Ended(r) \/ \E q \in Runs : Ousts(q, r)]_vars
  <2> SUFFICES ASSUME IInv, [Next]_vars, NEW r \in Runs, Bound(r), ~ Bound(r)', ~ Ended(r)
               PROVE  \E q \in Runs : Ousts(q, r)
    OBVIOUS
  <2>1. PollLost \/ PollChange
    BY FleetSteps DEF Bound, Known
  <2>2. PICK q \in Runs, v \in Roster : q = call.run /\ v = VehicleOf[q]
    BY <2>1, Rebinding
  <2>3. VehicleOf[r] = v
    BY <2>1, <2>2, Rebinding DEF Bound, Known
  <2>4. CASE call.reply \in TERMINAL_STATES \cup {NoState}
    <3>1. CASE call.reply = NoState
      BY <2>2, <2>3, <3>1 DEF Ousts
    <3>2. CASE call.reply \in TERMINAL_STATES
      <4>1. Ended(q)
        BY <2>2, <3>2 DEF IInv, ReplyHolds
      <4>2. q # r
        BY <4>1
      <4> QED BY <2>2, <2>3, <4>1, <4>2 DEF Ousts
    <3> QED BY <2>4, <3>1, <3>2
  <2>5. CASE fleet'[v].bound = q
    <3>1. Bound(q)'
      BY <2>2, <2>5 DEF Bound, Known
    <3>2. q # r
      BY <3>1
    <3> QED BY <2>2, <2>3, <3>1, <3>2 DEF Ousts
  <2>6. CASE fleet'[v].bound = fleet[v].bound
    BY <2>3, <2>6 DEF Bound, Known
  <2> QED BY <2>1, <2>2, <2>4, <2>5, <2>6, Rebinding
<1> QED BY <1>1, Invariance, PTL DEF Spec, LiveRunOustedByAnswer

-----------------------------------------------------------------------------
(* The label of a vehicle *)

\* An object that is no longer the dictionary's has been replaced by a new one, or by none.
OrphanFresh ==
  call.run # NoRun /\ ~ call.shared
    => bindings[call.run] = Untracked \/ bindings[call.run].state = NoState

\* What a step may do to the state of a binding and to the object in the loop's hands.
LEMMA BindingSteps ==
  ASSUME IInv, [Next]_vars, ~ PollChange, ~ PollDies, NEW r \in Runs
  PROVE  \/ bindings'[r].state = bindings[r].state /\ (Tracked(r) <=> Tracked(r)')
         \/ bindings'[r] = Untracked \/ bindings'[r].state = NoState
<1>1. bindings \in [Runs -> BoundRun \cup {Untracked}]
  BY DEF IInv, TypeOK, BinderType
<1>2. CASE UNCHANGED bindings
  BY <1>2 DEF Tracked
<1>3. ASSUME NEW q \in Runs, Track(q) \/ UntrackLater(q)
      PROVE  bindings'[r] = bindings[r] \/ bindings'[r] = Untracked \/ bindings'[r].state = NoState
  BY <1>1, <1>3 DEF Track, UntrackLater, NewBoundRun
<1>4. ASSUME NEW q \in Runs, Age(q)
      PROVE  bindings'[r].state = bindings[r].state /\ (Tracked(r) <=> Tracked(r)')
  <2>1. bindings' = [bindings EXCEPT ![q] = [bindings[q] EXCEPT !.aged = TRUE]] /\ Tracked(q)
    BY <1>4 DEF Age
  <2>2. bindings[q] \in BoundRun
    BY <1>1, <2>1 DEF Tracked
  <2>3. CASE q = r
    <3>1. bindings'[r] = [bindings[r] EXCEPT !.aged = TRUE]
      BY <1>1, <2>1, <2>3
    <3>2. bindings'[r].state = bindings[r].state /\ bindings'[r].aged
      BY <2>2, <2>3, <3>1 DEF BoundRun
    <3> QED
      BY <2>1, <2>3, <3>2 DEF Tracked, Untracked
  <2>4. CASE q # r
    BY <1>1, <2>1, <2>4 DEF Tracked
  <2> QED BY <2>3, <2>4
<1>5. CASE PollLost
  BY <1>1, <1>5 DEF PollLost, Tracked
<1>6. \/ UNCHANGED bindings \/ PollLost
      \/ \E q \in Runs : Track(q) \/ UntrackLater(q) \/ Age(q)
  BY DEF Next, vars, binderVars, PollStep, PollWake, PollSkip, PollRequest, PollResume, PollError,
     PollNotYet, PollSame, AgeHeld, DatabusStep, Drive
<1> QED BY <1>2, <1>3, <1>4, <1>5, <1>6 DEF Tracked

LEMMA OrphanStep ==
  ASSUME IInv, OrphanFresh, [Next]_vars
  PROVE  OrphanFresh'
<1> SUFFICES ASSUME call'.run # NoRun, ~ call'.shared
             PROVE  bindings'[call'.run] = Untracked \/ bindings'[call'.run].state = NoState
  BY DEF OrphanFresh
<1>1. call \in Call /\ call' \in Call /\ bindings \in [Runs -> BoundRun \cup {Untracked}]
  BY NextInv DEF IInv, TypeOK, BinderType
<1>2. ~ PollResume /\ ~ (\E r \in Runs : \E x \in Replies(r) : PollRequest(r, x))
  <2>1. ~ PollResume
    BY NoCallFacts DEF PollResume, PollError, PollNotYet, PollLost, PollSame, PollChange, PollDies,
       Continue
  <2> QED BY <2>1 DEF PollRequest
<1>3. call'.run \in Runs
  BY <1>1 DEF Call
<1>4. ASSUME NEW r \in Runs, Track(r) \/ UntrackLater(r)
      PROVE  /\ call'.run = call.run
             /\ call.run # r => call'.shared = call.shared
             /\ bindings' = [bindings EXCEPT ![r] = NewBoundRun] \/ bindings' = [bindings EXCEPT ![r] = Untracked]
  BY <1>1, <1>4 DEF Track, UntrackLater, Disown, Call
<1>5. CASE \E r \in Runs : Track(r) \/ UntrackLater(r)
  BY <1>1, <1>3, <1>4, <1>5 DEF OrphanFresh, NewBoundRun
<1>6. CASE ~ \E r \in Runs : Track(r) \/ UntrackLater(r)
  <2>1. call'.run = call.run /\ call'.shared = call.shared
    <3>1. UNCHANGED call \/ AgeHeld \/ \E r \in Runs : Age(r)
      BY <1>2, <1>6 DEF Next, vars, binderVars, PollStep, PollWake, PollSkip, DatabusStep, Drive
    <3> QED BY <1>1, <3>1 DEF AgeHeld, Age, Call
  <2>2. ~ PollChange /\ ~ PollDies
    BY <1>2 DEF PollResume
  <2>3. PICK r \in Runs : r = call.run
    BY <1>3, <2>1
  <2>4. bindings[r] = Untracked \/ bindings[r].state = NoState
    BY <2>1, <2>3 DEF OrphanFresh
  <2>5. bindings'[r] = Untracked \/ bindings'[r].state = NoState
    BY <2>2, <2>4, BindingSteps DEF Tracked
  <2> QED BY <2>1, <2>3, <2>5
<1> QED BY <1>5, <1>6

\* An answer relabels the vehicle of its run with the state it records.
LEMMA RelabelFacts ==
  ASSUME NEW u \in Vehicle, NEW r \in Runs, NEW s \in LifecycleStates,
         ApplyState(u, r, s).bound # NoRun
  PROVE  ApplyState(u, r, s).lifecycle = s
<1> DEFINE seen == SetLifecycleState(u, s)
<1>1. seen \in Vehicle /\ seen.lifecycle = s
  BY VehicleOps DEF SetLifecycleState, Vehicle
<1>2. s \notin TERMINAL_STATES
  BY ApplyStateFacts
<1>3. CASE s = "Confirmed"
  <2> DEFINE bnd == BindRun(seen, r)
             stp == SetMoving(bnd, FALSE)
             beg == SetProgress(stp, Start)
  <2>1. ApplyState(u, r, s) = SetTransmitting(beg, TRUE)
    BY <1>2, <1>3 DEF ApplyState
  <2> HIDE DEF seen
  <2>2. bnd \in Vehicle /\ bnd.lifecycle = s
    BY <1>1 DEF BindRun, Vehicle
  <2> HIDE DEF bnd
  <2>3. stp \in Vehicle /\ stp.lifecycle = s
    BY <2>2 DEF SetMoving, Vehicle
  <2> HIDE DEF stp
  <2>4. beg \in Vehicle /\ beg.lifecycle = s
    BY <2>3, FleetAssumption DEF SetProgress, Vehicle
  <2> HIDE DEF beg
  <2> QED BY <2>1, <2>4 DEF SetTransmitting, Vehicle
<1>4. CASE s # "Confirmed"
  BY <1>1, <1>2, <1>4 DEF ApplyState
<1> QED BY <1>3, <1>4

\* The step that makes a vehicle show something else than the state of its run.
Spoils(v) ==
  /\ call.run # fleet[v].bound /\ VehicleOf[call.run] = v
  /\ call.reply \in {"Initialized"} \cup RUNNING_STATES

LEMMA LabelStep ==
  IInv /\ OrphanFresh /\ [Next]_vars
    => [\A v \in Roster : ShowsItsRun(v) /\ ~ ShowsItsRun(v)' => Spoils(v)]_vars
<1> SUFFICES ASSUME IInv, OrphanFresh, [Next]_vars, NEW v \in Roster, ShowsItsRun(v),
                    fleet'[v].bound # NoRun, bindings'[fleet'[v].bound].state # NoState,
                    ~ Spoils(v)
             PROVE  fleet'[v].lifecycle = bindings'[fleet'[v].bound].state
  BY DEF ShowsItsRun
<1> DEFINE r == fleet'[v].bound
<1>1. /\ fleet \in [Roster -> Vehicle] /\ fleet' \in [Roster -> Vehicle]
      /\ call \in Call /\ bindings \in [Runs -> BoundRun \cup {Untracked}]
  BY NextInv DEF IInv, TypeOK, FleetType, BinderType
<1>2. r \in Runs /\ VehicleOf[r] = v /\ bindings'[r] # Untracked
  BY <1>1, NextInv DEF IInv, BoundIsPolled, Tracked, Vehicle
<1>3. ASSUME fleet'[v].bound = fleet[v].bound, fleet'[v].lifecycle = fleet[v].lifecycle,
             bindings'[r].state = bindings[r].state
      PROVE  fleet'[v].lifecycle = bindings'[r].state
  BY <1>3 DEF ShowsItsRun
<1>4. CASE PollChange
  <2> DEFINE q == call.run
             p == VehicleOf[q]
  <2>1. /\ q \in Runs /\ p \in Roster /\ call.reply \in LifecycleStates
        /\ fleet' = [fleet EXCEPT ![p] = ApplyState(fleet[p], q, call.reply)]
        /\ bindings' = Observe
    BY <1>1, <1>4, Rebinding DEF PollChange
  <2>2. CASE r = q
    <3>1. fleet'[v].lifecycle = call.reply
      <4>1. fleet'[v] = ApplyState(fleet[v], q, call.reply)
        BY <1>1, <1>2, <2>1, <2>2
      <4> QED BY <1>1, <2>1, <4>1, RelabelFacts
    <3>2. CASE call.shared
      <4>1. bindings' = [bindings EXCEPT ![r] = [bindings[r] EXCEPT !.state = call.reply]]
        BY <2>1, <2>2, <3>2 DEF Observe
      <4>2. bindings[r] \in BoundRun
        BY <1>1, <1>2, <2>2, <3>2, FleetAssumption DEF HeldIsOpen, IInv
      <4>3. bindings'[r].state = call.reply
        BY <1>1, <1>2, <4>1, <4>2 DEF BoundRun
      <4> QED BY <3>1, <4>3
    <3>3. CASE ~ call.shared
      <4>1. bindings'[r] = bindings[r]
        BY <2>1, <3>3 DEF Observe
      <4> QED BY <1>2, <2>1, <2>2, <3>3, <4>1, FleetAssumption DEF OrphanFresh
    <3> QED BY <3>2, <3>3
  <2>3. CASE r # q
    <3>1. p # v
      <4> SUFFICES ASSUME p = v PROVE FALSE
        OBVIOUS
      <4>1. fleet'[v] = ApplyState(fleet[v], q, call.reply)
        BY <1>1, <2>1
      <4>2. call.reply # "Confirmed" /\ call.reply \notin TERMINAL_STATES
        BY <1>1, <1>2, <2>1, <2>3, <4>1, ApplyStateFacts
      <4>3. fleet[v].bound = r
        BY <1>1, <2>1, <4>1, <4>2, ApplyStateFacts
      <4>4. call.reply \in {"Initialized"} \cup RUNNING_STATES
        BY <2>1, <4>2, TerminalIsClosed DEF LifecycleStates
      <4> QED BY <2>3, <4>3, <4>4 DEF Spoils
    <3>2. fleet'[v] = fleet[v]
      BY <1>1, <2>1, <3>1
    <3>3. bindings'[r] = bindings[r]
      BY <1>1, <1>2, <2>1, <2>3 DEF Observe
    <3> QED BY <1>3, <3>2, <3>3
  <2> QED BY <2>2, <2>3
<1>5. CASE PollDies
  <2>1. UNCHANGED fleet /\ VehicleOf[call.run] \notin Roster
    BY <1>5 DEF PollDies, Known
  <2>2. r # call.run
    BY <1>2, <2>1
  <2>3. bindings'[r] = bindings[r]
    BY <1>1, <1>2, <1>5, <2>2 DEF PollDies, Observe
  <2> QED BY <1>3, <2>1, <2>3
<1>6. CASE ~ PollChange /\ ~ PollDies
  <2>1. bindings'[r].state = bindings[r].state
    BY <1>2, <1>6, BindingSteps
  <2>2. fleet'[v].bound = fleet[v].bound /\ fleet'[v].lifecycle = fleet[v].lifecycle
    <3>1. CASE UNCHANGED fleet
      BY <3>1
    <3>2. CASE PollLost
      <4>1. fleet' = [fleet EXCEPT ![VehicleOf[call.run]] = UnbindRun(fleet[VehicleOf[call.run]])]
        BY <3>2 DEF PollLost
      <4>2. CASE VehicleOf[call.run] = v
        BY <1>1, <4>1, <4>2 DEF UnbindRun, Vehicle
      <4>3. CASE VehicleOf[call.run] # v
        BY <1>1, <4>1, <4>3
      <4> QED BY <4>2, <4>3
    <3>3. ASSUME NEW w \in Roster, NEW d \in Drives, Drive(w, d)
          PROVE  fleet'[v].bound = fleet[v].bound /\ fleet'[v].lifecycle = fleet[v].lifecycle
      BY <1>1, <3>3 DEF Drive, SetProgress, SetMoving, SetTransmitting, Vehicle
    <3>4. UNCHANGED fleet \/ PollLost \/ \E w \in Roster, d \in Drives : Drive(w, d)
      BY <1>6 DEF Next, vars, PollStep, PollResume, PollWake, PollSkip, PollRequest, PollError,
         PollNotYet, PollSame, AgeHeld, Track, Age, UntrackLater, DatabusStep
    <3> QED BY <3>1, <3>2, <3>3, <3>4
  <2> QED BY <1>3, <2>1, <2>2
<1> QED BY <1>4, <1>5, <1>6

\* A vehicle that shows the state of its run goes on doing so, late answers to runs
\* tracked anew included, until a state is applied of another run of the vehicle that is
\* not confirmed yet or has lost it (run_binder.py:134-146).
THEOREM LabelsSpoilt == Spec => LabelSpoiltByOtherRun
<1>1. Init => OrphanFresh
  BY NoCallFacts DEF Init, BinderInit, OrphanFresh
<1>2. IInv /\ OrphanFresh /\ [Next]_vars => (IInv /\ OrphanFresh)'
  BY NextInv, OrphanStep
<1>3. IInv /\ OrphanFresh /\ [Next]_vars
      => [\A v \in Roster :
            ShowsItsRun(v) /\ ~ ShowsItsRun(v)'
              => /\ call.run # fleet[v].bound /\ VehicleOf[call.run] = v
                 /\ call.reply \in {"Initialized"} \cup RUNNING_STATES]_vars
  BY LabelStep DEF Spoils
<1> QED BY <1>1, <1>2, <1>3, InitInv, PTL DEF Spec, LabelSpoiltByOtherRun

-----------------------------------------------------------------------------
(* Refinement of Assignment *)

\* Retirement is final: nothing binds a retired run again.
LEMMA RetiredForever ==
  ASSUME IInv, [Next]_vars, NEW r \in Runs, Retired(r)
  PROVE  Retired(r)'
<1>1. Ended(r)'
  BY DbForward DEF Retired
<1>2. ~ Bound(r)'
  <2>1. CASE \A v \in Roster : fleet'[v].bound = fleet[v].bound
    BY <2>1 DEF Retired, Bound, Known
  <2>2. CASE PollLost \/ PollChange
    BY <2>2, Rebinding, FleetAssumption DEF Retired, Bound, Known
  <2> QED BY <2>1, <2>2, FleetSteps
<1>3. ~ (call'.run = r /\ call'.reply = "Confirmed")
  <2>1. CASE call'.run = call.run /\ call'.reply = call.reply
    BY <2>1 DEF Retired
  <2>2. CASE call' = NoCall
    BY <2>2, NoCallFacts, FleetAssumption
  <2>3. CASE \E q \in Runs : \E x \in Replies(q) : PollRequest(q, x)
    <3> SUFFICES ASSUME NEW x \in Replies(r), PollRequest(r, x) PROVE x # "Confirmed"
      BY <2>3 DEF PollRequest
    <3> QED BY ReplyFacts DEF Retired, IInv, TypeOK
  <2> QED BY <2>1, <2>2, <2>3, CallSteps
<1> QED BY <1>1, <1>2, <1>3 DEF Retired

slotBar == [v \in Roster |-> fleet[v].bound]
phaseBar == [r \in Runs |-> PhaseOf(r)]

LEMMA InitMaps == Init => Assigned!Init
<1> SUFFICES ASSUME Init PROVE Assigned!Init
  OBVIOUS
<1>1. \A r \in Runs : PhaseOf(r) = "requested"
  BY DEF Init, DbInit, PhaseOf, Retired, Ended, Unconfirmed, CLOSED_STATES
<1>2. \A v \in Roster : fleet[v].bound = NoRun
  BY DEF Init, FleetInit, NewVehicle
<1> QED BY <1>1, <1>2 DEF Assigned!Init

\* Every step of the binder lets runs move on as the abstract one does.
LEMMA ProgressMaps == ASSUME IInv, [Next]_vars PROVE Assigned!Progress
<1>1. phaseBar' \in [Runs -> Assigned!Phases]
  BY DEF phaseBar, PhaseOf, Assigned!Phases
<1>2. ASSUME NEW r \in Runs PROVE phaseBar'[r] \in Assigned!Later(phaseBar[r])
  <2>1. (Retired(r) => Retired(r)') /\ (~ Unconfirmed(r) => ~ Unconfirmed(r)')
    BY RetiredForever, DbForward
  <2>2. phaseBar[r] = PhaseOf(r) /\ phaseBar'[r] = PhaseOf(r)'
    BY DEF phaseBar
  <2> QED BY <2>1, <2>2 DEF PhaseOf, Assigned!Later, Assigned!Phases
<1>3. ASSUME NEW r \in Runs, phaseBar'[r] = "retired", NEW v \in Roster PROVE slotBar'[v] # r
  <2>1. ~ Bound(r)'
    BY <1>3 DEF phaseBar, PhaseOf, Retired
  <2>2. IInv'
    BY NextInv
  <2> QED BY <2>1, <2>2, FleetAssumption
          DEF slotBar, Bound, Known, IInv, BoundIsPolled
<1> QED BY <1>1, <1>2, <1>3 DEF Assigned!Progress, phaseBar, slotBar

LEMMA StepMaps == IInv /\ KnownRuns /\ [Next]_vars => [Assigned!Next]_(Assigned!vars)
<1> SUFFICES ASSUME IInv, KnownRuns, [Next]_vars PROVE Assigned!Next
  OBVIOUS
<1>0. Assigned!Progress
  BY ProgressMaps
<1>1. CASE \A v \in Roster : fleet'[v].bound = fleet[v].bound
  <2>1. Assigned!Advance
    BY <1>0, <1>1 DEF Assigned!Advance
  <2> QED BY <2>1 DEF Assigned!Next
<1>2. CASE PollLost \/ PollChange
  <2>0. PICK r \in Runs, v \in Roster : r = call.run /\ v = VehicleOf[r]
    BY <1>2, Rebinding
  <2>1. \A w \in Roster : w # v => fleet'[w].bound = fleet[w].bound
    BY <1>2, <2>0, Rebinding
  <2>2. CASE fleet'[v].bound = NoRun
    <3>1. slotBar' = [slotBar EXCEPT ![v] = NoRun]
      BY <2>1, <2>2 DEF slotBar
    <3>2. Assigned!Release(v)
      BY <1>0, <3>1 DEF Assigned!Release, slotBar
    <3> QED BY <3>2 DEF Assigned!Next
  <2>3. CASE call.reply = "Confirmed" /\ fleet'[v].bound = r
    <3>1. slotBar' = [slotBar EXCEPT ![v] = r]
      BY <2>1, <2>3 DEF slotBar
    <3>2. PhaseOf(r) = "confirmed"
      BY <2>0, <2>3 DEF PhaseOf, Retired, KnownRuns
    <3>3. Assigned!Assign(r)
      BY <1>0, <2>0, <3>1, <3>2 DEF Assigned!Assign, slotBar
    <3> QED BY <3>3 DEF Assigned!Next
  <2>4. CASE fleet'[v].bound = fleet[v].bound
    <3>1. Assigned!Advance
      BY <1>0, <2>1, <2>4 DEF Assigned!Advance
    <3> QED BY <3>1 DEF Assigned!Next
  <2> QED BY <1>2, <2>0, <2>2, <2>3, <2>4, Rebinding
<1> QED BY <1>1, <1>2, FleetSteps

\* The binder implements the abstract assignment of runs to vehicles: one run per
\* vehicle, only after its confirmation, never again once it is retired
\* (run_binder.py:89-175).
THEOREM Refinement == Spec => ImplementsAssignment
<1>1. IInv /\ KnownRuns /\ [Next]_vars => (IInv /\ KnownRuns)'
  BY NextInv, KnownRunsStep
<1> QED BY <1>1, InitInv, KnownRunsInit, InitMaps, StepMaps, PTL
        DEF Spec, ImplementsAssignment, Assigned!Spec

\* A run that is over, on no vehicle and without an answer in flight that would bind it
\* never comes back on its vehicle, whatever is tracked again, untracked or answered late:
\* what is reached of EndedRunReleased is reached for good (run_binder.py:89-141).
THEOREM RetiredStaysOff ==
  ASSUME NEW r \in Runs
  PROVE  Spec => [](Retired(r) => [] ~ Bound(r))
<1>1. IInv /\ Retired(r) /\ [Next]_vars => Retired(r)'
  BY RetiredForever
<1>2. Retired(r) => ~ Bound(r)
  BY DEF Retired
<1> QED BY <1>1, <1>2, Invariance, PTL DEF Spec
=============================================================================

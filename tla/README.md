# A verification of the SIMOVI vehicle simulator

This directory is a TLA+ development beside the simulator in `src/`: modules that model its
parts, TLC configurations that check them on small instances, and proofs of their main
properties for every instance. Paths below are relative to `src/simulator_app/`; `README.md:n`
in the modules is the repository's own README.

## The system

The simulator plays a fleet of vehicles for *databus*, a transit back end. One process holds all
its state. Background loops share one asyncio event loop and alternate at their awaits; the HTTP
handlers are synchronous Django views and run in worker threads, beside the loops.

| Part | Source | State | Operations |
|---|---|---|---|
| Fleet state | `domain/fleet.py` | one record per vehicle: telemetry, motion, bound run, lifecycle, progress | mutators, `bind_run`, `unbind_run` |
| Run binder | `services/run_binder.py` | `_bindings`, delayed untracks | `track`, `untrack`, `poll_loop` |
| Databus client | `services/databus_client.py` | an HTTP client | `create_run`, `update_run`, `get_run_state`, `get_trip_terminal_stop` |
| Kinematics | `domain/kinematics.py` | `_kin` of each vehicle: dwell, countdown, last stop | `step_vehicle`, payloads |
| Tick loop, runtime | `runtime.py` | tasks, geometry, `progression_prev` | `tick_loop`, `start_runtime`, `stop_runtime` |
| Controller | `domain/control.py` | none | eight knobs of a vehicle, two global ones |
| Progression oracle | `domain/progression/compute.py` | none | `compute_stop_status` |
| Route geometry | `domain/progression/shapes.py`, `geo.py` | none | `build_route_geometry` |
| Scheduler | `services/scheduler.py` | `_entries`, `_statuses`, `_run_ids`, `schedule.yaml` | `load`, `reload`, `write`, `run_loop` |
| HTTP API | `api/` | none | schedule, control, track, run detail, geometry, proxy |
| Broadcast, consumer | `realtime/` | throttle task and flag | fleet, schedule, telemetry to browsers |
| NavSat overlay | `services/navsat_*.py` | last snapshot | poll |
| Browser | `static/` | store, recent runs, polls, socket | tabs, operator events |

How they interact:

- An operator (browser) or the scheduler creates a run in databus and calls `binder.track`.
- `poll_loop` awaits databus for the state of every tracked run. `Confirmed` binds the run to its
  vehicle and switches telemetry on; a terminal state frees the vehicle and sets a delayed
  `untrack`; a run that is not found any more is force-unbound. It reports changes through
  `on_state_change`, on which the scheduler chains its auto-start callbacks.
- `tick_loop` steps each vehicle, publishes its telemetry by MQTT and to browsers, and reports the
  progression. Telemetry makes databus advance the run.
- The controller writes the same vehicle records from worker threads.
- PUT and reload replace the scheduler's entries from worker threads.

What is hard about it: every loop goes on after an await with what it read before; the answer of
databus is older than databus; the dictionary of bindings and the list of entries change under the
loops; scratch values outlive the run they belong to; an exception nobody catches ends a task that
nothing restarts; a retry, a late timer or a repeated `track` meets state of another life of the
same run. `PROJECT.json` lists each hazard at its line.

What makes the parts correct:

- *binder*: a run is on its own vehicle only; it is bound while databus has it confirmed and under
  way, leaves for good when it has ended, and is not taken off while alive; what is on a vehicle is
  always polled. The last but one does not hold: see runs `unreachable` and `shared`.
- *tick loop*: rides end, vehicles fall silent after their terminal stop and only there, and a vehicle
  that is reported at a stop is at it. Neither "only" nor the last holds: runs `silenced`, `progression`.
- *scheduler*: an entry fires once; its run is tracked; due entries fire; confirmed runs that ask
  for it set off; a failing databus does not stop it (it does: run `standalone`).
- *geometry*: stops lie in order along their shape, as cheaply as that allows, so that the next
  stop found is the nearest ahead; a stop of the way back is not put on the way out (it is: run
  `turnback`).
- *browsers*: they show the fleet and the runs as they are, stop asking about runs that are over, and
  forget a live run only when told by a 404 that databus has none. Since a failed request is such
  a 404, they do forget live runs.

## Modules

| Module | Models | Uses |
|---|---|---|
| `Lifecycle` | the states of a run | |
| `Fleet` | vehicle records and the mutators | `Lifecycle` |
| `Databus` | the service as the simulator sees it, and `get_run_state` | `Lifecycle` |
| `RunBinder` | the binder, with callers, databus and the other writers of vehicles as its environment | `Fleet`, `Databus` |
| `Assignment` | abstract: each run goes to its slot at most once, between request and end | |
| `Kinematics` | `step_vehicle` and the stop status on a line | `Fleet` |
| `Simulator` | binder, tick loop and controller together | `RunBinder`, `Kinematics` |
| `Scheduler` | the scheduler with concurrent edits and reloads | |
| `Dispatch` | abstract: each entry is asked for once, one at a time, ends up with one run or none, and sets off when tracked and confirmed | |
| `Feed` | the fleet's way to a browser: throttle, channel layer, consumer, socket | |
| `StopAssignment` | the dynamic program that places stops on segments, loop by loop | |
| `Geometry` | polylines, projections and `build_route_geometry` around it | `StopAssignment` |
| `Browser` | run list, operator's requests, local storage and tabs of one browser | `Databus` |
| `MC...` | instances for TLC | |
| `...Proofs` | theorems | |

### Binder (`RunBinder`, over `Fleet` and `Databus`)

`bindings` is `_bindings`; a `BoundRun` keeps its lifecycle state and whether the 30 s grace period
is over. `call` holds the locals of `poll_loop` during the await: the run, the binding object it
read, whether that object is still the one in the dictionary (`track` replaces it, `untrack`
removes it), and the answer. Each way through the body after the await is an action: `PollError`,
`PollNotYet`, `PollLost`, `PollSame`, `PollChange` (with `_apply_state` in the order of its calls)
and `PollDies` (the `KeyError` of an unknown vehicle). `timers` are the `call_later` untracks.
databus answers with its state at some moment between request and resumption; `Failures` names how
a call may fail: with `None`, as `_get_run` does for connection errors, 5xx and bad JSON, or by
raising. A restart or purge of databus (`DbLose`) forgets runs, closed ones too.

Two runs of one vehicle are where the code has no rule: `set_lifecycle_state` and `unbind_run` name
the vehicle and not the run. So the label of a vehicle can be wrong, and a live run can lose its
vehicle to another. `LabelSpoiltByOtherRun` and `LiveRunOustedByAnswer` say exactly when: they name
every cause the code has and exclude the rest (late answers about the run itself, objects of an
earlier `track`, delayed untracks, runs of other vehicles, calls that raise). What the
repository does promise, that only a run over or not found leaves its vehicle, is
`LiveRunKeepsVehicle`, which run `unreachable` shows violated.

### Tick loop and controller (`Simulator`, over `RunBinder` and `Kinematics`)

A shape is a line of `Length` steps, a stop its position, and a tick moves a vehicle by one of
`Strides`. `StepVehicle` has the rules of `step_vehicle` in order. `TickStep` steps a vehicle and
publishes, then awaits the broadcasts; `TickReport` computes the progression from the vehicle as it
is after the await, its status word from the payload of before it, and `progression_prev`, which
lives as long as the vehicle. `shapes` is what `start_runtime` left: the runs whose shape is missing
from `_shapes` (all of them when it could not read the file) and those whose shape has no geometry
(all when that could not be built). A missing shape is the `KeyError` of `TickDies`; without
geometry a vehicle rides and is reported in transit to no stop. The
scheduler's delayed start is a `Moving` on, which may come at any time, after the run as well.
Controls are one action each: a handler in the middle of `step_vehicle` has its write either lost
or kept, so it is as if it came before, after or not at all. `Drive`, which in `RunBinder` stands for everything else that writes vehicles, is replaced by
this module's actions; the property `BinderUndisturbed` (that is, `RunBinder`'s `Spec`) says they
do nothing `Drive` does not allow.

### Scheduler (`Scheduler`)

`loop` is where `_dispatch_entry` stands: awaiting `create_run`, awaiting the terminal stop, dead,
or ready with what is left of the list it copied. A request that edits or reloads has its own
program counter, between `read_text` and the assignment of `_entries`. `confirms`, `watched`,
`starts` and `moved` follow the auto-confirm task, the closures reachable from `on_state_change`,
the sleeping start and its effect. `shown` is the snapshot last broadcast. `create_run` may succeed,
be refused (`DatabusError`), or break with another exception, with or without the run created.
A document that is refused has changed `_defaults` before (`ReadFile`), which no later step of the
model reads. A run tracked anew is reported once more (`BinderRepeats`), and starts its vehicle once more.
`ImplementsDispatch` maps all this to `Dispatch`, which knows of no documents, requests or loop: how
far an entry is is read off its status, its run, the binder and its vehicle, so that edits, reloads and
steps through the list are stutters.

### Feed (`Feed`)

A snapshot is the number of changes of the fleet it contains, so that an older one can be told
from a newer one. `elapsed`, `dirty` and `task` are `_last_fleet_broadcast` (as the time since),
`_fleet_dirty` and `_throttle_task`, with the snapshot the deferred task closes over. `pending` are
the tasks of `on_change`, which the tick loop's own broadcast may overtake. `queue` is the
consumer's in the channel layer, which drops what does not fit; `socket` is between `group_add` and
the end of `connect` when "joined", so that messages queue up before the initial snapshot is taken.
`SilentChange` is a change nobody announces: `step_vehicle` never does, and a mutator in a worker
thread has changed the fleet when `ensure_future` finds no event loop there and raises. The client
reconnects after a loss and shows the last fleet it received.

### Geometry (`StopAssignment`, `Geometry`)

`StopAssignment` is `assign_stops_monotonic` with its tables `dp` and `back` and one step for each
iteration of its loops; `prefix_min` is `dp[k-1][prefix_arg]` throughout and is not kept. Its input
is any pair of matrices. `Geometry` calls it as `build_route_geometry` does: for each shape id of the
route it builds the polyline (`BuildPolyline`, with the rules under which the distance column is
used), projects every stop, keeps and sorts those within the threshold (`Candidates`), runs the
dynamic program, and merges the stops. A sorted list is `Ranked`: an element's place is how many of the
set come before it, which says what the sort returns and can be reasoned about. The world has one dimension, with places and distances that
are small integers; shapes may turn back, repeat a place and stretch or shrink the line by their
column. `RaiseShape` is the division by zero of `geo.py:91`, after which `start_runtime` has no
geometry at all.

### Browser (`Browser`)

`recents` is localStorage; `states` and `polling` are `_states` and `_polls` of `runs.js`,
`pendingPolls` is `_polls` of `operator.js`, `clear` holds the locals of each call of `clearCompleted`
that is under way (a second click starts a second one), and `denied` remembers which of its checks were
answered 404. An answer may come without a state (`Blank`, `views.py:132-139`): `runs.js` ignores it,
`operator.js` records it and stops polling. A request
is in `requests` from the `fetch` to the callback: it is answered from databus at one moment
(`Serve`, `Apply`, `Refuse`) and handled at a later one (`PollAnswered`, `PendingAnswered`,
`RunRequested`, `RunUpdated`, `RunStopped`, `CheckAnswered`), so that answers overtake each other and
arrive in a tab that is gone. `watching` counts the subscriptions of `runs.js`: mounting the tab in
view again leaves one behind. `Notify` is any message that changes the store. A page may start with
records of an earlier one. `OnlyEndedCleared` says of which runs a clear may drop the record: of those
that are over, that it has never read, or that a 404 denied; that the server answers 404 for
every failure of databus (`views.py:128-130`) makes the last of these a live run now and then, for the
reason run `unreachable` shows.

## Runs

| Run | Instance | Question |
|---|---|---|
| `own` | 2 runs on 2 vehicles, 2 calls of `track`, calls may raise | Are ended runs released for good and confirmed ones bound? |
| `shared` | 2 runs of one vehicle and 1 of an unknown vehicle, 3 calls of `track`, calls may fail in both ways | Is the bookkeeping right, what spoils a label and what takes a live run off its vehicle, and does the binder implement `Assignment`? |
| `ride` | 1 run whose shape may be missing or without geometry, 1 vehicle, line of 3 with 2 stops, strides 1 and 2, 2 controls | Does every ride end and the vehicle fall silent; is the binder undisturbed; does a vehicle without a run go on the air by the transmit knob only? |
| `schedule` | 2 ids, one in two versions, 2 overlapping requests, 2 edits, every outcome of `create_run` | Does an id fire once, is no run orphaned, do due entries fire and confirmed runs set off, does the scheduler implement `Dispatch`? |
| `feed` | 3 changes, a window of 2, a queue of 2, 1 other message, 1 lost connection | Is nothing put off forgotten, is the throttle kept, does the browser settle on the fleet as it is? |
| `geometry` | all matrices up to 3 stops, 3 segments and distance 2, and the routes of `MCGeometry` | Is the placement the cheapest and in order (and at the nearest segments when these are in order), is the next stop found the nearest ahead, are stops merged once? |
| `browser` | 1 run, 2 requests in flight, 2 clears at once, 3 things the user does, failing requests and answers without a state | Does the chip settle on the state of databus, does polling end with the run, does only a 404 clear the record of a live run? |
| `unreachable` | 1 run, calls may answer `None` for an error | violated: one failed request takes a live run off its vehicle |
| `silenced` | 2 runs of one vehicle, 1 control | violated: the countdown of the last ride silences the next run at its start |
| `progression` | 2 rides of one vehicle past 3 stops | violated: dwelling at a stop of its second ride, the vehicle is reported as stopped at a later one |
| `standalone` | 2 entries, databus out of reach | violated: a connection error ends the scheduler |
| `turnback` | lines of up to 3 places, up to 3 stops in travel order | violated: a stop of the way back is put on the way out |

The violated runs quote the sentence of the repository they contradict in `PROJECT.json`,
`findings`. Every property of a passing run has a mutant: a plausible bug in a mapped definition
under which TLC finds the property violated.

**Bounds.** Two runs are enough for every pairwise interference (a vehicle shared, a binding
replaced, a callback chained, a value left behind), three calls of `track` for a run tracked anew
while its old object is still held, and one more. Two requests are enough to overlap; a line of
three steps has a start, a stop on the way that may be jumped over, and a terminal stop. Every
bound is a constant: `MaxTracks`, `MaxControls`, `MaxEdits`, `MaxChanges`, `MaxOthers`, `MaxCloses`, `MaxInFlight`, `MaxClicks`, `MaxStops`, `MaxSegments`, `MaxCost`, `Width`, `Length`,
`DwellTicks`, `IdleTicks`.
In `feed` three changes
are a snapshot sent, one deferred and one that comes too late for it, and a queue of two
overflows. In `geometry` three stops on three segments
are the least on which a global minimum differs from local ones twice. In `browser` two requests in
flight overtake each other, and a page that may start with the record of an earlier one
leaves three things done for a visit to a tab and two more (two clears, a clear and an event, a second
click on the tab, a reload). Runs meet in local storage only, which
`OnlyEndedCleared` is about and which is proved for any number: that a clear also loses a record made
while it waits takes a second run, and is met by the proof and not by the run. The proofs need none of
these bounds.

**Fairness.** The event loop runs every task, timer and thread that is ready: weak fairness of
`PollStep`, `Age`, `AgeHeld`, `UntrackLater`, `TickWake`/`TickReport`, `LoopStep`, `ViewStep` and the
scheduler's tasks. Two assumptions go beyond that and are strong fairness: a run polled again and
again is answered in the end (databus is not unreachable for ever), and a vehicle is not dropped
from every cycle (`SIM_RANDOM_DROP_RATE` below 100, `SIM_STOP_ALL_AFTER` and `SIM_ONLY_VEHICLES`
unset); a tick loop killed by a missing shape is named in the liveness properties
(`TickDead`). In `Feed`, `TickBroadcast` is fair because the tick loop ends every
cycle with it (as long as it lives and `SIM_STOP_ALL_AFTER` is unset), timers fire, the client
reconnects and a connected consumer serves its queue. `BinderReports` assumes a run rests at `Confirmed` until the binder polls it; without that
the code promises nothing, since a state passed between two polls is never seen.
In `Browser` messages keep coming (every tick ends with one), intervals fire and every request comes
back (weak fairness of `Notify` and of the steps of requests); strong fairness of `Poll` stands for an
interval that no bound on requests stops, and of an answer for a databus that is reached in the end.

**Deadlock.** `shared` and `schedule` let a background task die of an exception, as the code
does; nothing restarts it, so these runs switch the deadlock check off. So does `geometry`, whose
functions return.

## Proofs

All are for any constants that satisfy the modules' assumptions: any fleet, any number of runs
(which may share vehicles or name unknown ones), failures, calls, lines, documents, requests, shapes,
stops and routes. A hypothesis beyond those is named with its theorem.

`RunBinderProofs`. The inductive invariant is `TypeOK`, `BoundIsPolled` and `ClosedIsRetired` with
two parts about the await: `HeldIsOpen` (the object the loop holds is not terminal, and is the
dictionary's if it is shared) and `ReplyHolds` (a terminal answer is of a run that has ended, a
`Confirmed` one of a run still tracked). Without them a run could be bound after its delayed untrack
fired, and stay on the vehicle unpolled. From it follow `TypeCorrect`, `BoundPolled`,
`ClosedRetired`, and
- `Refinement`: the binder implements `Assignment`, with the phase of a run read off databus and
  the vehicle. The step lemma splits into what databus does to phases, what the fleet does to slots,
  and that a rebinding is of a run confirmed at some time and not retired.
- `LiveRunsOusted`: a live run leaves its vehicle only when the loop holds `None` about a run of that
  vehicle, or another run of it has ended or is being bound. `LabelsSpoilt`: the label of a vehicle
  goes wrong only at an answer about another run of it. Both hold for vehicles shared at will and calls
  that fail in every way. `LabelsSpoilt` adds to the invariant that an object the loop still holds after
  its run was tracked anew or untracked (an orphan) has been replaced by one that has seen no state
  yet, or by none (`OrphanFresh`).
- `RetiredStaysOff`: a run that is over, on no vehicle and with no answer in flight that would bind it
  stays off for good. This is the half of `EndedRunReleased` that is safety: that a run gets there is
  the liveness TLC checks, that it stays there is proved.

`SimulatorProofs`. `StepVehicleFacts` shows that a tick keeps the record in range, leaves run and
lifecycle alone and never switches telemetry on; `ControlSteps` shows the like of the knobs. Hence
`SimImplementsBinder`, provided `Drives` names all drives (`FullDrives`), and with it every theorem
about the binder holds of binder, tick loop and controller together: `SimBoundPolled`,
`SimClosedRetired`, `SimImplementsAssignment`, `SimLiveRunsOusted`, `SimLabelsSpoilt`. Of the tick loop:
- `OnAirOnlyWithRun`: only the transmit knob ever puts a vehicle without a run on the air.
- `SimTypeCorrect`, on which the others rest.
- `TicksEndRides`, `TicksEndCountdowns`: what `RideEnds` and `FallsSilent` rest on, without the
  fairness. `TicksLeft` is the distance to the end, each step of it worth a dwell and one tick, plus the
  dwell still to sit out; it is a number, and every tick takes something off it or ends the ride at the
  terminal stop. A countdown loses one with every tick, and telemetry goes off with its last.
- `StoppedWhereItIs` and `SilencedWhereItEnded` locate the divergences of runs `progression` and
  `silenced`. The two properties hold, for every instance, of any behaviour in which no vehicle is sent
  back along its line (`NoneSentBack`), or leaves its terminal stop with the countdown running
  (`WaitsItOut`). By `SentBackByKnobOrRun` only a knob does that, or the binder when a run comes on the
  vehicle or leaves it. So the divergences have no other cause: neither the await of the tick loop nor
  the order of its steps is one. The invariants are that
  the stop last reported is not ahead of the one coming up (`ReportBehind`) and that countdowns run at the
  terminal stop only (`CountsAtTerminal`).

`SchedulerProofs`. `AtMostOneRun` is inductive with `NoRunYet`: a pending id has no run, and the
entry whose run is being created is no longer pending and has none. `FiresOnce`, `RunsTracked` and
`TypeCorrect` follow. Then
- `DispatchRefined`: the scheduler implements `Dispatch`. The invariant `RInv` says what the entry in
  hand has come to (`HandHolds`), that no other entry is requested without a run unless the loop died
  with it (`RequestedInHand`), that a run has a phase from its creation on (`PhaseOfRun`), and that a
  delayed start is of a tracked run the binder has reported confirmed (`StartsReported`). A dead loop is
  an entry left in hand for ever, with which `Dispatch` takes no other: that it dies is what run
  `standalone` shows, that it leaves nothing else half done is proved.
- `ShownButForEdits`: browsers come to show an old schedule by an edit or reload in a worker thread
  only, where `get_running_loop` raises and `_publish_snapshot` sends nothing (`scheduler.py:299-310`),
  and the next change of a status mends it. The repository's README.md:244 says that a snapshot is sent
  "whenever the schedule changes"; the theorem is the whole of what is said about it here.

`FeedProofs`. `DirtyHasTask` and `ThrottleKept` follow from `TaskWaits`: what a deferred task still
sleeps and the time since the last send together are at least the window. It is kept because a send
cancels the task and because a new change leaves a sleeping task as it is.

`StopAssignmentProofs`. For any matrices:
- `AssignmentIsCheapest`: the invariant gives each filled cell `dp[k][j]` a monotone placement that ends
  in `j` and costs that much, found through `back`, and says that no placement ending at or before `j` is
  cheaper; the running minimum is the least of its row so far. Sums are given as running sums, functions
  on the stops, so that no recursive definition is needed.
- `AssignmentKeepsNearest`: where the first nearest segments of the stops do not go back, they are the
  placement. The invariant adds that the running minimum is the first of the least entries
  (`ScanFirst`), hence that a cell to the right of the nearest segment of the stop before points back to
  it (`NearRow`), hence that the walk back meets them all (`NearWay`).
- `AssignmentInOrder`: after each step of the clamp the prefix done is in order, and each value is that
  of an earlier stop or its own.
- `AssignmentReturns`: the loops end, after exactly `K * M + 2 * K + 1` iterations. `Left` is what they
  still make; it is a number, and every step takes one off it.
- `AssignmentTypes` is the type invariant.

`GeometryProofs`. Distances along a polyline never go back, whether the column is used or not
(`PolylineGrows`). From there the invariant `GInv` follows the call through its shapes: what is in hand
(`Working`) are the candidates of the head of the route and their matrices, every list done
(`EntriesOK`) is in order and true to the projections where the line is, and merged stops are those
of the entries, each once (`MergedOK`). With it the results of `StopAssignmentProofs` hold inside the whole function
(`GeometryPlaces`), and
- `GeometryTrue` (`PlacedAtNearest`) is how far the finding of run `turnback` reaches. At its only call
  site, on all lines whose distances are those of their places, the dynamic program puts every stop at its
  own nearest projection, which is what `shapes.py:127-130` says it must not do on a line that turns
  back. The candidates come to it sorted by that projection, hence their nearest segments are in order,
  hence `AssignmentKeepsNearest` applies, and the clamp moves nothing that is in order. The clamp
  matters only where the distance column shrinks the line.
- `GeometryOrdered` states `AheadIsNearest`: the lists are in order, so that the first stop ahead which
  `_pick_upcoming_stop` comes to is the nearest.
- `GeometryMerges` states `MergedOnce`.

Inductions over points and stops are by a least counterexample (`Least`), since the prover cannot
instantiate the induction theorems of the library.

`BrowserProofs`. What a page believes of a run may be old, but what it takes for over is over: that holds
of records, of answers in flight and of the records a call of `clearCompleted` read before its await
(`ClearTold`), and is stable under all databus does. Each check is awaited by one call, once, and a 404 to it is
on record (`ChecksHeld`). With it `ClearsOnlyEnded`: of all it read, a clear drops only runs that are over
or that a 404 to one of its own checks denied, however many clears overlap. `BrowserTypes` is the type
invariant, answers without a state included.

Only model-checked: liveness (`Settles`, `EndedRunReleased`, `ConfirmedRunBound`, `RideEnds`,
`FallsSilent`, `DueIsRequested`, `StartsMoving`, `ChipSettles`, `PollingEnds`), which is beyond the prover:
it does not reason about fairness and ENABLED. Every invariant, action property and refinement of the
passing runs is stated by a theorem. The violated runs are instances by nature.

## Not modelled, and why

- Latitude and longitude, bearing, occupancy, fault injection, payloads: places have one dimension,
  and no property looks at the rest. A stop zone is a position, so that a stop is entered exactly when a
  vehicle lands on it; an override speed of zero or below is outside `Strides`. Rounding: distances are
  integers.
- `stop_runtime`: it ends the process. Tasks it does not cancel use a closed client once and are gone.
- A run tracked again with another `vehicle_id` (`views.py:155-182` allows it): `VehicleOf` gives each run
  one vehicle. Nor does each shape have a line of its own: in `Simulator` all runs ride the same
  one, and differ only in whether it is there and has geometry.
- In `Scheduler` the binder reports `Confirmed` only; a run cancelled before is one never confirmed.
- The chip of a run that only the fleet lists, until it is polled: it shows the label of the vehicle.
- A run whose end databus forgets before either tab heard of it: its answers are 404 for ever, and
  both tabs poll it for ever (`runs.js:271-276`, `operator.js:206`). It is in the model;
  `PollingEnds` speaks of the others.
- Several browsers: they share nothing but databus, which `Browser` lets move by itself; two windows of
  one browser, which share localStorage, are left out.
- The fleet and schedule tabs: they draw the store and post what is typed; what the posts do is in
  `Simulator` and `Scheduler`.
- Names, trips, operators: carried along unchanged. MQTT: a send without acknowledgement; that it may
  fail shows nowhere in the simulator's state.
- Proxy, NavSat, read-only views: no state, or state replaced whole by one poll. Settings and assembly:
  configuration.
- Several processes: the repository forbids them (README.md, single-worker invariant).

## What could come next

A stretch of `Scheduler` and `Simulator` in one module (the delayed start is there, but as a control
of no particular run); two windows on one localStorage.

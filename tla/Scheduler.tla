------------------------------ MODULE Scheduler ------------------------------
(***************************************************************************)
(* The scheduler: simulator_app/services/scheduler.py, with the requests   *)
(* that edit or reload the schedule (api/views.py, control.py).            *)
(*                                                                         *)
(* run_loop, the tasks it leaves behind and the binder's callback share    *)
(* the event loop and alternate at their awaits; PUT and reload run in     *)
(* worker threads and stop anywhere.  A thread that reloads reads the file *)
(* in one step and assigns _entries in another.                            *)
(*                                                                         *)
(* Abstractions.  An entry keeps what the control flow looks at; the run   *)
(* databus creates for it goes by the entry's id.  _statuses.get(id,       *)
(* "pending") makes an unknown id pending, so statuses is total and load's *)
(* own initialisation of it shows nowhere.  The loop visits the entries of *)
(* its list in any order.  The Channels send is in order and immediate.    *)
(***************************************************************************)
EXTENDS Naturals, FiniteSets

CONSTANTS
  Ids,         \* schedule entry ids
  Entries,     \* the entries documents list
  NoEntry,     \* no entry is being dispatched
  Documents,   \* sets of entries: what schedule.yaml may hold
  Invalid,     \* the documents load refuses
  Requests,    \* HTTP requests that edit or reload the schedule
  Outcomes,    \* how create_run may end in this instance
  MaxEdits     \* bound on the edits and reloads

\* complete: vehicle_id, operator_id, route_id, trip_id and shape_id are there.
Entry == [id : Ids, complete : BOOLEAN, confirm : BOOLEAN, start : BOOLEAN]

ASSUME SchedulerAssumption ==
  /\ Entries \subseteq Entry /\ NoEntry \notin Entries
  /\ Documents \subseteq SUBSET Entries /\ Invalid \subseteq Documents /\ {} \in Documents \ Invalid
  /\ Outcomes \subseteq {"created", "refused", "broken", "broken_created"}
  /\ MaxEdits \in Nat

VARIABLES
  file,        \* schedule.yaml
  requests,    \* what each request is doing, and the document it holds
  edits,       \* edits and reloads so far (only to bound them)
  entries,     \* _entries
  statuses,    \* _statuses
  loop,        \* run_loop: where it is, the entry it dispatches, what is left of its list
  due,         \* entries whose start_time - pre_run_idle_s has come
  shown,       \* the schedule snapshot last sent to the browsers
  created,     \* runs databus has created for each entry
  phase,       \* how far the run of each entry is
  tracked,     \* entries whose run was given to the binder
  confirms,    \* auto-confirm tasks that sleep or await update_run
  watched,     \* runs whose closure is reachable from binder.on_state_change
  starts,      \* delayed starts that sleep
  moved        \* entries whose delayed start has set its vehicle moving

viewVars == <<file, requests, edits>>
databusVars == <<created, phase>>
taskVars == <<confirms, watched, starts, moved>>
vars == <<viewVars, entries, statuses, loop, due, shown, databusVars, tracked, taskVars>>

-----------------------------------------------------------------------------
(* The state *)

Statuses == {"pending", "requested", "initialized", "failed"}
Snapshot == [entries : SUBSET Entries, statuses : [Ids -> Statuses]]
Loop == [ at : {"ready", "create", "stop", "dead"}, entry : Entries \cup {NoEntry},
          todo : SUBSET Entries ]

\* Types of every variable.
TypeOK ==
  /\ file \in Documents
  /\ requests \in [Requests -> [at : {"idle", "read", "install"}, doc : Documents]]
  /\ edits \in 0 .. MaxEdits
  /\ entries \in SUBSET Entries
  /\ statuses \in [Ids -> Statuses]
  /\ loop \in Loop
  /\ loop.at \in {"create", "stop"} <=> loop.entry # NoEntry
  /\ due \in SUBSET Entries
  /\ shown \in Snapshot
  /\ created \in [Ids -> Nat]
  /\ phase \in [Ids -> {"none", "created", "confirmed", "reported"}]
  /\ tracked \in SUBSET Ids /\ confirms \in SUBSET Ids /\ watched \in SUBSET Ids
  /\ starts \in SUBSET Ids /\ moved \in SUBSET Ids

Pending(id) == statuses[id] = "pending"

\* snapshot(): what GET, a new connection and a broadcast show.
TakeSnapshot(es, sts) == [entries |-> es, statuses |-> sts]

\* The process starts and loads what the file holds.
Init ==
  /\ file \in Documents
  /\ requests = [q \in Requests |-> [at |-> "idle", doc |-> {}]]
  /\ edits = 0
  /\ entries = IF file \in Invalid THEN {} ELSE file
  /\ statuses = [id \in Ids |-> "pending"]
  /\ loop = [at |-> "ready", entry |-> NoEntry, todo |-> {}]
  /\ due = {}
  /\ shown = TakeSnapshot(entries, statuses)
  /\ created = [id \in Ids |-> 0]
  /\ phase = [id \in Ids |-> "none"]
  /\ tracked = {} /\ confirms = {} /\ watched = {} /\ starts = {} /\ moved = {}

-----------------------------------------------------------------------------
(* Edits and reloads *)

Edit == edits < MaxEdits /\ edits' = edits + 1

\* The file is edited by hand (it is bind-mounted for that).
EditFile(doc) ==
  /\ Edit
  /\ file' = doc
  /\ UNCHANGED <<requests, entries, statuses, loop, due, shown, databusVars, tracked, taskVars>>

\* PUT: a valid document with complete entries replaces the file; reload follows.
Put(q, doc) ==
  /\ Edit
  /\ requests[q].at = "idle"
  /\ doc \notin Invalid /\ \A e \in doc : e.complete
  /\ file' = doc
  /\ requests' = [requests EXCEPT ![q].at = "read"]
  /\ UNCHANGED <<entries, statuses, loop, due, shown, databusVars, tracked, taskVars>>

\* POST reload, or the reload_schedule knob.
Reload(q) ==
  /\ Edit
  /\ requests[q].at = "idle"
  /\ requests' = [requests EXCEPT ![q].at = "read"]
  /\ UNCHANGED <<file, entries, statuses, loop, due, shown, databusVars, tracked, taskVars>>

\* load reads, takes over the defaults and validates; what it refuses leaves the entries as
\* they were.  A shorter pre_run_idle_s puts the trigger times of pending entries off again.
ReadFile(q) ==
  /\ requests[q].at = "read"
  /\ \E early \in SUBSET {e \in due : Pending(e.id)} : due' = due \ early
  /\ requests' = [requests EXCEPT ![q] =
       IF file \in Invalid THEN [at |-> "idle", doc |-> {}] ELSE [at |-> "install", doc |-> file]]
  /\ UNCHANGED <<file, edits, entries, statuses, loop, shown, databusVars, tracked, taskVars>>

\* Mutation: a reload makes every entry pending again.
InstallResets(q) ==
  /\ requests[q].at = "install"
  /\ entries' = requests[q].doc
  /\ statuses' = [id \in Ids |-> "pending"]
  /\ requests' = [requests EXCEPT ![q] = [at |-> "idle", doc |-> {}]]
  /\ UNCHANGED <<file, edits, loop, due, shown, databusVars, tracked, taskVars>>

\* load assigns _entries; the statuses of known ids stay.  _publish_snapshot finds no
\* event loop in a worker thread and sends nothing.
Install(q) ==
  /\ requests[q].at = "install"
  /\ entries' = requests[q].doc
  /\ requests' = [requests EXCEPT ![q] = [at |-> "idle", doc |-> {}]]
  /\ UNCHANGED <<file, edits, statuses, loop, due, shown, databusVars, tracked, taskVars>>

-----------------------------------------------------------------------------
(* run_loop and _dispatch_entry *)

\* The trigger time of an entry comes; nobody looks at the time of one that has fired.
FallDue(e) ==
  /\ e \notin due /\ Pending(e.id)
  /\ due' = due \cup {e}
  /\ UNCHANGED <<viewVars, entries, statuses, loop, shown, databusVars, tracked, taskVars>>

\* A new round: now is read, and the list copied; entries not due by now would be passed by.
RunWake ==
  /\ loop.at = "ready" /\ loop.todo = {}
  /\ loop' = [loop EXCEPT !.todo = entries \cap due]
  /\ UNCHANGED <<viewVars, entries, statuses, due, shown, databusVars, tracked, taskVars>>

\* Mutation: the status of a visited entry is not looked at.
SkipsAny(e) ==
  /\ loop.at = "ready" /\ e \in loop.todo
  /\ loop' = [loop EXCEPT !.todo = @ \ {e}]
  /\ UNCHANGED <<viewVars, entries, statuses, due, shown, databusVars, tracked, taskVars>>

\* Not pending.
RunSkip(e) ==
  /\ loop.at = "ready" /\ e \in loop.todo
  /\ ~ Pending(e.id)
  /\ loop' = [loop EXCEPT !.todo = @ \ {e}]
  /\ UNCHANGED <<viewVars, entries, statuses, due, shown, databusVars, tracked, taskVars>>

\* A new status is set and broadcast.
SetStatus(id, s) ==
  /\ statuses' = [statuses EXCEPT ![id] = s]
  /\ shown' = TakeSnapshot(entries, statuses')

\* Requested; await create_run.  The entry may have left the schedule since the round began.
DispatchCreate(e) ==
  /\ loop.at = "ready" /\ e \in loop.todo
  /\ Pending(e.id) /\ e.complete
  /\ SetStatus(e.id, "requested")
  /\ loop' = [at |-> "create", entry |-> e, todo |-> loop.todo \ {e}]
  /\ UNCHANGED <<viewVars, entries, due, databusVars, tracked, taskVars>>

\* A missing field: KeyError is no DatabusError and ends run_loop.
DispatchDies(e) ==
  /\ loop.at = "ready" /\ e \in loop.todo
  /\ Pending(e.id) /\ ~ e.complete
  /\ SetStatus(e.id, "requested")
  /\ loop' = [loop EXCEPT !.at = "dead"]
  /\ UNCHANGED <<viewVars, entries, due, databusVars, tracked, taskVars>>

\* _dispatch_entry returns.
Return == loop' = [loop EXCEPT !.at = "ready", !.entry = NoEntry]

\* databus creates the run of the entry.
CreateRun(id) ==
  /\ created' = [created EXCEPT ![id] = @ + 1]
  /\ phase' = [phase EXCEPT ![id] = "created"]

\* Mutation: the entry's status becomes the run's state as databus words it.
RecordsDatabusState ==
  /\ loop.at = "create" /\ "created" \in Outcomes
  /\ CreateRun(loop.entry.id)
  /\ SetStatus(loop.entry.id, "Initialized")
  /\ loop' = [loop EXCEPT !.at = "stop"]
  /\ UNCHANGED <<viewVars, entries, due, tracked, taskVars>>

\* The run is created; await get_trip_terminal_stop.
CreateDone ==
  /\ loop.at = "create" /\ "created" \in Outcomes
  /\ CreateRun(loop.entry.id)
  /\ SetStatus(loop.entry.id, "initialized")
  /\ loop' = [loop EXCEPT !.at = "stop"]
  /\ UNCHANGED <<viewVars, entries, due, tracked, taskVars>>

\* DatabusError.
CreateRefused ==
  /\ loop.at = "create" /\ "refused" \in Outcomes
  /\ SetStatus(loop.entry.id, "failed")
  /\ Return
  /\ UNCHANGED <<viewVars, entries, due, databusVars, tracked, taskVars>>

\* A connection error, a timeout or an answer that does not validate is no DatabusError
\* and ends run_loop; databus may have created the run.
CreateBreaks ==
  /\ loop.at = "create"
  /\ \/ "broken" \in Outcomes /\ UNCHANGED databusVars
     \/ "broken_created" \in Outcomes /\ CreateRun(loop.entry.id)
  /\ loop' = [loop EXCEPT !.at = "dead", !.entry = NoEntry]
  /\ UNCHANGED <<viewVars, entries, statuses, due, shown, tracked, taskVars>>

\* Mutation: without a terminal stop the dispatch is given up.
GivesUp ==
  /\ loop.at = "stop"
  /\ Return
  /\ UNCHANGED <<viewVars, entries, statuses, due, shown, databusVars, tracked, taskVars>>

\* Mutation: the new callback does not call the one it replaces.
ReplaceCallback(id) == watched' = {id}

\* on_state_change becomes a closure for this run that calls the one before it.
ChainCallback(id) == watched' = watched \cup {id}

\* With or without a terminal stop: track, and set up what the entry asks for.
DispatchTrack ==
  LET e == loop.entry
  IN  /\ loop.at = "stop"
      /\ tracked' = tracked \cup {e.id}
      /\ confirms' = IF e.confirm THEN confirms \cup {e.id} ELSE confirms
      /\ IF e.start THEN ChainCallback(e.id) ELSE UNCHANGED watched
      /\ Return
      /\ UNCHANGED <<viewVars, entries, statuses, due, shown, databusVars, starts, moved>>

-----------------------------------------------------------------------------
(* What a dispatch leaves behind *)

\* _confirm: after the delay databus is asked once; a failure is not tried again.
AutoConfirm(id) ==
  /\ id \in confirms
  /\ confirms' = confirms \ {id}
  /\ \/ phase[id] = "created" /\ phase' = [phase EXCEPT ![id] = "confirmed"]
     \/ Outcomes \ {"created"} # {} /\ UNCHANGED phase
     \/ phase[id] # "created" /\ UNCHANGED phase
  /\ UNCHANGED <<viewVars, entries, statuses, loop, due, shown, created, tracked,
                 watched, starts, moved>>

\* An operator confirms the run in a browser.
OperatorConfirm(id) ==
  /\ phase[id] = "created"
  /\ phase' = [phase EXCEPT ![id] = "confirmed"]
  /\ UNCHANGED <<viewVars, entries, statuses, loop, due, shown, created, tracked, taskVars>>

\* Mutation: the closure of a run does not look at the state that is reported.
ReportsAny(id) ==
  /\ id \in tracked /\ phase[id] \in {"created", "confirmed"}
  /\ phase' = [phase EXCEPT ![id] = IF @ = "confirmed" THEN "reported" ELSE @]
  /\ starts' = starts \cup ({id} \cap watched)
  /\ UNCHANGED <<viewVars, entries, statuses, loop, due, shown, created, tracked,
                 confirms, watched, moved>>

\* The binder sees Confirmed and calls on_state_change; the run's closure starts the delay.
BinderReports(id) ==
  /\ id \in tracked /\ phase[id] = "confirmed"
  /\ phase' = [phase EXCEPT ![id] = "reported"]
  /\ starts' = starts \cup ({id} \cap watched)
  /\ UNCHANGED <<viewVars, entries, statuses, loop, due, shown, created, tracked,
                 confirms, watched, moved>>

\* The run is tracked anew while it is confirmed, and reported once more.
BinderRepeats(id) ==
  /\ id \in tracked /\ phase[id] = "reported"
  /\ starts' = starts \cup ({id} \cap watched)
  /\ UNCHANGED <<viewVars, entries, statuses, loop, due, shown, databusVars, tracked,
                 confirms, watched, moved>>

\* _start: the vehicle moves, whatever run it carries by now.
StartMotion(id) ==
  /\ id \in starts
  /\ starts' = starts \ {id}
  /\ moved' = moved \cup {id}
  /\ UNCHANGED <<viewVars, entries, statuses, loop, due, shown, databusVars, tracked,
                 confirms, watched>>

-----------------------------------------------------------------------------
(* The specification *)

LoopStep ==
  \/ RunWake
  \/ CreateDone \/ CreateRefused \/ CreateBreaks
  \/ DispatchTrack
  \/ \E e \in Entries : RunSkip(e) \/ DispatchCreate(e) \/ DispatchDies(e)

ViewStep(q) == ReadFile(q) \/ Install(q)

Next ==
  \/ LoopStep
  \/ \E e \in Entries : FallDue(e)
  \/ \E doc \in Documents : EditFile(doc)
  \/ \E q \in Requests : Reload(q) \/ ViewStep(q) \/ \E doc \in Documents : Put(q, doc)
  \/ \E id \in Ids : AutoConfirm(id) \/ OperatorConfirm(id) \/ BinderReports(id) \/ BinderRepeats(id)
                    \/ StartMotion(id)

Spec == Init /\ [][Next]_vars

\* The scheduler task runs while it lives, every request is answered within the client's
\* timeout, threads and tasks go on, and the binder polls while a run rests at Confirmed.
Fairness ==
  /\ WF_vars(LoopStep)
  /\ \A q \in Requests : WF_vars(ViewStep(q))
  /\ \A id \in Ids : WF_vars(AutoConfirm(id)) /\ WF_vars(BinderReports(id)) /\ WF_vars(StartMotion(id))

FairSpec == Spec /\ Fairness

-----------------------------------------------------------------------------
(* Properties *)

\* An entry id fires at most once in the life of the process, whatever reloads and edits
\* overlap its dispatch (scheduler.py:130-131,193-205).
AtMostOneRun == \A id \in Ids : created[id] <= 1

\* A run databus created is tracked by the binder or about to be, unless the loop died on
\* the way (scheduler.py:228-249).
NoOrphan ==
  \A id \in Ids :
    created[id] > 0 => id \in tracked \/ loop.at = "dead" \/ (loop.at = "stop" /\ loop.entry.id = id)

\* An entry that is due and stays due and in the schedule is requested, although other
\* entries are dispatched and documents read and installed meanwhile (scheduler.py:191-201).
DueNow(e) == e \in entries /\ e \in due
DueIsRequested ==
  \A e \in Entries : DueNow(e) ~> ~ Pending(e.id) \/ ~ DueNow(e) \/ loop.at = "dead"

\* The scheduler implements the abstract dispatch of entries: no overlap of documents,
\* awaits, failures and chained callbacks asks twice, loses a run it knows of or sets a
\* vehicle off early (scheduler.py:203-297).
StageOf(id) ==
  CASE created[id] = 0 /\ Pending(id) -> "waiting"
    [] created[id] = 0 /\ statuses[id] = "failed" -> "refused"
    [] created[id] = 0 /\ statuses[id] = "requested" -> "asked"
    [] created[id] = 1 /\ id \notin tracked -> "made"
    [] created[id] = 1 /\ id \in tracked /\ id \notin moved -> "tracked"
    [] created[id] = 1 /\ id \in tracked /\ id \in moved -> "off"
    [] OTHER -> "out of order"
Dispatching == INSTANCE Dispatch WITH
  stage <- [id \in Ids |-> StageOf(id)],
  confirmed <- {id \in Ids : phase[id] \in {"confirmed", "reported"}}
ImplementsDispatch == Dispatching!Spec

\* Every confirmed run of an entry that asks for it gets its vehicle moving, however many
\* callbacks were chained on the binder since (scheduler.py:273-297).
AsksForStart(id) == \A e \in Entries : e.id = id => e.start
StartsMoving ==
  \A id \in Ids :
    AsksForStart(id) /\ id \in tracked /\ phase[id] = "confirmed" ~> id \in moved

\* The scheduler outlives a databus that cannot be reached ("RunBinder and Scheduler log
\* connection errors but do not crash", README.md:354).
OutlivesErrors == loop.at # "dead"

\* The browsers have the schedule as it is ("schedule snapshot, sent on connect and
\* whenever the schedule changes", README.md:244).
ScheduleShown == shown = TakeSnapshot(entries, statuses)
===============================================================================

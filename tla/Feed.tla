--------------------------------- MODULE Feed ---------------------------------
(***************************************************************************)
(* How the fleet reaches a browser: the throttled realtime/broadcast.py,   *)
(* the channel layer, realtime/consumers.py, static/lib/ws_client.js and   *)
(* the store of static/app.js.                                             *)
(*                                                                         *)
(* A snapshot is the number of changes it contains.  A change made by a    *)
(* coroutine creates a task that broadcasts its snapshot; the tick loop    *)
(* awaits its own broadcast at once, so it may overtake such tasks.  The   *)
(* lock of broadcast_fleet is never contended (nothing is awaited under    *)
(* it), and a send to the in-memory layer only puts a message in the queue *)
(* of each consumer: a broadcast is one step.  Of the other messages only  *)
(* the room they take in the queue is modelled.  Time counts in units of   *)
(* which the throttle window has Throttle; timers may fire late.  There is *)
(* one browser; browsers do not affect each other.                         *)
(***************************************************************************)
EXTENDS Naturals, Sequences

CONSTANTS
  Throttle,    \* THROTTLE_S
  Capacity,    \* capacity of a consumer's queue in the channel layer
  NoTask,      \* _throttle_task is None or done
  Telemetry,   \* a message of any other kind
  MaxChanges,  \* bound on the changes of the fleet
  MaxOthers,   \* bound on the messages of other kinds
  MaxCloses    \* bound on the connections lost

ASSUME FeedAssumption ==
  /\ Throttle \in Nat \ {0} /\ Capacity \in Nat \ {0}
  /\ MaxChanges \in Nat /\ MaxOthers \in Nat /\ MaxCloses \in Nat
  /\ Telemetry \notin Nat
  /\ NoTask \notin [snapshot : Nat, wait : 0 .. Throttle]

VARIABLES
  version,     \* changes of the fleet so far
  pending,     \* tasks created by fleet.on_change, with their snapshots
  elapsed,     \* time since _last_fleet_broadcast, Throttle when more
  dirty,       \* _fleet_dirty
  task,        \* _throttle_task: the snapshot it holds, and how long it sleeps
  socket,      \* "closed", "joined" (in the group, connect not done) or "open"
  queue,       \* messages for the consumer in the channel layer
  shown,       \* the store's fleet in the browser
  others,      \* messages of other kinds so far (only to bound them)
  closes       \* connections lost so far (only to bound them)

throttleVars == <<elapsed, dirty, task>>
clientVars == <<socket, shown, closes>>
vars == <<version, pending, throttleVars, clientVars, queue, others>>

Snapshots == 0 .. MaxChanges
Tasks == [snapshot : Snapshots, wait : 0 .. Throttle]

\* Types of every variable; no queue outgrows its capacity.
TypeOK ==
  /\ version \in Snapshots /\ pending \in Seq(Snapshots)
  /\ elapsed \in 0 .. Throttle /\ dirty \in BOOLEAN /\ task \in Tasks \cup {NoTask}
  /\ socket \in {"closed", "joined", "open"}
  /\ queue \in Seq(Snapshots \cup {Telemetry}) /\ Len(queue) <= Capacity
  /\ shown \in Snapshots
  /\ others \in 0 .. MaxOthers /\ closes \in 0 .. MaxCloses

Init ==
  /\ version = 0 /\ pending = <<>>
  /\ elapsed = Throttle /\ dirty = FALSE /\ task = NoTask
  /\ socket = "closed" /\ queue = <<>> /\ shown = 0
  /\ others = 0 /\ closes = 0

-----------------------------------------------------------------------------
(* The channel layer *)

\* Mutation: no limit.
AlwaysPut(m) == queue' = IF socket = "closed" THEN queue ELSE Append(queue, m)

\* group_send: a consumer whose queue is full misses the message.
GroupSend(m) ==
  queue' = IF socket = "closed" \/ Len(queue) = Capacity THEN queue ELSE Append(queue, m)

-----------------------------------------------------------------------------
(* broadcast_fleet *)

\* Mutations: the deferred task is not cancelled; the flag is not reset.
PublishBesideTask(s) ==
  /\ elapsed = Throttle
  /\ elapsed' = 0 /\ dirty' = FALSE /\ UNCHANGED task
  /\ GroupSend(s)
PublishStaysDirty(s) ==
  /\ elapsed = Throttle
  /\ elapsed' = 0 /\ task' = NoTask /\ UNCHANGED dirty
  /\ GroupSend(s)

\* The window is over: cancel a deferred send, and send.
Publish(s) ==
  /\ elapsed = Throttle
  /\ elapsed' = 0 /\ dirty' = FALSE /\ task' = NoTask
  /\ GroupSend(s)

\* Within the window: leave it to the deferred task, which keeps the snapshot it was
\* created with.
Defer(s) ==
  /\ elapsed < Throttle
  /\ dirty' = TRUE
  /\ task' = IF task = NoTask THEN [snapshot |-> s, wait |-> Throttle - elapsed] ELSE task
  /\ UNCHANGED <<elapsed, queue>>

BroadcastFleet(s) == Publish(s) \/ Defer(s)

\* _deferred wakes.
DeferredWakes ==
  /\ task # NoTask /\ task.wait = 0
  /\ task' = NoTask /\ dirty' = FALSE
  /\ IF dirty THEN elapsed' = 0 /\ GroupSend(task.snapshot) ELSE UNCHANGED <<elapsed, queue>>
  /\ UNCHANGED <<version, pending, clientVars, others>>

\* Time passes.
Clock ==
  /\ elapsed < Throttle \/ (task # NoTask /\ task.wait > 0)
  /\ elapsed' = IF elapsed < Throttle THEN elapsed + 1 ELSE elapsed
  /\ task' = IF task # NoTask /\ task.wait > 0 THEN [task EXCEPT !.wait = @ - 1] ELSE task
  /\ UNCHANGED <<version, pending, dirty, clientVars, queue, others>>

-----------------------------------------------------------------------------
(* Changes of the fleet and their broadcasts *)

\* A mutator called by a coroutine: on_change takes the snapshot and creates a task.
NotifiedChange ==
  /\ version < MaxChanges
  /\ version' = version + 1
  /\ pending' = Append(pending, version')
  /\ UNCHANGED <<throttleVars, clientVars, queue, others>>

\* step_vehicle notifies nobody; in a worker thread ensure_future raises after the change.
SilentChange ==
  /\ version < MaxChanges
  /\ version' = version + 1
  /\ UNCHANGED <<pending, throttleVars, clientVars, queue, others>>

\* A task of on_change runs.
NotifyRuns ==
  /\ pending # <<>>
  /\ BroadcastFleet(Head(pending))
  /\ pending' = Tail(pending)
  /\ UNCHANGED <<version, clientVars, others>>

\* Mutation: the tick loop broadcasts only what a mutator has announced.
TickWhenDirty ==
  /\ dirty
  /\ BroadcastFleet(version)
  /\ UNCHANGED <<version, pending, clientVars, others>>

\* The end of a tick cycle.
TickBroadcast ==
  /\ BroadcastFleet(version)
  /\ UNCHANGED <<version, pending, clientVars, others>>

\* Telemetry, a schedule or an overlay is broadcast.
OtherBroadcast ==
  /\ others < MaxOthers
  /\ others' = others + 1
  /\ GroupSend(Telemetry)
  /\ UNCHANGED <<version, pending, throttleVars, clientVars>>

-----------------------------------------------------------------------------
(* The consumer and the browser *)

\* The browser opens the socket, the first time or after its back-off; connect joins
\* the group.
Connect ==
  /\ socket = "closed"
  /\ socket' = "joined"
  /\ UNCHANGED <<version, pending, throttleVars, queue, shown, others, closes>>

\* The store takes a fleet message whatever it showed before.
Show(m) == shown' = IF m = Telemetry THEN shown ELSE m

\* connect sends the fleet as it is now; the queue is served only after it.
Welcome ==
  /\ socket = "joined"
  /\ socket' = "open"
  /\ Show(version)
  /\ UNCHANGED <<version, pending, throttleVars, queue, others, closes>>

\* fleet_update forwards a message.
FleetUpdate ==
  /\ socket = "open" /\ queue # <<>>
  /\ queue' = Tail(queue)
  /\ Show(Head(queue))
  /\ UNCHANGED <<version, pending, throttleVars, socket, others, closes>>

\* The connection is lost with what is on its way; the browser keeps what it shows.
Close ==
  /\ closes < MaxCloses /\ socket # "closed"
  /\ closes' = closes + 1
  /\ socket' = "closed" /\ queue' = <<>>
  /\ UNCHANGED <<version, pending, throttleVars, shown, others>>

-----------------------------------------------------------------------------
(* The specification *)

Next ==
  \/ DeferredWakes \/ Clock
  \/ NotifiedChange \/ SilentChange
  \/ NotifyRuns \/ TickBroadcast \/ OtherBroadcast
  \/ Connect \/ Welcome \/ FleetUpdate \/ Close

Spec == Init /\ [][Next]_vars

\* The loop runs its tasks and timers, the tick loop lives, the browser reconnects and a
\* connected consumer serves its queue.
Fairness ==
  /\ WF_vars(DeferredWakes) /\ WF_vars(Clock) /\ WF_vars(NotifyRuns) /\ WF_vars(TickBroadcast)
  /\ WF_vars(Connect) /\ WF_vars(Welcome) /\ WF_vars(FleetUpdate)

FairSpec == Spec /\ Fairness

-----------------------------------------------------------------------------
(* Properties *)

\* Work put off is never forgotten: while the flag is set a task sleeps that will send
\* (broadcast.py:41-51).
DirtyHasTask == dirty => task # NoTask

\* A deferred send keeps the throttle as an immediate one does ("throttled to <= 1/200 ms",
\* broadcast.py:35), whatever was sent, cancelled and deferred since it was created.
ThrottleKept == [][DeferredWakes /\ dirty => elapsed = Throttle]_vars

\* When the fleet and the connection come to rest, the browser ends up with the fleet as it
\* is and stays so: silent changes, stale deferred snapshots, overtaken tasks, full queues
\* and lost connections are all made up for (README.md:218,222).
Settles == <>[](socket = "open" /\ shown = version)
===============================================================================

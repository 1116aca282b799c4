------------------------------ MODULE FeedProofs ------------------------------
(* The safety of Feed for any window, capacity and load.  *)
EXTENDS Feed, SequenceTheorems, TLAPS

\* What makes a deferred send keep the throttle: a task sleeps at least for the rest of
\* the window, and the window never shrinks under it.
TaskWaits == task # NoTask => elapsed + task.wait >= Throttle

IInv == TypeOK /\ DirtyHasTask /\ TaskWaits

\* A group send keeps the queue within its capacity (broadcast.py:96-104).
LEMMA GroupSendTypes ==
  ASSUME TypeOK, NEW m \in Snapshots \cup {Telemetry}, GroupSend(m)
  PROVE  queue' \in Seq(Snapshots \cup {Telemetry}) /\ Len(queue') <= Capacity
<1> DEFINE S == Snapshots \cup {Telemetry}
<1>0. queue \in Seq(S) /\ Len(queue) <= Capacity
  BY DEF TypeOK
<1>1. CASE socket = "closed" \/ Len(queue) = Capacity
  BY <1>0, <1>1 DEF GroupSend
<1>2. CASE ~(socket = "closed" \/ Len(queue) = Capacity)
  <2>1. queue' = Append(queue, m)
    BY <1>2 DEF GroupSend
  <2>2. queue' \in Seq(S) /\ Len(queue') = Len(queue) + 1
    BY <1>0, <2>1, AppendProperties
  <2>3. Len(queue) \in Nat
    BY <1>0, LenProperties
  <2>. QED
    BY <1>0, <1>2, <2>2, <2>3, FeedAssumption DEF FeedAssumption
<1>. QED
  BY <1>1, <1>2

\* What broadcast_fleet leaves behind, whether it sends or defers (broadcast.py:34-68).
LEMMA BroadcastFacts ==
  ASSUME IInv, NEW s \in Snapshots, BroadcastFleet(s)
  PROVE  /\ queue' \in Seq(Snapshots \cup {Telemetry}) /\ Len(queue') <= Capacity
         /\ elapsed' \in 0 .. Throttle /\ dirty' \in BOOLEAN
         /\ task' \in Tasks \cup {NoTask}
         /\ DirtyHasTask' /\ TaskWaits'
<1>1. CASE Publish(s)
  <2>1. queue' \in Seq(Snapshots \cup {Telemetry}) /\ Len(queue') <= Capacity
    BY <1>1, GroupSendTypes DEF Publish, IInv
  <2>2. dirty' = FALSE /\ task' = NoTask /\ elapsed' = 0
    BY <1>1 DEF Publish
  <2>3. elapsed' \in 0 .. Throttle
    BY <2>2, FeedAssumption DEF FeedAssumption
  <2>. QED
    BY <2>1, <2>2, <2>3 DEF DirtyHasTask, TaskWaits
<1>2. CASE Defer(s) /\ task = NoTask
  <2>1. task' = [snapshot |-> s, wait |-> Throttle - elapsed] /\ elapsed \in 0 .. Throttle
    BY <1>2 DEF Defer, IInv, TypeOK
  <2>2. task' \in Tasks /\ elapsed + task'.wait = Throttle
    BY <2>1, FeedAssumption DEF Tasks, FeedAssumption
  <2>3. [snapshot |-> s, wait |-> Throttle - elapsed] \in [snapshot : Nat, wait : 0 .. Throttle]
    BY <2>1, FeedAssumption DEF Snapshots, FeedAssumption
  <2>4. task' # NoTask
    BY <2>1, <2>3, FeedAssumption DEF FeedAssumption
  <2>. QED
    BY <1>2, <2>2, <2>4, FeedAssumption
    DEF Defer, IInv, TypeOK, DirtyHasTask, TaskWaits, FeedAssumption
<1>3. CASE Defer(s) /\ task # NoTask
  BY <1>3 DEF Defer, IInv, TypeOK, DirtyHasTask, TaskWaits
<1>. QED
  BY <1>1, <1>2, <1>3 DEF BroadcastFleet

-----------------------------------------------------------------------------

\* The invariant holds at first and every step keeps it.
LEMMA IInvInit == Init => IInv
<1> SUFFICES ASSUME Init PROVE IInv
  OBVIOUS
<1>1. 0 \in Snapshots /\ elapsed \in 0 .. Throttle /\ 0 \in 0 .. MaxOthers /\ 0 \in 0 .. MaxCloses
  BY FeedAssumption DEF Init, Snapshots, FeedAssumption
<1>2. queue \in Seq(Snapshots \cup {Telemetry}) /\ Len(queue) <= Capacity
  BY FeedAssumption, EmptySeq DEF Init, FeedAssumption
<1>3. pending \in Seq(Snapshots)
  BY EmptySeq DEF Init
<1>. QED
  BY <1>1, <1>2, <1>3 DEF Init, IInv, TypeOK, DirtyHasTask, TaskWaits

LEMMA IInvNext == IInv /\ [Next]_vars => IInv'
<1> SUFFICES ASSUME IInv, [Next]_vars PROVE IInv'
  OBVIOUS
<1> USE DEF IInv
<1>1. CASE DeferredWakes
  <2>1. task \in Tasks /\ task.snapshot \in Snapshots
    BY <1>1 DEF DeferredWakes, TypeOK, Tasks
  <2>2. queue' \in Seq(Snapshots \cup {Telemetry}) /\ Len(queue') <= Capacity
    BY <1>1, <2>1, GroupSendTypes DEF DeferredWakes, TypeOK
  <2>3. elapsed' \in 0 .. Throttle
    BY <1>1, FeedAssumption DEF DeferredWakes, TypeOK, FeedAssumption
  <2>. QED
    BY <1>1, <2>2, <2>3 DEF DeferredWakes, clientVars, TypeOK, DirtyHasTask, TaskWaits
<1>2. CASE Clock
  <2>1. elapsed \in Nat /\ elapsed <= Throttle /\ elapsed' \in 0 .. Throttle
    BY <1>2, FeedAssumption DEF Clock, TypeOK, FeedAssumption
  <2>2. CASE task # NoTask /\ task.wait > 0
    <3>1. task \in Tasks /\ task' = [task EXCEPT !.wait = @ - 1]
      BY <1>2, <2>2 DEF Clock, TypeOK
    <3>2. task' \in Tasks /\ task'.wait = task.wait - 1
      BY <2>2, <3>1, FeedAssumption DEF Tasks, FeedAssumption
    <3>3. task' \in [snapshot : Nat, wait : 0 .. Throttle]
      BY <3>2, FeedAssumption DEF Tasks, Snapshots, FeedAssumption
    <3>4. task' # NoTask
      BY <3>3, FeedAssumption DEF FeedAssumption
    <3>5. elapsed' + task'.wait >= Throttle
      BY <1>2, <2>1, <2>2, <3>1, <3>2, FeedAssumption
      DEF Clock, Tasks, TaskWaits, FeedAssumption
    <3>. QED
      BY <1>2, <2>1, <3>2, <3>4, <3>5 DEF Clock, clientVars, TypeOK, DirtyHasTask, TaskWaits
  <2>3. CASE ~(task # NoTask /\ task.wait > 0)
    <3>1. task' = task /\ UNCHANGED dirty
      BY <1>2, <2>3 DEF Clock
    <3>2. TaskWaits'
      <4> SUFFICES ASSUME task # NoTask PROVE elapsed' + task.wait >= Throttle
        BY <3>1 DEF TaskWaits
      <4>1. task.wait \in Nat
        BY DEF TypeOK, Tasks
      <4>. QED
        BY <1>2, <2>1, <4>1, FeedAssumption DEF Clock, TaskWaits, FeedAssumption
    <3>. QED
      BY <1>2, <2>1, <3>1, <3>2 DEF Clock, clientVars, TypeOK, DirtyHasTask
  <2>. QED
    BY <2>2, <2>3
<1>3. CASE NotifiedChange
  <2>1. version' \in Snapshots
    BY <1>3, FeedAssumption DEF NotifiedChange, TypeOK, Snapshots, FeedAssumption
  <2>2. pending' \in Seq(Snapshots)
    BY <1>3, <2>1, AppendProperties DEF NotifiedChange, TypeOK
  <2>. QED
    BY <1>3, <2>1, <2>2
    DEF NotifiedChange, throttleVars, clientVars, TypeOK, DirtyHasTask, TaskWaits
<1>4. CASE SilentChange
  <2>1. version' \in Snapshots
    BY <1>4, FeedAssumption DEF SilentChange, TypeOK, Snapshots, FeedAssumption
  <2>. QED
    BY <1>4, <2>1 DEF SilentChange, throttleVars, clientVars, TypeOK, DirtyHasTask, TaskWaits
<1>5. CASE NotifyRuns
  <2>1. Head(pending) \in Snapshots /\ Tail(pending) \in Seq(Snapshots)
    BY <1>5, HeadTailProperties DEF NotifyRuns, TypeOK
  <2>. QED
    BY <1>5, <2>1, BroadcastFacts DEF NotifyRuns, clientVars, TypeOK
<1>6. CASE TickBroadcast
  <2>1. version \in Snapshots
    BY DEF TypeOK
  <2>. QED
    BY <1>6, <2>1, BroadcastFacts DEF TickBroadcast, clientVars, TypeOK
<1>7. CASE OtherBroadcast
  <2>1. queue' \in Seq(Snapshots \cup {Telemetry}) /\ Len(queue') <= Capacity
    BY <1>7, GroupSendTypes DEF OtherBroadcast
  <2>2. others' \in 0 .. MaxOthers
    BY <1>7, FeedAssumption DEF OtherBroadcast, TypeOK, FeedAssumption
  <2>. QED
    BY <1>7, <2>1, <2>2
    DEF OtherBroadcast, throttleVars, clientVars, TypeOK, DirtyHasTask, TaskWaits
<1>8. CASE Connect
  BY <1>8 DEF Connect, throttleVars, TypeOK, DirtyHasTask, TaskWaits
<1>9. CASE Welcome
  <2>1. version \in Snapshots /\ shown' \in Snapshots
    BY <1>9 DEF Welcome, Show, TypeOK
  <2>. QED
    BY <1>9, <2>1 DEF Welcome, throttleVars, TypeOK, DirtyHasTask, TaskWaits
<1>10. CASE FleetUpdate
  <2>1. /\ Head(queue) \in Snapshots \cup {Telemetry}
        /\ queue' \in Seq(Snapshots \cup {Telemetry}) /\ Len(queue') = Len(queue) - 1
    BY <1>10, HeadTailProperties DEF FleetUpdate, TypeOK
  <2>2. Len(queue) \in Nat
    BY LenProperties DEF TypeOK
  <2>3. Len(queue') <= Capacity
    BY <2>1, <2>2, FeedAssumption DEF TypeOK, FeedAssumption
  <2>4. shown' \in Snapshots
    BY <1>10, <2>1 DEF FleetUpdate, Show, TypeOK
  <2>. QED
    BY <1>10, <2>1, <2>3, <2>4 DEF FleetUpdate, throttleVars, TypeOK, DirtyHasTask, TaskWaits
<1>11. CASE Close
  <2>1. closes' \in 0 .. MaxCloses
    BY <1>11, FeedAssumption DEF Close, TypeOK, FeedAssumption
  <2>2. queue' \in Seq(Snapshots \cup {Telemetry}) /\ Len(queue') <= Capacity
    BY <1>11, EmptySeq, FeedAssumption DEF Close, FeedAssumption
  <2>. QED
    BY <1>11, <2>1, <2>2 DEF Close, throttleVars, TypeOK, DirtyHasTask, TaskWaits
<1>12. CASE UNCHANGED vars
  BY <1>12 DEF vars, throttleVars, clientVars, TypeOK, DirtyHasTask, TaskWaits
<1>. QED
  BY <1>1, <1>2, <1>3, <1>4, <1>5, <1>6, <1>7, <1>8, <1>9, <1>10, <1>11, <1>12 DEF Next

LEMMA IInvAlways == Spec => []IInv
BY IInvInit, IInvNext, PTL DEF Spec

-----------------------------------------------------------------------------

\* Every variable keeps its type, and no consumer's queue outgrows its capacity
\* (broadcast.py:28-31, 96-104).
THEOREM TypeCorrect == Spec => []TypeOK
<1>1. IInv => TypeOK
  BY DEF IInv
<1>. QED
  BY <1>1, IInvAlways, PTL

\* A broadcast put off is never forgotten: a task sleeps that sends (broadcast.py:41-65).
THEOREM PutOffIsSent == Spec => []DirtyHasTask
<1>1. IInv => DirtyHasTask
  BY DEF IInv
<1>. QED
  BY <1>1, IInvAlways, PTL

\* A deferred send comes no sooner after the last one than the window, however sends, their
\* cancellation, and late timers follow each other (broadcast.py:43-62).
THEOREM DeferredKeepsThrottle == Spec => ThrottleKept
<1>1. IInv /\ [Next]_vars => [DeferredWakes /\ dirty => elapsed = Throttle]_vars
  <2> SUFFICES ASSUME IInv, DeferredWakes, dirty PROVE elapsed = Throttle
    OBVIOUS
  <2>1. task # NoTask /\ task.wait = 0
    BY DEF DeferredWakes
  <2>2. elapsed \in 0 .. Throttle /\ elapsed + 0 >= Throttle
    BY <2>1 DEF IInv, TypeOK, TaskWaits
  <2>. QED
    BY <2>2, FeedAssumption DEF FeedAssumption
<1>. QED
  BY <1>1, IInvAlways, PTL DEF Spec, ThrottleKept
===============================================================================

--------------------------- MODULE SchedulerProofs ---------------------------
(***************************************************************************)
(* Proofs about Scheduler, for any schedule, documents, requests, faults   *)
(* and number of edits.                                                    *)
(***************************************************************************)
EXTENDS Scheduler, TLAPS

\* What makes AtMostOneRun inductive: an id that is pending has no run, and the entry
\* whose run is being created is requested and has none either.
NoRunYet ==
  /\ \A id \in Ids : Pending(id) => created[id] = 0
  /\ loop.at = "create" => created[loop.entry.id] = 0 /\ ~ Pending(loop.entry.id)

IInv == TypeOK /\ NoRunYet /\ AtMostOneRun /\ NoOrphan

\* The variables IInv does not look at, or that only its type part does.
LEMMA InitIInv == Init => IInv
  <1> SUFFICES ASSUME Init PROVE IInv
    OBVIOUS
  <1> USE SchedulerAssumption
  <1>1. file \in Documents /\ entries \in SUBSET Entries
    BY DEF Init
  <1>2. requests \in [Requests -> [at : {"idle", "read", "install"}, doc : Documents]]
    BY DEF Init
  <1>3. statuses \in [Ids -> Statuses] /\ shown \in Snapshot
    BY <1>1 DEF Init, Statuses, Snapshot, TakeSnapshot
  <1>4. loop \in Loop /\ (loop.at \in {"create", "stop"} <=> loop.entry # NoEntry)
    BY DEF Init, Loop
  <1>5. TypeOK
    BY <1>1, <1>2, <1>3, <1>4 DEF Init, TypeOK
  <1>6. NoRunYet /\ AtMostOneRun /\ NoOrphan
    BY DEF Init, NoRunYet, AtMostOneRun, NoOrphan
  <1> QED
    BY <1>5, <1>6 DEF IInv

\* The id of the entry in hand is an id.
LEMMA EntryId == ASSUME TypeOK, loop.at \in {"create", "stop"}
                 PROVE  loop.entry \in Entries /\ loop.entry.id \in Ids
  BY SchedulerAssumption DEF TypeOK, Loop, Entry

\* Edits, reloads, the clock, the tasks and the binder: the loop, its statuses and the
\* count of runs stay, and tracked does too.
Aside == UNCHANGED <<statuses, loop, created, tracked>>

LEMMA AsideKeeps == ASSUME NoRunYet, AtMostOneRun, NoOrphan, Aside
                    PROVE  NoRunYet' /\ AtMostOneRun' /\ NoOrphan'
  BY DEF NoRunYet, AtMostOneRun, NoOrphan, Aside, Pending

LEMMA EditSteps ==
  ASSUME IInv, \/ \E doc \in Documents : EditFile(doc)
               \/ \E q \in Requests : Reload(q) \/ ViewStep(q) \/ \E doc \in Documents : Put(q, doc)
  PROVE  IInv'
  <1> USE SchedulerAssumption DEF IInv
  <1>1. ASSUME NEW doc \in Documents, EditFile(doc) PROVE TypeOK' /\ Aside
    BY <1>1 DEF TypeOK, EditFile, Edit, Aside, databusVars, taskVars
  <1>2. ASSUME NEW q \in Requests, Reload(q) PROVE TypeOK' /\ Aside
    BY <1>2 DEF TypeOK, Reload, Edit, Aside, databusVars, taskVars
  <1>3. ASSUME NEW q \in Requests, ReadFile(q) PROVE TypeOK' /\ Aside
    BY <1>3 DEF TypeOK, ReadFile, Aside, databusVars, taskVars
  <1>4. ASSUME NEW q \in Requests, Install(q) PROVE TypeOK' /\ Aside
    <2>1. entries' \in SUBSET Entries
      BY <1>4 DEF TypeOK, Install
    <2> QED
      BY <1>4, <2>1 DEF TypeOK, Install, Aside, databusVars, taskVars
  <1>5. ASSUME NEW q \in Requests, NEW doc \in Documents, Put(q, doc) PROVE TypeOK' /\ Aside
    BY <1>5 DEF TypeOK, Put, Edit, Aside, databusVars, taskVars
  <1>6. TypeOK' /\ Aside
    BY <1>1, <1>2, <1>3, <1>4, <1>5 DEF ViewStep
  <1> QED
    BY <1>6, AsideKeeps

LEMMA TaskSteps ==
  ASSUME IInv, \/ \E e \in Entries : FallDue(e)
               \/ \E id \in Ids : \/ AutoConfirm(id) \/ OperatorConfirm(id)
                                  \/ BinderReports(id) \/ BinderRepeats(id) \/ StartMotion(id)
  PROVE  IInv'
  <1> USE DEF IInv
  <1>1. ASSUME NEW e \in Entries, FallDue(e) PROVE TypeOK' /\ Aside
    BY <1>1 DEF TypeOK, FallDue, Aside, viewVars, databusVars, taskVars
  <1>2. ASSUME NEW id \in Ids, AutoConfirm(id) PROVE TypeOK' /\ Aside
    BY <1>2 DEF TypeOK, AutoConfirm, Aside, viewVars
  <1>3. ASSUME NEW id \in Ids, OperatorConfirm(id) PROVE TypeOK' /\ Aside
    BY <1>3 DEF TypeOK, OperatorConfirm, Aside, viewVars, taskVars
  <1>4. ASSUME NEW id \in Ids, BinderReports(id) PROVE TypeOK' /\ Aside
    BY <1>4 DEF TypeOK, BinderReports, Aside, viewVars
  <1>5. ASSUME NEW id \in Ids, StartMotion(id) PROVE TypeOK' /\ Aside
    BY <1>5 DEF TypeOK, StartMotion, Aside, viewVars, databusVars
  <1>6. ASSUME NEW id \in Ids, BinderRepeats(id) PROVE TypeOK' /\ Aside
    BY <1>6 DEF TypeOK, BinderRepeats, Aside, viewVars, databusVars
  <1>7. TypeOK' /\ Aside
    BY <1>1, <1>2, <1>3, <1>4, <1>5, <1>6
  <1> QED
    BY <1>7, AsideKeeps

\* A status change keeps the types of statuses and of what is shown.
LEMMA SetStatusType ==
  ASSUME TypeOK, NEW id \in Ids, NEW s \in Statuses, SetStatus(id, s)
  PROVE  statuses' \in [Ids -> Statuses] /\ shown' \in Snapshot
  BY DEF TypeOK, SetStatus, TakeSnapshot, Snapshot

\* The steps of the loop that neither create a run nor start to.
LEMMA QuietLoopSteps ==
  ASSUME IInv, RunWake \/ \E e \in Entries : RunSkip(e) \/ DispatchDies(e)
  PROVE  IInv'
  <1> USE SchedulerAssumption DEF IInv
  <1>1. ASSUME RunWake PROVE IInv'
    <2>1. loop' \in Loop /\ loop'.at = loop.at /\ loop'.entry = loop.entry
      BY <1>1 DEF RunWake, TypeOK, Loop
    <2>2. TypeOK'
      BY <1>1, <2>1 DEF RunWake, TypeOK, viewVars, databusVars, taskVars
    <2> QED
      BY <1>1, <2>1, <2>2 DEF RunWake, NoRunYet, AtMostOneRun, NoOrphan, Pending, databusVars
  <1>2. ASSUME NEW e \in Entries, RunSkip(e) PROVE IInv'
    <2>1. loop' \in Loop /\ loop'.at = loop.at /\ loop'.entry = loop.entry
      BY <1>2 DEF RunSkip, TypeOK, Loop
    <2>2. TypeOK'
      BY <1>2, <2>1 DEF RunSkip, TypeOK, viewVars, databusVars, taskVars
    <2> QED
      BY <1>2, <2>1, <2>2 DEF RunSkip, NoRunYet, AtMostOneRun, NoOrphan, Pending, databusVars
  <1>3. ASSUME NEW e \in Entries, DispatchDies(e) PROVE IInv'
    <2>1. e.id \in Ids /\ "requested" \in Statuses
      BY DEF Entry, Statuses
    <2>2. statuses' \in [Ids -> Statuses] /\ shown' \in Snapshot
      BY <1>3, <2>1, SetStatusType DEF DispatchDies
    <2>3. loop' \in Loop /\ loop'.at = "dead" /\ loop'.entry = loop.entry
      BY <1>3 DEF DispatchDies, TypeOK, Loop
    <2>4. TypeOK'
      BY <1>3, <2>2, <2>3 DEF DispatchDies, TypeOK, viewVars, databusVars, taskVars
    <2>5. \A id \in Ids : Pending(id)' => Pending(id)
      BY <1>3, <2>1 DEF DispatchDies, SetStatus, Pending, TypeOK
    <2> QED
      BY <1>3, <2>3, <2>4, <2>5 DEF DispatchDies, NoRunYet, AtMostOneRun, NoOrphan, databusVars
  <1> QED
    BY <1>1, <1>2, <1>3

\* A dispatch begins: its entry was pending, so no run was created for it.
LEMMA DispatchStep ==
  ASSUME IInv, NEW e \in Entries, DispatchCreate(e)
  PROVE  IInv'
  <1> USE SchedulerAssumption DEF IInv
  <1>1. e.id \in Ids /\ "requested" \in Statuses /\ e # NoEntry
    BY DEF Entry, Statuses
  <1>2. statuses' \in [Ids -> Statuses] /\ shown' \in Snapshot
    BY <1>1, SetStatusType DEF DispatchCreate
  <1>3. loop' \in Loop /\ loop'.at = "create" /\ loop'.entry = e
    BY DEF DispatchCreate, TypeOK, Loop
  <1>4. TypeOK'
    BY <1>1, <1>2, <1>3 DEF DispatchCreate, TypeOK, viewVars, databusVars, taskVars
  <1>5. /\ \A id \in Ids : Pending(id)' => Pending(id)
        /\ ~ Pending(e.id)'
    BY <1>1 DEF DispatchCreate, SetStatus, Pending, TypeOK
  <1>6. created[e.id] = 0 /\ UNCHANGED <<created, tracked>>
    BY <1>1 DEF DispatchCreate, NoRunYet, databusVars
  <1>7. NoRunYet' /\ AtMostOneRun'
    BY <1>3, <1>5, <1>6 DEF NoRunYet, AtMostOneRun, Pending
  <1>8. NoOrphan'
    <2>1. loop.at = "ready"
      BY DEF DispatchCreate
    <2> QED
      BY <1>6, <2>1 DEF NoOrphan
  <1> QED
    BY <1>4, <1>7, <1>8

\* The dispatch goes on or ends.
LEMMA ReplySteps ==
  ASSUME IInv, CreateDone \/ CreateRefused \/ CreateBreaks \/ DispatchTrack
  PROVE  IInv'
  <1> USE SchedulerAssumption DEF IInv
  <1> DEFINE i == loop.entry.id
  <1>1. loop.at \in {"create", "stop"} /\ i \in Ids
    BY EntryId DEF CreateDone, CreateRefused, CreateBreaks, DispatchTrack
  <1> HIDE DEF i
  <1>2. {"initialized", "failed"} \subseteq Statuses
    BY DEF Statuses
  <1>3. ASSUME CreateRun(i)
        PROVE  /\ created' \in [Ids -> Nat]
               /\ phase' \in [Ids -> {"none", "created", "confirmed", "reported"}]
               /\ created'[i] = created[i] + 1
               /\ \A id \in Ids : id # i => created'[id] = created[id]
    BY <1>1, <1>3 DEF CreateRun, TypeOK
  <1>4. ASSUME loop.at = "create" PROVE created[i] = 0 /\ ~ Pending(i)
    BY <1>4 DEF NoRunYet, i
  <1>5. CASE CreateDone
    <2>1. SetStatus(i, "initialized") /\ CreateRun(i) /\ loop.at = "create"
      BY <1>5 DEF CreateDone, i
    <2>2. statuses' \in [Ids -> Statuses] /\ shown' \in Snapshot
      BY <1>1, <1>2, <2>1, SetStatusType
    <2>3. loop' \in Loop /\ loop'.at = "stop" /\ loop'.entry = loop.entry
      BY <1>5 DEF CreateDone, TypeOK, Loop
    <2>4. TypeOK'
      BY <1>3, <1>5, <2>1, <2>2, <2>3 DEF CreateDone, TypeOK, viewVars, taskVars
    <2>5. \A id \in Ids : Pending(id)' => Pending(id) /\ id # i
      BY <1>1, <2>1 DEF SetStatus, Pending, TypeOK
    <2>6. loop'.entry.id = i /\ tracked' = tracked
      BY <1>5, <2>3 DEF CreateDone, i
    <2>7. NoRunYet' /\ AtMostOneRun'
      BY <1>3, <1>4, <2>1, <2>3, <2>5 DEF NoRunYet, AtMostOneRun
    <2>8. NoOrphan'
      BY <1>3, <1>4, <2>1, <2>3, <2>6 DEF NoOrphan
    <2> QED
      BY <2>4, <2>7, <2>8
  <1>6. CASE CreateRefused
    <2>1. SetStatus(i, "failed") /\ loop.at = "create"
      BY <1>6 DEF CreateRefused, i
    <2>2. statuses' \in [Ids -> Statuses] /\ shown' \in Snapshot
      BY <1>1, <1>2, <2>1, SetStatusType
    <2>3. loop' \in Loop /\ loop'.at = "ready" /\ loop'.entry = NoEntry
      BY <1>6 DEF CreateRefused, Return, TypeOK, Loop
    <2>4. TypeOK'
      BY <1>6, <2>2, <2>3 DEF CreateRefused, TypeOK, viewVars, databusVars, taskVars
    <2>5. \A id \in Ids : Pending(id)' => Pending(id)
      BY <1>1, <2>1 DEF SetStatus, Pending, TypeOK
    <2>6. UNCHANGED <<created, tracked>>
      BY <1>6 DEF CreateRefused, databusVars
    <2> QED
      BY <2>1, <2>3, <2>4, <2>5, <2>6 DEF NoRunYet, AtMostOneRun, NoOrphan
  <1>7. CASE CreateBreaks
    <2>1. loop' \in Loop /\ loop'.at = "dead" /\ loop'.entry = NoEntry /\ loop.at = "create"
      BY <1>7 DEF CreateBreaks, TypeOK, Loop
    <2>2. /\ \/ UNCHANGED databusVars
             \/ CreateRun(i)
          /\ UNCHANGED <<statuses, tracked>>
      BY <1>7 DEF CreateBreaks, i
    <2>3. created' \in [Ids -> Nat] /\ phase' \in [Ids -> {"none", "created", "confirmed", "reported"}]
      BY <1>3, <2>2 DEF databusVars, TypeOK
    <2>4. TypeOK'
      BY <1>7, <2>1, <2>3 DEF CreateBreaks, TypeOK, viewVars, taskVars
    <2>5. \A id \in Ids : id # i => created'[id] = created[id]
      BY <1>3, <2>2 DEF databusVars
    <2>6. created'[i] <= 1
      BY <1>3, <1>4, <2>1, <2>2 DEF databusVars
    <2>7. \A id \in Ids : Pending(id)' => Pending(id) /\ id # i
      BY <1>4, <2>1, <2>2 DEF Pending
    <2> QED
      BY <2>1, <2>4, <2>5, <2>6, <2>7 DEF NoRunYet, AtMostOneRun, NoOrphan
  <1>8. CASE DispatchTrack
    <2>1. tracked' = tracked \cup {i} /\ loop.at = "stop"
      BY <1>8 DEF DispatchTrack, i
    <2>2. loop' \in Loop /\ loop'.at = "ready" /\ loop'.entry = NoEntry
      BY <1>8 DEF DispatchTrack, Return, TypeOK, Loop
    <2>3. confirms' \in SUBSET Ids /\ watched' \in SUBSET Ids
      BY <1>1, <1>8 DEF DispatchTrack, ChainCallback, TypeOK, i
    <2>4. TypeOK'
      BY <1>1, <1>8, <2>1, <2>2, <2>3 DEF DispatchTrack, TypeOK, viewVars, databusVars
    <2>5. UNCHANGED <<statuses, created>>
      BY <1>8 DEF DispatchTrack, databusVars
    <2>6. NoRunYet' /\ AtMostOneRun'
      BY <2>2, <2>5 DEF NoRunYet, AtMostOneRun, Pending
    <2>7. NoOrphan'
      BY <2>1, <2>2, <2>5 DEF NoOrphan, i
    <2> QED
      BY <2>4, <2>6, <2>7
  <1> QED
    BY <1>5, <1>6, <1>7, <1>8

LEMMA Stutter == ASSUME IInv, UNCHANGED vars PROVE IInv'
  BY DEF IInv, TypeOK, NoRunYet, AtMostOneRun, NoOrphan, Pending, vars, viewVars, databusVars, taskVars

LEMMA Invariance == Spec => []IInv
  <1>1. IInv /\ [Next]_vars => IInv'
    BY EditSteps, TaskSteps, QuietLoopSteps, DispatchStep, ReplySteps, Stutter DEF Next, LoopStep
  <1> QED
    BY <1>1, InitIInv, PTL DEF Spec

\* Every variable of the scheduler keeps its type.
THEOREM TypeCorrect == Spec => []TypeOK
  <1>1. IInv => TypeOK
    BY DEF IInv
  <1> QED
    BY <1>1, Invariance, PTL

\* No reload, edit or failure makes an entry id fire twice: _statuses never goes back to
\* pending, and is set before the first await of the dispatch.
THEOREM FiresOnce == Spec => []AtMostOneRun
  <1>1. IInv => AtMostOneRun
    BY DEF IInv
  <1> QED
    BY <1>1, Invariance, PTL

\* As long as run_loop lives, every run it created is or will be tracked by the binder.
THEOREM RunsTracked == Spec => []NoOrphan
  <1>1. IInv => NoOrphan
    BY DEF IInv
  <1> QED
    BY <1>1, Invariance, PTL
-----------------------------------------------------------------------------
(* What makes browsers show an old schedule *)

\* A change of the entries, and a step that sends the browsers the schedule.
SomeInstall == \E q \in Requests : Install(q)
HiddenByInstallOnly ==
  /\ ScheduleShown /\ ~ ScheduleShown' => SomeInstall
  /\ statuses' # statuses => ScheduleShown'

\* The browsers come to show an old schedule by an edit or a reload in a worker thread and
\* by nothing else (scheduler.py:127-136,299-310), and the next change of a status mends it.
THEOREM ShownButForEdits == Spec => [][HiddenByInstallOnly]_vars
  <1>1. [Next]_vars => [HiddenByInstallOnly]_vars
    <2> SUFFICES ASSUME Next PROVE HiddenByInstallOnly
      OBVIOUS
    <2>1. CASE UNCHANGED <<entries, statuses, shown>>
      BY <2>1 DEF HiddenByInstallOnly, ScheduleShown, TakeSnapshot
    <2>2. ASSUME entries' = entries, shown' = TakeSnapshot(entries, statuses')
          PROVE  HiddenByInstallOnly
      BY <2>2 DEF HiddenByInstallOnly, ScheduleShown, TakeSnapshot
    <2>3. CASE LoopStep
      BY <2>1, <2>2, <2>3
         DEF LoopStep, RunWake, CreateDone, CreateRefused, CreateBreaks, DispatchTrack, RunSkip,
             DispatchCreate, DispatchDies, SetStatus
    <2>4. CASE SomeInstall
      BY <2>4 DEF SomeInstall, Install, HiddenByInstallOnly
    <2>5. ASSUME ~ LoopStep, ~ SomeInstall PROVE UNCHANGED <<entries, statuses, shown>>
      BY <2>5 DEF Next, SomeInstall, ViewStep, FallDue, EditFile, Reload, ReadFile, Put,
                  AutoConfirm, OperatorConfirm, BinderReports, BinderRepeats, StartMotion
    <2> QED
      BY <2>1, <2>3, <2>4, <2>5
  <1> QED
    BY <1>1, PTL DEF Spec
-----------------------------------------------------------------------------
(* The scheduler implements the abstract dispatch *)

\* A run has a phase from when it is created on.
PhaseOfRun == \A id \in Ids : phase[id] = "none" <=> created[id] = 0

\* Only the entry in hand is requested without a run, unless the loop died with it in hand.
RequestedInHand ==
  \A id \in Ids :
    created[id] = 0 /\ statuses[id] = "requested" =>
      loop.at = "dead" \/ (loop.at = "create" /\ loop.entry.id = id)

\* What the entry in hand has come to.
HandHolds ==
  /\ loop.at = "create" => statuses[loop.entry.id] = "requested"
  /\ loop.at = "stop" => created[loop.entry.id] = 1 /\ loop.entry.id \notin tracked
  /\ \A id \in Ids : created[id] = 0 => statuses[id] # "initialized" /\ id \notin tracked

\* Delayed starts are of runs the binder has reported confirmed.
StartsReported == \A id \in starts \cup moved : id \in tracked /\ phase[id] = "reported"

RInv == PhaseOfRun /\ RequestedInHand /\ HandHolds /\ StartsReported

stageBar == [id \in Ids |-> StageOf(id)]
confirmedBar == {id \in Ids : phase[id] \in {"confirmed", "reported"}}

\* An entry of which nothing changes stays where it is.
SameEntry(id) ==
  /\ created'[id] = created[id] /\ statuses'[id] = statuses[id]
  /\ (id \in tracked') = (id \in tracked) /\ (id \in moved') = (id \in moved)

LEMMA SameStage == ASSUME NEW id \in Ids, SameEntry(id) PROVE StageOf(id)' = StageOf(id)
  BY DEF SameEntry, StageOf, Pending

\* One entry takes a turn and the others stay.
LEMMA TurnMaps ==
  ASSUME NEW id \in Ids, NEW from, NEW to, StageOf(id) = from, StageOf(id)' = to,
         \A i \in Ids : i # id => SameEntry(i), confirmedBar' = confirmedBar
  PROVE  Dispatching!Turn(id, from, to)
  <1>1. \A i \in Ids : i # id => StageOf(i)' = StageOf(i)
    BY SameStage
  <1>2. stageBar' = [stageBar EXCEPT ![id] = to]
    BY <1>1 DEF stageBar
  <1> QED
    BY <1>2 DEF Dispatching!Turn, stageBar, confirmedBar

\* No entry takes a turn.
LEMMA StayMaps ==
  ASSUME \A i \in Ids : SameEntry(i), confirmedBar' = confirmedBar
  PROVE  UNCHANGED Dispatching!vars
  <1>1. stageBar' = stageBar
    BY SameStage DEF stageBar
  <1> QED
    BY <1>1 DEF Dispatching!vars, stageBar, confirmedBar

\* A run is confirmed.
LEMMA ConfirmMaps ==
  ASSUME NEW id \in Ids, \A i \in Ids : SameEntry(i), confirmedBar' = confirmedBar \cup {id},
         StageOf(id) \in {"made", "tracked"}
  PROVE  Dispatching!Confirm(id)
  <1>1. stageBar' = stageBar
    BY SameStage DEF stageBar
  <1> QED
    BY <1>1 DEF Dispatching!Confirm, stageBar, confirmedBar

\* Edits, reloads, the clock and the rounds of the loop that pass entries by.
Elsewhere ==
  /\ UNCHANGED <<statuses, created, phase, tracked, starts, moved>>
  /\ loop'.at = loop.at /\ loop'.entry = loop.entry

LEMMA ElsewhereMaps ==
  ASSUME RInv, Elsewhere
  PROVE  RInv' /\ UNCHANGED Dispatching!vars
  <1>1. RInv'
    BY DEF RInv, Elsewhere, PhaseOfRun, RequestedInHand, HandHolds, StartsReported
  <1>2. (\A i \in Ids : SameEntry(i)) /\ confirmedBar' = confirmedBar
    BY DEF Elsewhere, SameEntry, confirmedBar
  <1> QED
    BY <1>1, <1>2, StayMaps

LEMMA ElsewhereSteps ==
  ASSUME TypeOK,
         \/ RunWake \/ UNCHANGED vars
         \/ \E e \in Entries : RunSkip(e) \/ FallDue(e)
         \/ \E doc \in Documents : EditFile(doc)
         \/ \E q \in Requests : Reload(q) \/ ViewStep(q) \/ \E doc \in Documents : Put(q, doc)
  PROVE  Elsewhere
  <1>1. CASE RunWake \/ \E e \in Entries : RunSkip(e)
    BY <1>1 DEF RunWake, RunSkip, Elsewhere, TypeOK, Loop, databusVars, taskVars
  <1>2. CASE ~ (RunWake \/ \E e \in Entries : RunSkip(e))
    BY <1>2 DEF FallDue, EditFile, Reload, ViewStep, ReadFile, Install, Put, Elsewhere,
                vars, databusVars, taskVars
  <1> QED
    BY <1>1, <1>2

\* An entry is asked for: it waited, and no other is in hand.
LEMMA AskMaps ==
  ASSUME IInv, RInv, NEW e \in Entries, DispatchCreate(e) \/ DispatchDies(e)
  PROVE  RInv' /\ Dispatching!Ask(e.id)
  <1> DEFINE i == e.id
  <1>1. i \in Ids
    BY SchedulerAssumption DEF Entry
  <1> HIDE DEF i
  <1>2. /\ loop.at = "ready" /\ statuses[i] = "pending"
        /\ statuses' = [statuses EXCEPT ![i] = "requested"]
        /\ UNCHANGED <<created, phase, tracked, starts, moved>>
        /\ loop'.at = "dead" \/ (loop'.at = "create" /\ loop'.entry.id = i)
        /\ loop'.at \in {"dead", "create"}
    BY DEF DispatchCreate, DispatchDies, SetStatus, Pending, databusVars, taskVars, IInv, TypeOK,
           Loop, i
  <1>3. /\ statuses \in [Ids -> Statuses] /\ created \in [Ids -> Nat]
        /\ created[i] = 0 /\ i \notin tracked
    BY <1>1, <1>2 DEF IInv, TypeOK, NoRunYet, Pending, RInv, HandHolds
  <1>4. /\ statuses'[i] = "requested"
        /\ \A q \in Ids : q # i => statuses'[q] = statuses[q]
    BY <1>1, <1>2, <1>3
  <1>5. RInv'
    <2>1. PhaseOfRun' /\ StartsReported'
      BY <1>2 DEF RInv, PhaseOfRun, StartsReported
    <2>2. RequestedInHand'
      BY <1>2, <1>4 DEF RInv, RequestedInHand
    <2>3. HandHolds'
      BY <1>1, <1>2, <1>4 DEF RInv, HandHolds
    <2> QED
      BY <2>1, <2>2, <2>3 DEF RInv
  <1>6. StageOf(i) = "waiting" /\ StageOf(i)' = "asked"
    BY <1>2, <1>3, <1>4 DEF StageOf, Pending
  <1>7. \A q \in Ids : q # i => SameEntry(q)
    BY <1>2, <1>4 DEF SameEntry
  <1>8. confirmedBar' = confirmedBar
    BY <1>2 DEF confirmedBar
  <1>9. Dispatching!Turn(i, "waiting", "asked")
    BY <1>1, <1>6, <1>7, <1>8, TurnMaps
  <1>10. ASSUME NEW q \in Ids PROVE StageOf(q) \notin {"asked", "made"}
    <2>1. CASE created[q] = 0
      BY <1>2, <2>1 DEF StageOf, RInv, RequestedInHand
    <2>2. CASE created[q] # 0
      <3>1. q \in tracked
        BY <1>2, <1>3, <2>2 DEF IInv, NoOrphan
      <3> QED
        BY <2>2, <3>1 DEF StageOf
    <2> QED
      BY <2>1, <2>2
  <1>11. \A q \in Ids : ~ Dispatching!InHand(q)
    BY <1>10 DEF Dispatching!InHand
  <1> QED
    BY <1>5, <1>9, <1>11 DEF Dispatching!Ask, i

\* The entry in hand gets its run: it had none, and is not with the binder.
LEMMA CreatedFacts ==
  ASSUME IInv, RInv, loop.at = "create", CreateRun(loop.entry.id)
  PROVE  LET i == loop.entry.id
         IN  /\ i \in Ids /\ created[i] = 0 /\ created'[i] = 1 /\ phase'[i] = "created"
             /\ statuses[i] = "requested" /\ i \notin tracked
             /\ \A q \in Ids : q # i => created'[q] = created[q] /\ phase'[q] = phase[q]
             /\ StageOf(i) = "asked" /\ PhaseOfRun'
             /\ confirmedBar' = confirmedBar
             /\ (\A q \in starts \cup moved : q # i)
  <1>0. PICK i : i = loop.entry.id
    OBVIOUS
  <1>1. i \in Ids
    BY <1>0, EntryId DEF IInv
  <1>2. CreateRun(i) /\ created[i] = 0 /\ statuses[i] = "requested"
    BY <1>0 DEF IInv, NoRunYet, RInv, HandHolds
  <1>3. /\ created \in [Ids -> Nat]
        /\ phase \in [Ids -> {"none", "created", "confirmed", "reported"}]
    BY DEF IInv, TypeOK
  <1>4. /\ created'[i] = 1 /\ phase'[i] = "created" /\ phase[i] = "none" /\ i \notin tracked
        /\ \A q \in Ids : q # i => created'[q] = created[q] /\ phase'[q] = phase[q]
    BY <1>1, <1>2, <1>3 DEF CreateRun, RInv, PhaseOfRun, HandHolds
  <1>5. PhaseOfRun'
    BY <1>4 DEF RInv, PhaseOfRun
  <1>6. confirmedBar' = confirmedBar
    BY <1>4 DEF confirmedBar
  <1>7. StageOf(i) = "asked"
    BY <1>2 DEF StageOf, Pending
  <1>8. \A q \in starts \cup moved : q # i
    BY <1>4 DEF RInv, StartsReported
  <1> QED
    BY <1>0, <1>1, <1>2, <1>4, <1>5, <1>6, <1>7, <1>8

LEMMA CreateMaps ==
  ASSUME IInv, RInv, CreateDone
  PROVE  RInv' /\ Dispatching!Make(loop.entry.id)
  <1>0. PICK i : i = loop.entry.id
    OBVIOUS
  <1>1. /\ i \in Ids /\ created[i] = 0 /\ created'[i] = 1 /\ phase'[i] = "created"
        /\ i \notin tracked
        /\ \A q \in Ids : q # i => created'[q] = created[q] /\ phase'[q] = phase[q]
        /\ StageOf(i) = "asked" /\ PhaseOfRun' /\ confirmedBar' = confirmedBar
        /\ \A q \in starts \cup moved : q # i
    BY <1>0, CreatedFacts DEF CreateDone
  <1>2. /\ loop.at = "create" /\ statuses' = [statuses EXCEPT ![i] = "initialized"]
        /\ loop'.at = "stop" /\ loop'.entry.id = i /\ UNCHANGED <<tracked, starts, moved>>
    BY <1>0 DEF CreateDone, SetStatus, taskVars, IInv, TypeOK, Loop
  <1>3. /\ statuses'[i] = "initialized"
        /\ \A q \in Ids : q # i => statuses'[q] = statuses[q]
    BY <1>1, <1>2 DEF IInv, TypeOK
  <1>4. RequestedInHand'
    BY <1>0, <1>1, <1>2, <1>3 DEF RInv, RequestedInHand
  <1>5. HandHolds'
    BY <1>1, <1>2, <1>3 DEF RInv, HandHolds
  <1>6. StartsReported'
    <2>1. starts \subseteq Ids /\ moved \subseteq Ids
      BY DEF IInv, TypeOK
    <2> QED
      BY <1>1, <1>2, <2>1 DEF RInv, StartsReported
  <1>7. StageOf(i)' = "made"
    BY <1>1, <1>2 DEF StageOf
  <1>8. \A q \in Ids : q # i => SameEntry(q)
    BY <1>1, <1>2, <1>3 DEF SameEntry
  <1>9. Dispatching!Turn(i, "asked", "made")
    BY <1>1, <1>7, <1>8, TurnMaps
  <1> QED
    BY <1>0, <1>1, <1>4, <1>5, <1>6, <1>9 DEF RInv, Dispatching!Make

\* The request is refused: the entry ends without a run.
LEMMA RefuseMaps ==
  ASSUME IInv, RInv, CreateRefused
  PROVE  RInv' /\ Dispatching!Refuse(loop.entry.id)
  <1>0. PICK i : i = loop.entry.id
    OBVIOUS
  <1>1. /\ i \in Ids /\ loop.at = "create" /\ created[i] = 0 /\ statuses[i] = "requested"
        /\ statuses' = [statuses EXCEPT ![i] = "failed"] /\ loop'.at = "ready"
        /\ UNCHANGED <<created, phase, tracked, starts, moved>>
    BY <1>0, EntryId DEF CreateRefused, SetStatus, Return, databusVars, taskVars, IInv, TypeOK, Loop,
                   NoRunYet, RInv, HandHolds
  <1>2. \A q \in Ids : created[q] = 0 /\ statuses[q] = "requested" => q = i
    BY <1>1 DEF RInv, RequestedInHand
  <1>3. /\ statuses'[i] = "failed"
        /\ \A q \in Ids : q # i => statuses'[q] = statuses[q]
    BY <1>1 DEF IInv, TypeOK
  <1>4. PhaseOfRun' /\ StartsReported'
    BY <1>1 DEF RInv, PhaseOfRun, StartsReported
  <1>5. RequestedInHand'
    BY <1>1, <1>2, <1>3 DEF RequestedInHand
  <1>6. HandHolds'
    BY <1>1, <1>3 DEF RInv, HandHolds
  <1>7. StageOf(i) = "asked" /\ StageOf(i)' = "refused"
    BY <1>1, <1>3 DEF StageOf, Pending
  <1>8. \A q \in Ids : q # i => SameEntry(q)
    BY <1>1, <1>3 DEF SameEntry
  <1>9. confirmedBar' = confirmedBar
    BY <1>1 DEF confirmedBar
  <1>10. Dispatching!Turn(i, "asked", "refused")
    BY <1>1, <1>7, <1>8, <1>9, TurnMaps
  <1> QED
    BY <1>0, <1>4, <1>5, <1>6, <1>10 DEF RInv, Dispatching!Refuse

\* The loop dies of the answer, with the run made or not.
LEMMA BreakMaps ==
  ASSUME IInv, RInv, CreateBreaks
  PROVE  RInv' /\ (Dispatching!Make(loop.entry.id) \/ UNCHANGED Dispatching!vars)
  <1>0. PICK i : i = loop.entry.id
    OBVIOUS
  <1>1. /\ loop.at = "create" /\ loop'.at = "dead"
        /\ UNCHANGED <<statuses, tracked, starts, moved>>
        /\ UNCHANGED <<created, phase>> \/ CreateRun(i)
    BY <1>0 DEF CreateBreaks, databusVars, taskVars, IInv, TypeOK, Loop
  <1>2. RequestedInHand'
    BY <1>1 DEF RequestedInHand
  <1>3. CASE UNCHANGED <<created, phase>>
    <2>1. PhaseOfRun' /\ HandHolds' /\ StartsReported'
      BY <1>1, <1>3 DEF RInv, PhaseOfRun, HandHolds, StartsReported
    <2>2. (\A q \in Ids : SameEntry(q)) /\ confirmedBar' = confirmedBar
      BY <1>1, <1>3 DEF SameEntry, confirmedBar
    <2> QED
      BY <1>2, <2>1, <2>2, StayMaps DEF RInv
  <1>4. CASE CreateRun(i)
    <2>1. /\ i \in Ids /\ created[i] = 0 /\ created'[i] = 1 /\ i \notin tracked
          /\ \A q \in Ids : q # i => created'[q] = created[q] /\ phase'[q] = phase[q]
          /\ StageOf(i) = "asked" /\ PhaseOfRun' /\ confirmedBar' = confirmedBar
          /\ \A q \in starts \cup moved : q # i
      BY <1>0, <1>1, <1>4, CreatedFacts
    <2>2. HandHolds'
      BY <1>1, <2>1 DEF RInv, HandHolds
    <2>3. StartsReported'
      <3>1. starts \subseteq Ids /\ moved \subseteq Ids
        BY DEF IInv, TypeOK
      <3> QED
        BY <1>1, <2>1, <3>1 DEF RInv, StartsReported
    <2>4. StageOf(i)' = "made"
      BY <1>1, <2>1 DEF StageOf
    <2>5. \A q \in Ids : q # i => SameEntry(q)
      BY <1>1, <2>1 DEF SameEntry
    <2>6. Dispatching!Turn(i, "asked", "made")
      BY <2>1, <2>4, <2>5, TurnMaps
    <2> QED
      BY <1>0, <1>2, <2>1, <2>2, <2>3, <2>6 DEF RInv, Dispatching!Make
  <1> QED
    BY <1>0, <1>1, <1>3, <1>4

\* The run goes to the binder.
LEMMA TrackMaps ==
  ASSUME IInv, RInv, DispatchTrack
  PROVE  RInv' /\ Dispatching!Track(loop.entry.id)
  <1>0. PICK i : i = loop.entry.id
    OBVIOUS
  <1>1. /\ i \in Ids /\ loop.at = "stop" /\ created[i] = 1 /\ i \notin tracked
        /\ tracked' = tracked \cup {i} /\ loop'.at = "ready"
        /\ UNCHANGED <<statuses, created, phase, starts, moved>>
    BY <1>0, EntryId DEF DispatchTrack, Return, databusVars, IInv, TypeOK, Loop, RInv, HandHolds
  <1>2. i \notin moved
    BY <1>1 DEF RInv, StartsReported
  <1>3. PhaseOfRun' /\ RequestedInHand' /\ StartsReported'
    BY <1>1 DEF RInv, PhaseOfRun, RequestedInHand, StartsReported
  <1>4. HandHolds'
    BY <1>1 DEF RInv, HandHolds
  <1>5. StageOf(i) = "made" /\ StageOf(i)' = "tracked"
    BY <1>1, <1>2 DEF StageOf
  <1>6. \A q \in Ids : q # i => SameEntry(q)
    BY <1>1 DEF SameEntry
  <1>7. confirmedBar' = confirmedBar
    BY <1>1 DEF confirmedBar
  <1>8. Dispatching!Turn(i, "made", "tracked")
    BY <1>1, <1>5, <1>6, <1>7, TurnMaps
  <1> QED
    BY <1>0, <1>3, <1>4, <1>8 DEF RInv, Dispatching!Track

\* A run that is confirmed was created, and no vehicle was set off for it yet.
LEMMA ConfirmedMaps ==
  ASSUME IInv, RInv, NEW id \in Ids, AutoConfirm(id) \/ OperatorConfirm(id)
  PROVE  RInv' /\ (Dispatching!Confirm(id) \/ UNCHANGED Dispatching!vars)
  <1>1. /\ UNCHANGED <<statuses, loop, created, tracked, starts, moved>>
        /\ \/ UNCHANGED phase
           \/ phase[id] = "created" /\ phase' = [phase EXCEPT ![id] = "confirmed"]
    BY DEF AutoConfirm, OperatorConfirm, taskVars
  <1>2. RequestedInHand' /\ HandHolds'
    BY <1>1 DEF RInv, RequestedInHand, HandHolds
  <1>3. \A q \in Ids : SameEntry(q)
    BY <1>1 DEF SameEntry
  <1>4. CASE UNCHANGED phase
    <2>1. PhaseOfRun' /\ StartsReported' /\ confirmedBar' = confirmedBar
      BY <1>1, <1>4 DEF RInv, PhaseOfRun, StartsReported, confirmedBar
    <2> QED
      BY <1>2, <1>3, <2>1, StayMaps DEF RInv
  <1>5. CASE phase[id] = "created" /\ phase' = [phase EXCEPT ![id] = "confirmed"]
    <2>1. /\ phase'[id] = "confirmed"
          /\ \A q \in Ids : q # id => phase'[q] = phase[q]
      BY <1>5 DEF IInv, TypeOK
    <2>2. PhaseOfRun'
      BY <1>1, <1>5, <2>1 DEF RInv, PhaseOfRun
    <2>3. starts \subseteq Ids /\ moved \subseteq Ids /\ id \notin starts \cup moved
      BY <1>5 DEF IInv, TypeOK, RInv, StartsReported
    <2>4. StartsReported'
      BY <1>1, <2>1, <2>3 DEF RInv, StartsReported
    <2>5. confirmedBar' = confirmedBar \cup {id}
      BY <2>1 DEF confirmedBar
    <2>6. created[id] = 1
      BY <1>5 DEF RInv, PhaseOfRun, IInv, AtMostOneRun, TypeOK
    <2>7. StageOf(id) \in {"made", "tracked"}
      BY <2>3, <2>6 DEF StageOf
    <2> QED
      BY <1>2, <1>3, <2>2, <2>4, <2>5, <2>7, ConfirmMaps DEF RInv
  <1> QED
    BY <1>1, <1>4, <1>5

\* The binder reports a confirmed run: its closure, if there is one, starts the delay.
LEMMA ReportMaps ==
  ASSUME IInv, RInv, NEW id \in Ids, BinderReports(id)
  PROVE  RInv' /\ UNCHANGED Dispatching!vars
  <1>1. /\ UNCHANGED <<statuses, loop, created, tracked, moved>>
        /\ id \in tracked /\ phase[id] = "confirmed"
        /\ starts' = starts \cup ({id} \cap watched)
    BY DEF BinderReports
  <1>2. /\ phase'[id] = "reported"
        /\ \A q \in Ids : q # id => phase'[q] = phase[q]
    BY DEF BinderReports, IInv, TypeOK
  <1>3. RequestedInHand' /\ HandHolds' /\ PhaseOfRun'
    BY <1>1, <1>2 DEF RInv, RequestedInHand, HandHolds, PhaseOfRun
  <1>4. StartsReported'
    <2>1. starts \subseteq Ids /\ moved \subseteq Ids
      BY DEF IInv, TypeOK
    <2> QED
      BY <1>1, <1>2, <2>1 DEF RInv, StartsReported
  <1>5. (\A q \in Ids : SameEntry(q)) /\ confirmedBar' = confirmedBar
    BY <1>1, <1>2 DEF SameEntry, confirmedBar
  <1> QED
    BY <1>3, <1>4, <1>5, StayMaps DEF RInv

\* A run tracked anew is reported once more: it may be set off again.
LEMMA RepeatMaps ==
  ASSUME IInv, RInv, NEW id \in Ids, BinderRepeats(id)
  PROVE  RInv' /\ UNCHANGED Dispatching!vars
  <1>1. /\ UNCHANGED <<statuses, loop, created, phase, tracked, moved>>
        /\ id \in tracked /\ phase[id] = "reported"
        /\ starts' = starts \cup ({id} \cap watched)
    BY DEF BinderRepeats, databusVars
  <1>2. RInv'
    BY <1>1 DEF RInv, RequestedInHand, HandHolds, PhaseOfRun, StartsReported
  <1>3. (\A q \in Ids : SameEntry(q)) /\ confirmedBar' = confirmedBar
    BY <1>1 DEF SameEntry, confirmedBar
  <1> QED
    BY <1>2, <1>3, StayMaps

\* The delay is over: the run is with the binder and confirmed.
LEMMA StartMaps ==
  ASSUME IInv, RInv, NEW id \in Ids, StartMotion(id)
  PROVE  RInv' /\ (Dispatching!SetOff(id) \/ UNCHANGED Dispatching!vars)
  <1>1. /\ UNCHANGED <<statuses, loop, created, phase, tracked>>
        /\ id \in starts /\ starts' = starts \ {id} /\ moved' = moved \cup {id}
    BY DEF StartMotion, databusVars
  <1>2. id \in tracked /\ phase[id] = "reported" /\ created[id] = 1
    <2>1. id \in tracked /\ phase[id] = "reported"
      BY <1>1 DEF RInv, StartsReported
    <2>2. created[id] # 0
      BY <2>1 DEF RInv, PhaseOfRun
    <2>3. created[id] \in Nat /\ created[id] <= 1
      BY DEF IInv, AtMostOneRun, TypeOK
    <2> QED
      BY <2>1, <2>2, <2>3
  <1>3. RInv'
    BY <1>1 DEF RInv, RequestedInHand, HandHolds, PhaseOfRun, StartsReported
  <1>4. confirmedBar' = confirmedBar /\ id \in confirmedBar
    BY <1>1, <1>2 DEF confirmedBar
  <1>5. \A q \in Ids : q # id => SameEntry(q)
    BY <1>1 DEF SameEntry
  <1>6. CASE id \in moved
    <2>1. SameEntry(id)
      BY <1>1, <1>6 DEF SameEntry
    <2> QED
      BY <1>3, <1>4, <1>5, <2>1, StayMaps
  <1>7. CASE id \notin moved
    <2>1. StageOf(id) = "tracked" /\ StageOf(id)' = "off"
      BY <1>1, <1>2, <1>7 DEF StageOf
    <2>2. Dispatching!Turn(id, "tracked", "off")
      BY <1>4, <1>5, <2>1, TurnMaps
    <2> QED
      BY <1>3, <1>4, <2>2 DEF Dispatching!SetOff, confirmedBar
  <1> QED
    BY <1>6, <1>7

LEMMA DispatchInit == Init => RInv /\ Dispatching!Init
  <1> SUFFICES ASSUME Init PROVE RInv /\ Dispatching!Init
    OBVIOUS
  <1>1. RInv
    BY DEF Init, RInv, PhaseOfRun, RequestedInHand, HandHolds, StartsReported
  <1>2. \A id \in Ids : StageOf(id) = "waiting"
    BY DEF Init, StageOf, Pending
  <1> QED
    BY <1>1, <1>2 DEF Init, Dispatching!Init

LEMMA DispatchStepMaps ==
  IInv /\ RInv /\ [Next]_vars => RInv' /\ [Dispatching!Next]_(Dispatching!vars)
  <1> SUFFICES ASSUME IInv, RInv, [Next]_vars
               PROVE  RInv' /\ [Dispatching!Next]_(Dispatching!vars)
    OBVIOUS
  <1>0. TypeOK /\ (loop.at \in {"create", "stop"} => loop.entry.id \in Ids)
    BY EntryId DEF IInv
  <1>1. CASE Elsewhere
    BY <1>1, ElsewhereMaps
  <1>2. ASSUME NEW e \in Entries, DispatchCreate(e) \/ DispatchDies(e)
        PROVE  RInv' /\ Dispatching!Next
    <2>1. e.id \in Ids
      BY SchedulerAssumption DEF Entry
    <2> QED
      BY <1>2, <2>1, AskMaps DEF Dispatching!Next
  <1>3. CASE CreateDone \/ CreateRefused \/ CreateBreaks \/ DispatchTrack
    <2>1. loop.entry.id \in Ids
      BY <1>0, <1>3 DEF CreateDone, CreateRefused, CreateBreaks, DispatchTrack
    <2> QED
      BY <1>3, <2>1, CreateMaps, RefuseMaps, BreakMaps, TrackMaps DEF Dispatching!Next
  <1>4. ASSUME NEW id \in Ids,
               \/ AutoConfirm(id) \/ OperatorConfirm(id)
               \/ BinderReports(id) \/ BinderRepeats(id) \/ StartMotion(id)
        PROVE  RInv' /\ [Dispatching!Next]_(Dispatching!vars)
    BY <1>4, ConfirmedMaps, ReportMaps, RepeatMaps, StartMaps DEF Dispatching!Next
  <1> QED
    BY <1>0, <1>1, <1>2, <1>3, <1>4, ElsewhereSteps DEF Next, LoopStep

\* The scheduler implements the abstract dispatch of its entries, for any schedule,
\* documents, requests and faults: each id is asked for once, one at a time, and gets one
\* run or none; a vehicle is set off only for a run that is tracked and confirmed.
THEOREM DispatchRefined == Spec => ImplementsDispatch
  <1> QED
    BY DispatchInit, DispatchStepMaps, Invariance, PTL
       DEF Spec, ImplementsDispatch, Dispatching!Spec
===============================================================================

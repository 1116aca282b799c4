-------------------------------- MODULE Browser --------------------------------
(***************************************************************************)
(* The run list and the operator's requests in one browser:                *)
(* static/tabs/runs.js, static/tabs/operator.js and the part of            *)
(* static/app.js that mounts them and notifies them.                       *)
(*                                                                         *)
(* JavaScript runs one callback at a time, so a step is what happens up to *)
(* the next await.  A request goes to databus and comes back in two more   *)
(* steps; requests overlap (the interval of a poll is 2 s, the simulator   *)
(* waits 5 s for databus), come back in any order, and outlive the tab     *)
(* that sent them, since neither unmount nor clearInterval aborts a fetch. *)
(* Of a recent run only its recorded state is kept; modals, chips and      *)
(* history panels are left out.                                            *)
(***************************************************************************)
EXTENDS Databus, Naturals, FiniteSets

CONSTANTS
  Absent,      \* a run that is not in localStorage
  Clearings,   \* the calls of clearCompleted that may be under way at once
  NoClear,     \* such a call is not under way
  MaxInFlight, \* bound on the requests in flight
  MaxClicks    \* bound on what the user does

VARIABLES
  recents,     \* localStorage.simovi_recentRuns: run -> recorded state
  tab,         \* the tab shown
  watching,    \* how often runs.js is subscribed to the store
  fleet,       \* bound_run_id of the store's fleet
  states,      \* _states of runs.js
  polling,     \* _polls of runs.js
  pendingPolls,\* _polls of operator.js
  requests,    \* requests in flight
  clear,       \* locals of each call of clearCompleted while it awaits its checks
  denied,      \* history: the runs of which a check of that call was answered 404
  clicks       \* what the user did so far (only to bound it)

pageVars == <<tab, watching, fleet>>
listVars == <<states, polling, pendingPolls>>
clearVars == <<clear, denied>>
vars == <<db, recents, pageVars, listVars, requests, clearVars, clicks>>

TERMINAL_STATES == CLOSED_STATES
PENDING_STATES == {"Initialized", "Confirmed"}

\* "poll" is getRun of runs.js, "pending" getRun of operator.js, and a check of
\* clearCompleted has the call for its kind; the rest are the operator's events.
Repeats == {"poll", "pending"}
Events == {"create", "confirm", "reject", "stop"}
Kinds == Repeats \cup Clearings \cup Events
Asked == "asked"

\* An answer with fields of the run, but no state among them (views.py:132-139).
Blank == "blank"
Requests ==
  [kind : Kinds, run : Runs, reply : {Asked, NoState, Raised, Blank} \cup LifecycleStates]

\* What clearCompleted holds while it awaits: the records it read, the runs whose checks
\* are not back, and those to keep.
Records == LifecycleStates \cup {NoState, Absent}
Clears == [runs : [Runs -> Records], open : SUBSET Runs, kept : SUBSET Runs]

ASSUME BrowserAssumption ==
  /\ Absent \notin LifecycleStates \cup {NoState} /\ NoClear \notin Clears
  /\ Clearings \cap (Repeats \cup Events) = {}
  /\ MaxInFlight \in Nat /\ MaxClicks \in Nat

\* A record holds a state of a run or none (what operator.js makes of an answer without
\* a state), and the list of runs.js knows only states of runs.
BrowserTypeOK ==
  /\ DbType
  /\ recents \in [Runs -> Records]
  /\ tab \in {"fleet", "operator", "runs"} /\ watching \in 0 .. MaxClicks
  /\ fleet \subseteq Runs /\ polling \subseteq Runs /\ pendingPolls \subseteq Runs
  /\ states \in [Runs -> LifecycleStates \cup {NoState}]
  /\ requests \subseteq Requests
  /\ clear \in [Clearings -> Clears \cup {NoClear}]
  /\ denied \in [Clearings -> SUBSET Runs]
  /\ clicks \in 0 .. MaxClicks

\* Some runs may have been requested on an earlier page.
Init ==
  /\ \E old \in SUBSET Runs :
       /\ db = [r \in Runs |-> IF r \in old THEN "Initialized" ELSE "new"]
       /\ recents = [r \in Runs |-> IF r \in old THEN "Initialized" ELSE Absent]
  /\ tab = "fleet" /\ watching = 0 /\ fleet = {}
  /\ states = [r \in Runs |-> NoState] /\ polling = {} /\ pendingPolls = {}
  /\ requests = {} /\ clicks = 0
  /\ clear = [i \in Clearings |-> NoClear] /\ denied = [i \in Clearings |-> {}]
-----------------------------------------------------------------------------
Recorded == {r \in Runs : recents[r] # Absent}
Listed(r) == recents[r] # Absent \/ r \in fleet

\* Until it is polled, a run that only the fleet lists shows the label of its vehicle;
\* that is never a terminal state, and stands here as Absent.
Chip(r) == IF states[r] # NoState THEN states[r] ELSE recents[r]

\* renderPendingList and startPollingAll take a record without a state for Initialized.
Pending(r) == recents[r] \in PENDING_STATES \cup {NoState}

\* updateRecentRunState.
UpdateRecent(r, s) ==
  recents' = IF recents[r] = Absent THEN recents ELSE [recents EXCEPT ![r] = s]

\* buildRunList once records, states and fleet are as given: every run it lists is
\* polled from now on, unless it is shown as over.
BuildRunList(rs, ss, f, ps) ==
  polling' = ps \cup {r \in Runs : (rs[r] # Absent \/ r \in f) /\ ss[r] \notin TERMINAL_STATES}

Send(kind, R) ==
  LET new == {[kind |-> kind, run |-> r, reply |-> Asked] : r \in R}
  IN /\ Cardinality(requests \cup new) <= MaxInFlight
     /\ requests' = requests \cup new

Click == clicks < MaxClicks /\ clicks' = clicks + 1
-----------------------------------------------------------------------------
\* The tab that is left: unmount.  Leaving runs.js ends its last subscription only.
Left(t) ==
  IF t = "runs" THEN [watching |-> watching - 1, polling |-> {}, pending |-> pendingPolls,
                      states |-> [r \in Runs |-> NoState]]
  ELSE [watching |-> watching, polling |-> polling, states |-> states,
        pending |-> IF t = "operator" THEN {} ELSE pendingPolls]

\* switchTab: a click on the tab already shown mounts it again without unmounting it.
SwitchTab(t) ==
  LET left == IF t = tab
              THEN [watching |-> watching, polling |-> polling, states |-> states,
                    pending |-> pendingPolls]
              ELSE Left(tab)
  IN /\ Click
     /\ tab' = t
     /\ states' = left.states
     /\ watching' = left.watching + (IF t = "runs" THEN 1 ELSE 0)
     /\ IF t = "runs" THEN BuildRunList(recents, left.states, fleet, left.polling)
        ELSE polling' = left.polling
     /\ pendingPolls' = left.pending \cup
          (IF t = "operator" THEN {r \in Runs : Pending(r)} ELSE {})
     /\ UNCHANGED <<db, recents, fleet, requests, clearVars>>

\* The page is loaded again: only localStorage survives.
Reload ==
  /\ Click
  /\ tab' = "fleet" /\ watching' = 0 /\ fleet' = {}
  /\ states' = [r \in Runs |-> NoState] /\ polling' = {} /\ pendingPolls' = {}
  /\ requests' = {}
  /\ clear' = [i \in Clearings |-> NoClear] /\ denied' = [i \in Clearings |-> {}]
  /\ UNCHANGED <<db, recents>>

\* A message of the server changes the store.  The binder keeps confirmed and running
\* runs on vehicles; a message that is not of the fleet leaves it as it was.
Carried == {r \in Runs : db[r] \in {"Confirmed"} \cup RUNNING_STATES}

\* Mutant: the list is drawn again, and nothing polled.
DrawAgain ==
  \E f \in {fleet, Carried} :
    /\ fleet' = f
    /\ UNCHANGED <<db, recents, tab, watching, listVars, requests, clearVars, clicks>>

Notify ==
  \E f \in {fleet, Carried} :
    /\ fleet' = f
    /\ IF watching > 0 THEN BuildRunList(recents, states, f, polling)
       ELSE UNCHANGED polling
    /\ UNCHANGED <<db, recents, tab, watching, states, pendingPolls, requests, clearVars, clicks>>

\* The intervals of startPolling, in runs.js and in operator.js.
Poll(r) ==
  /\ r \in polling /\ Send("poll", {r})
  /\ UNCHANGED <<db, recents, pageVars, listVars, clearVars, clicks>>

PollPending(r) ==
  /\ r \in pendingPolls /\ Send("pending", {r})
  /\ UNCHANGED <<db, recents, pageVars, listVars, clearVars, clicks>>

\* The buttons of both tabs, where they are shown.
Offered(e, r) ==
  CASE e = "create" -> tab = "operator" /\ db[r] = "new"
    [] e \in {"confirm", "reject"} -> tab = "operator" /\ Pending(r)
    [] e = "stop" -> tab = "runs" /\ Listed(r) /\ Chip(r) \notin TERMINAL_STATES

SendEvent(e, r) ==
  /\ Click /\ Offered(e, r) /\ Send(e, {r})
  /\ UNCHANGED <<db, recents, pageVars, listVars, clearVars>>
-----------------------------------------------------------------------------
Reply(q, s) == requests' = (requests \ {q}) \cup {[q EXCEPT !.reply = s]}

\* What the callback makes of an answer: a poll of runs.js takes every failure and an
\* answer without a state alike, one of operator.js every failure.
Heard(kind, s) ==
  IF \/ kind = "poll" /\ s \in {Raised, Blank}
     \/ kind = "pending" /\ s = Raised
  THEN NoState ELSE s

\* run_detail_view: 404 for everything get_run_hash could not read, and an answer without
\* a state when databus sends fields only.
Serve(q) ==
  /\ q.kind \notin Events /\ q.reply = Asked
  /\ \E s \in Replies(q.run) \cup {Blank} :
       /\ Reply(q, Heard(q.kind, s))
       /\ denied' = [i \in Clearings |-> IF i = q.kind /\ s = NoState
                                         THEN denied[i] \cup {q.run} ELSE denied[i]]
  /\ UNCHANGED <<db, recents, pageVars, listVars, clear, clicks>>

\* create-run and update of a run: databus applies the event and answers with the new
\* state, or refuses.
EventStep(e, r) ==
  CASE e = "create" -> DbCreate(r)
    [] e = "confirm" -> DbConfirm(r)
    [] e = "reject" -> db[r] = "Initialized" /\ DbClose(r, "Cancelled")
    [] e = "stop" -> \E s \in DbClosing : DbClose(r, s)

Apply(q) ==
  /\ q.kind \in Events /\ q.reply = Asked
  /\ EventStep(q.kind, q.run) /\ Reply(q, db'[q.run])
  /\ UNCHANGED <<recents, pageVars, listVars, clearVars, clicks>>

Refuse(q) ==
  /\ q.kind \in Events /\ q.reply = Asked
  /\ requests' = requests \ {q}
  /\ UNCHANGED <<db, recents, pageVars, listVars, clearVars, clicks>>
-----------------------------------------------------------------------------
Arrive(q) == q.reply # Asked /\ requests' = requests \ {q}
Failed(q) == q.reply \in {NoState, Raised}
Stated(q) == q.reply \in LifecycleStates

\* Mutant: a poll goes on for ever.
NeverStops(q) ==
  /\ q.kind = "poll" /\ Arrive(q)
  /\ IF ~ Stated(q) THEN UNCHANGED <<recents, states>>
     ELSE states' = [states EXCEPT ![q.run] = q.reply] /\ UpdateRecent(q.run, q.reply)
  /\ UNCHANGED <<db, pageVars, polling, pendingPolls, clearVars, clicks>>

\* A poll of runs.js that fails or brings no state changes nothing; another sets the
\* state, mounted or not, and ends with the run.
PollAnswered(q) ==
  /\ q.kind = "poll" /\ Arrive(q)
  /\ IF ~ Stated(q) THEN UNCHANGED <<recents, states, polling>>
     ELSE /\ states' = [states EXCEPT ![q.run] = q.reply]
          /\ UpdateRecent(q.run, q.reply)
          /\ polling' = IF q.reply \in TERMINAL_STATES THEN polling \ {q.run} ELSE polling
  /\ UNCHANGED <<db, pageVars, pendingPolls, clearVars, clicks>>

\* A poll of operator.js that fails changes nothing; another is recorded, the missing
\* state of an answer without one too, and ends the polling unless it says pending.
PendingAnswered(q) ==
  /\ q.kind = "pending" /\ Arrive(q)
  /\ IF Failed(q) THEN UNCHANGED <<recents, pendingPolls>>
     ELSE /\ UpdateRecent(q.run, IF Stated(q) THEN q.reply ELSE NoState)
          /\ pendingPolls' = IF q.reply \in PENDING_STATES THEN pendingPolls
                             ELSE pendingPolls \ {q.run}
  /\ UNCHANGED <<db, pageVars, states, polling, clearVars, clicks>>

\* handleRequestRun: the run is recorded as Initialized and polled, whatever became of
\* it or of the tab in the meantime.
RunRequested(q) ==
  /\ q.kind = "create" /\ Arrive(q)
  /\ recents' = IF recents[q.run] = Absent
                THEN [recents EXCEPT ![q.run] = "Initialized"] ELSE recents
  /\ pendingPolls' = pendingPolls \cup {q.run}
  /\ UNCHANGED <<db, pageVars, states, polling, clearVars, clicks>>

\* Mutant: the event is recorded for the state it led to.
RecordsEvent(q) ==
  /\ q.kind \in {"confirm", "reject"} /\ Arrive(q)
  /\ UpdateRecent(q.run, q.kind)
  /\ UNCHANGED <<db, pageVars, listVars, clearVars, clicks>>

\* handleUpdateRun.
RunUpdated(q) ==
  /\ q.kind \in {"confirm", "reject"} /\ Arrive(q)
  /\ UpdateRecent(q.run, q.reply)
  /\ UNCHANGED <<db, pageVars, listVars, clearVars, clicks>>

\* sendRunEvent: builds the list even when the tab is gone.
RunStopped(q) ==
  /\ q.kind = "stop" /\ Arrive(q)
  /\ states' = [states EXCEPT ![q.run] = q.reply]
  /\ UpdateRecent(q.run, q.reply)
  /\ BuildRunList(recents, states', fleet, polling)
  /\ UNCHANGED <<db, pageVars, pendingPolls, clearVars, clicks>>

\* The end of clearCompleted: the records it read at its start, without those it
\* drops, replace the records of now.
Finish(i, c) ==
  LET dropped == {r \in Runs : c.runs[r] # Absent} \ c.kept
      left == [r \in Runs |-> IF r \in dropped THEN NoState ELSE states[r]]
  IN /\ recents' = [r \in Runs |-> IF r \in c.kept THEN c.runs[r] ELSE Absent]
     /\ states' = left
     /\ BuildRunList(recents', left, fleet, polling \ dropped)
     /\ clear' = [clear EXCEPT ![i] = NoClear] /\ denied' = [denied EXCEPT ![i] = {}]

\* It goes on when all its checks are back.
GoOn(i, c) ==
  IF c.open = {} THEN Finish(i, c)
  ELSE clear' = [clear EXCEPT ![i] = c] /\ UNCHANGED <<recents, states, polling, denied>>

\* It asks for every run that is not recorded as over.  A second click starts a second
\* call beside the first.
ClearCompleted(i) ==
  LET open == {r \in Recorded : recents[r] \notin TERMINAL_STATES}
  IN /\ tab = "runs" /\ clear[i] = NoClear /\ Click /\ Send(i, open)
     /\ GoOn(i, [runs |-> recents, open |-> open, kept |-> {}])
     /\ UNCHANGED <<db, pageVars, pendingPolls>>

\* What call i holds once the check of q is back, and its run kept or not.
Checked(i, q, keep) ==
  [clear[i] EXCEPT !.open = @ \ {q.run}, !.kept = IF keep THEN @ \cup {q.run} ELSE @]

\* Mutant: any failure drops the run.
DropsOnFailure(q) ==
  /\ q.kind \in Clearings /\ Arrive(q)
  /\ GoOn(q.kind, Checked(q.kind, q, ~ Failed(q)))
  /\ UNCHANGED <<db, pageVars, pendingPolls, clicks>>

\* Only a 404 drops the run; another failure keeps it.
CheckAnswered(q) ==
  /\ q.kind \in Clearings /\ Arrive(q)
  /\ GoOn(q.kind, Checked(q.kind, q, q.reply # NoState))
  /\ UNCHANGED <<db, pageVars, pendingPolls, clicks>>
-----------------------------------------------------------------------------
\* Everybody else: dispatchers, auto-confirm, telemetry, a restart of databus.
DatabusStep(r) ==
  /\ \/ DbConfirm(r)
     \/ \E s \in DbRunning : DbAdvance(r, s)
     \/ \E s \in DbClosing : DbClose(r, s)
     \/ DbLose(r)
  /\ UNCHANGED <<recents, pageVars, listVars, requests, clearVars, clicks>>

Answered(q) ==
  PollAnswered(q) \/ PendingAnswered(q) \/ RunRequested(q) \/ RunUpdated(q)
    \/ RunStopped(q) \/ CheckAnswered(q)

Next ==
  \/ \E t \in {"fleet", "operator", "runs"} : SwitchTab(t)
  \/ Reload \/ Notify \/ \E i \in Clearings : ClearCompleted(i)
  \/ \E r \in Runs : Poll(r) \/ PollPending(r) \/ DatabusStep(r)
                       \/ \E e \in Events : SendEvent(e, r)
  \/ \E q \in requests : Serve(q) \/ Apply(q) \/ Refuse(q) \/ Answered(q)

Spec == Init /\ [][Next]_vars

\* Messages keep coming, intervals fire, every request is answered in the end and one
\* repeated for ever is answered by databus in the end.
Understood(q) == Serve(q) /\ Reply(q, db[q.run])
FairSpec ==
  /\ Spec
  /\ WF_vars(Notify)
  /\ \A r \in Runs : SF_vars(Poll(r)) /\ SF_vars(PollPending(r))
  /\ WF_vars(\E q \in requests : Serve(q) \/ Apply(q) \/ Refuse(q) \/ Answered(q))
  /\ \A r \in Runs, k \in Repeats :
       /\ SF_vars(\E q \in requests : q.kind = k /\ q.run = r /\ Understood(q))
       /\ SF_vars(\E q \in requests : q.kind = k /\ q.run = r /\ Stated(q) /\ Answered(q))
-----------------------------------------------------------------------------
\* Call i of clearCompleted ends here, and it is no wonder that r goes with it: it had
\* not read the record of r, or was told by a 404 that databus has no such run.
Excused(i, r) ==
  /\ clear[i] # NoClear /\ clear'[i] = NoClear
  /\ clear[i].runs[r] = Absent \/ r \in denied[i]

\* However answers, clears, tabs and reloads overlap, the record of a run that is not over
\* leaves localStorage only where clearCompleted was told so, by a 404, or never saw it
\* (runs.js:319-320).  That a 404 need not mean what it says is the failed request of
\* databus_client.py:198-212.
DropsExcused ==
  \A r \in Recorded : recents'[r] # Absent \/ Ended(r) \/ \E i \in Clearings : Excused(i, r)
OnlyEndedCleared == [][DropsExcused]_vars

\* An answer may overtake a later one, end the polling of a run, and leave an older
\* state on its chip; with the list in view and databus settled, the chip of a listed
\* run nevertheless comes to show the state databus has, and stays.
ChipSettles ==
  \A r \in Runs :
    \/ []<>(tab # "runs" \/ ~Listed(r))
    \/ []<>(db[r] \notin LifecycleStates)
    \/ <>[](Chip(r) = db[r])

\* Whatever subscription, list or answer starts polling it again, a run that has
\* ended is not polled for ever by either tab, shown or not, as long as databus
\* remembers it.  One it forgets before its end was heard of is: neither tab stops on a 404
\* (runs.js:271-276, operator.js:206).
PollingEnds ==
  \A r \in Runs :
    <>[](db[r] \in CLOSED_STATES) => <>[](r \notin polling \cup pendingPolls)
=============================================================================

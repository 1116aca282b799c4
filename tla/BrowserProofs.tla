----------------------------- MODULE BrowserProofs -----------------------------
(***************************************************************************)
(* Theorems about Browser for any runs, failures, bounds and overlapping   *)
(* clears, answers in any order.  What a page believes of a run is old but *)
(* never wrong in one direction: a run it takes for over is over.  That    *)
(* holds of records, of answers in flight and of what clearCompleted read  *)
(* before it awaited, and is the invariant.                                *)
(***************************************************************************)
EXTENDS Browser, TLAPS

\* A state heard of a run once: the run is over if the state says so.
Told(s, r) == s \in CLOSED_STATES => Ended(r)

RecordsTold == \A r \in Runs : Told(recents[r], r)

RepliesTold ==
  \A q \in requests :
    Told(q.reply, q.run) /\ (q.kind \in Events => q.reply \in {Asked} \cup LifecycleStates)

\* Each check in flight is awaited by its call, once, and a 404 to it is on record.
ChecksHeld ==
  \A q \in requests : q.kind \in Clearings =>
    /\ clear[q.kind] # NoClear /\ q.run \in clear[q.kind].open
    /\ \A p \in requests : p.kind = q.kind /\ p.run = q.run => p = q
    /\ q.reply = NoState => q.run \in denied[q.kind]

\* A run a call is going to drop is over, or was denied.
ClearTold ==
  \A i \in Clearings : clear[i] # NoClear =>
    \A r \in Runs :
      /\ Told(clear[i].runs[r], r)
      /\ clear[i].runs[r] # Absent /\ r \notin clear[i].open \cup clear[i].kept
           => Ended(r) \/ r \in denied[i]

Page == watching <= clicks /\ (tab = "runs" => watching >= 1)

BrowserInv ==
  BrowserTypeOK /\ RecordsTold /\ RepliesTold /\ ChecksHeld /\ ClearTold /\ Page
-----------------------------------------------------------------------------
\* A run that is over stays so: databus may forget it, but not bring it back.
Onward == \A r \in Runs : Ended(r) => Ended(r)'

LEMMA DbOnward ==
  ASSUME DbType, NEW r \in Runs,
         \/ DbCreate(r) \/ DbConfirm(r) \/ DbLose(r)
         \/ \E s \in DbRunning : DbAdvance(r, s)
         \/ \E s \in DbClosing : DbClose(r, s)
  PROVE  /\ DbType' /\ Onward
         /\ DbCreate(r) \/ DbConfirm(r) => db'[r] \in LifecycleStates
         /\ (\E s \in DbClosing : DbClose(r, s)) => db'[r] \in CLOSED_STATES
<1>1. PICK s \in DbStatus : /\ Ended(r) => s = "lost"
                            /\ db' = [db EXCEPT ![r] = s]
  BY DatabusAssumption DEF DbCreate, DbConfirm, DbLose, DbAdvance, DbClose, DbStatus, Open, Ended,
     LifecycleStates, RUNNING_STATES, CLOSED_STATES
<1>2. DbType' /\ Onward
  BY <1>1 DEF DbType, Onward, Ended
<1>3. DbCreate(r) \/ DbConfirm(r) => db'[r] \in LifecycleStates
  BY DEF DbCreate, DbConfirm, DbType, LifecycleStates
<1>4. ASSUME NEW c \in DbClosing, DbClose(r, c) PROVE db'[r] \in CLOSED_STATES
  BY <1>4, DatabusAssumption DEF DbClose, DbType
<1> QED BY <1>2, <1>3, <1>4

\* What was told stays true.
LEMMA ToldStays ==
  ASSUME Onward, NEW r \in Runs, NEW s, Told(s, r)
  PROVE  Told(s, r)'
BY DEF Onward, Told

LEMMA SameDb ==
  ASSUME UNCHANGED db
  PROVE  Onward
BY DEF Onward, Ended
-----------------------------------------------------------------------------
\* What a callback does to requests: it sends some, or takes one away.
LEMMA FewerRequests ==
  ASSUME BrowserInv, UNCHANGED <<db, clearVars>>, requests' \subseteq requests
  PROVE  requests' \subseteq Requests /\ RepliesTold' /\ ChecksHeld' /\ ClearTold'
<1>1. requests' \subseteq Requests
  BY DEF BrowserInv, BrowserTypeOK
<1>2. RepliesTold'
  BY DEF BrowserInv, RepliesTold, Told, Ended
<1>3. ChecksHeld'
  BY DEF clearVars, BrowserInv, ChecksHeld
<1>4. ClearTold'
  BY DEF clearVars, BrowserInv, ClearTold, Told, Ended
<1> QED BY <1>1, <1>2, <1>3, <1>4

LEMMA OneMore ==
  ASSUME BrowserInv, UNCHANGED <<db, recents, clearVars>>,
         NEW k \in Repeats \cup Events, NEW r \in Runs, Send(k, {r})
  PROVE  /\ requests' \subseteq Requests
         /\ RecordsTold' /\ RepliesTold' /\ ChecksHeld' /\ ClearTold'
<1> DEFINE new == [kind |-> k, run |-> r, reply |-> Asked]
<1>1. requests' = requests \cup {new}
  BY DEF Send
<1>2. requests' \subseteq Requests
  BY <1>1 DEF BrowserInv, BrowserTypeOK, Requests, Kinds
<1>3. RepliesTold'
  <2>1. Asked \notin CLOSED_STATES
    BY DEF Asked, CLOSED_STATES
  <2> QED BY <1>1, <2>1 DEF BrowserInv, RepliesTold, Told, Ended
<1>4. ChecksHeld'
  <2>1. \A q \in requests' : q.kind \in Clearings => q \in requests
    BY <1>1, BrowserAssumption
  <2> QED BY <2>1 DEF clearVars, BrowserInv, ChecksHeld
<1>5. RecordsTold' /\ ClearTold'
  BY DEF clearVars, BrowserInv, RecordsTold, ClearTold, Told, Ended
<1> QED BY <1>2, <1>3, <1>4, <1>5

\* A reply comes in: whatever it says must have been told, and a 404 to a check goes on
\* record.
LEMMA Replied ==
  ASSUME BrowserInv, NEW q \in requests, q.reply = Asked, Onward,
         UNCHANGED <<recents, clear>>,
         NEW s \in {NoState, Raised, Blank} \cup LifecycleStates, Reply(q, s),
         Told(s, q.run)',
         q.kind \in Events => s \in LifecycleStates,
         \A i \in Clearings : denied[i] \subseteq denied'[i],
         q.kind \in Clearings /\ s = NoState => q.run \in denied'[q.kind]
  PROVE  /\ requests' \subseteq Requests
         /\ RecordsTold' /\ RepliesTold' /\ ChecksHeld' /\ ClearTold'
<1> DEFINE new == [q EXCEPT !.reply = s]
<1>1. /\ q \in Requests /\ new \in Requests
      /\ new.kind = q.kind /\ new.run = q.run /\ new.reply = s
  BY DEF BrowserInv, BrowserTypeOK, Requests
<1>2. requests' = (requests \ {q}) \cup {new} /\ requests' \subseteq Requests
  BY <1>1 DEF Reply, BrowserInv, BrowserTypeOK
<1>3. RepliesTold'
  <2>1. \A p \in requests : p.run \in Runs /\ Told(p.reply, p.run)'
    BY ToldStays DEF BrowserInv, BrowserTypeOK, RepliesTold, Requests
  <2>2. \A p \in requests : p.kind \in Events => p.reply \in {Asked} \cup LifecycleStates
    BY DEF BrowserInv, RepliesTold
  <2>3. \A p \in requests' :
          Told(p.reply, p.run)' /\ (p.kind \in Events => p.reply \in {Asked} \cup LifecycleStates)
    BY <1>1, <1>2, <2>1, <2>2
  <2> QED BY <2>3 DEF RepliesTold, Told
<1>4. ChecksHeld'
  <2> SUFFICES ASSUME NEW p \in requests', p.kind \in Clearings
               PROVE  /\ clear'[p.kind] # NoClear /\ p.run \in clear'[p.kind].open
                      /\ \A o \in requests' : o.kind = p.kind /\ o.run = p.run => o = p
                      /\ p.reply = NoState => p.run \in denied'[p.kind]
    BY DEF ChecksHeld
  <2>1. PICK p0 \in requests :
          /\ p0.kind = p.kind /\ p0.run = p.run
          /\ p = IF p0 = q THEN new ELSE p0
    BY <1>1, <1>2
  <2>2. /\ clear[p.kind] # NoClear /\ p0.run \in clear[p.kind].open
        /\ \A o \in requests : o.kind = p0.kind /\ o.run = p0.run => o = p0
        /\ p0.reply = NoState => p0.run \in denied[p.kind]
    BY <2>1 DEF BrowserInv, ChecksHeld
  <2>3. clear'[p.kind] # NoClear /\ p.run \in clear'[p.kind].open
    BY <2>1, <2>2
  <2>4. \A o \in requests' : o.kind = p.kind /\ o.run = p.run => o = p
    BY <1>1, <1>2, <2>1, <2>2
  <2>5. p.reply = NoState => p.run \in denied'[p.kind]
    BY <1>1, <2>1, <2>2
  <2> QED BY <2>3, <2>4, <2>5
<1>5. RecordsTold'
  BY ToldStays DEF BrowserInv, RecordsTold, Told
<1>6. ClearTold'
  BY DEF BrowserInv, ClearTold, Told, Onward
<1> QED BY <1>2, <1>3, <1>4, <1>5, <1>6

\* A record changes to what was just told.
LEMMA RecordHeard ==
  ASSUME BrowserInv, UNCHANGED db, NEW r \in Runs, NEW s \in LifecycleStates \cup {NoState},
         Told(s, r), UpdateRecent(r, s)
  PROVE  /\ recents' \in [Runs -> Records] /\ RecordsTold'
         /\ \A x \in Runs : recents[x] # Absent => recents'[x] # Absent
<1>1. recents' \in [Runs -> Records]
  BY DEF BrowserInv, BrowserTypeOK, UpdateRecent, Records
<1>2. \A x \in Runs : recents'[x] \in {recents[x], s} /\ (recents'[x] # recents[x] => x = r)
  BY DEF BrowserInv, BrowserTypeOK, UpdateRecent
<1>3. RecordsTold'
  BY <1>2 DEF BrowserInv, RecordsTold, Told, Ended
<1> QED BY <1>1, <1>2, <1>3, BrowserAssumption

\* A call of clearCompleted ends or goes on with what it holds.
LEMMA WentOn ==
  ASSUME BrowserInv, UNCHANGED db, NEW i \in Clearings, NEW c \in Clears, GoOn(i, c),
         \A r \in Runs : /\ Told(c.runs[r], r)
                         /\ c.runs[r] # Absent /\ r \notin c.open \cup c.kept
                              => Ended(r) \/ r \in denied[i]
  PROVE  /\ recents' \in [Runs -> Records] /\ RecordsTold' /\ ClearTold'
         /\ states' \in [Runs -> LifecycleStates \cup {NoState}] /\ polling' \subseteq Runs
         /\ clear' = [clear EXCEPT ![i] = IF c.open = {} THEN NoClear ELSE c]
         /\ clear' \in [Clearings -> Clears \cup {NoClear}]
         /\ denied' \in [Clearings -> SUBSET Runs]
         /\ \A j \in Clearings \ {i} : denied'[j] = denied[j]
         /\ c.open # {} => denied' = denied
         /\ recents' # recents => c.open = {}
         /\ c.open = {} => \A r \in Runs : recents'[r] = IF r \in c.kept THEN c.runs[r] ELSE Absent
<1>1. \A r \in Runs : c.runs[r] \in Records
  BY DEF Clears
<1>2. clear \in [Clearings -> Clears \cup {NoClear}] /\ denied \in [Clearings -> SUBSET Runs]
  BY DEF BrowserInv, BrowserTypeOK
<1>3. CASE c.open = {}
  <2>1. Finish(i, c)
    BY <1>3 DEF GoOn
  <2>2. recents' = [r \in Runs |-> IF r \in c.kept THEN c.runs[r] ELSE Absent]
    BY <2>1 DEF Finish
  <2>3. \A r \in Runs : recents'[r] = IF r \in c.kept THEN c.runs[r] ELSE Absent
    BY <2>2
  <2>4. recents' \in [Runs -> Records]
    BY <1>1, <2>2 DEF Records
  <2>5. RecordsTold'
    <3>1. Absent \notin CLOSED_STATES
      BY BrowserAssumption DEF LifecycleStates
    <3> QED BY <2>3, <3>1 DEF RecordsTold, Told, Ended
  <2>6. states' \in [Runs -> LifecycleStates \cup {NoState}]
    BY <2>1 DEF Finish, BrowserInv, BrowserTypeOK
  <2>7. /\ polling' \subseteq Runs
        /\ clear' = [clear EXCEPT ![i] = NoClear] /\ denied' = [denied EXCEPT ![i] = {}]
    BY <2>1 DEF Finish, BuildRunList, BrowserInv, BrowserTypeOK
  <2>8. ClearTold'
    <3>1. \A j \in Clearings : clear'[j] # NoClear => clear'[j] = clear[j] /\ denied'[j] = denied[j]
      BY <1>2, <2>7
    <3> QED BY <3>1 DEF BrowserInv, ClearTold, Told, Ended
  <2> QED BY <1>2, <1>3, <2>3, <2>4, <2>5, <2>6, <2>7, <2>8
<1>4. CASE c.open # {}
  <2>1. clear' = [clear EXCEPT ![i] = c] /\ UNCHANGED <<recents, states, polling, denied>>
    BY <1>4 DEF GoOn
  <2>2. RecordsTold'
    BY <2>1 DEF BrowserInv, RecordsTold, Told, Ended
  <2>3. ClearTold'
    <3> SUFFICES ASSUME NEW j \in Clearings, clear'[j] # NoClear, NEW r \in Runs
                 PROVE  /\ Told(clear[j].runs[r], r)'
                        /\ clear'[j].runs[r] # Absent /\ r \notin clear'[j].open \cup clear'[j].kept
                             => Ended(r)' \/ r \in denied'[j]
      BY DEF ClearTold, Told
    <3>1. clear'[j] = IF j = i THEN c ELSE clear[j]
      BY <1>2, <2>1
    <3>2. CASE j = i
      BY <2>1, <3>1, <3>2 DEF Told, Ended
    <3>3. CASE j # i
      BY <2>1, <3>1, <3>3 DEF BrowserInv, ClearTold, Told, Ended
    <3> QED BY <3>2, <3>3
  <2> QED BY <1>2, <1>4, <2>1, <2>2, <2>3 DEF BrowserInv, BrowserTypeOK
<1> QED BY <1>3, <1>4
-----------------------------------------------------------------------------
LEMMA InvInit == Init => BrowserInv
<1> SUFFICES ASSUME Init PROVE BrowserInv
  OBVIOUS
<1>1. BrowserTypeOK
  BY BrowserAssumption DEF Init, BrowserTypeOK, DbType, DbStatus, LifecycleStates, Records
<1>2. RecordsTold /\ RepliesTold /\ ChecksHeld /\ ClearTold
  <2>1. Absent \notin CLOSED_STATES /\ "Initialized" \notin CLOSED_STATES
    BY BrowserAssumption DEF LifecycleStates, CLOSED_STATES
  <2> QED BY <2>1 DEF Init, RecordsTold, RepliesTold, ChecksHeld, ClearTold, Told
<1>3. Page
  BY DEF Init, Page
<1> QED BY <1>1, <1>2, <1>3 DEF BrowserInv

\* The user's steps: tabs, reload, intervals and events.
LEMMA InvUser ==
  ASSUME BrowserInv,
         \/ \E t \in {"fleet", "operator", "runs"} : SwitchTab(t)
         \/ Reload
         \/ \E r \in Runs : Poll(r) \/ PollPending(r) \/ \E e \in Events : SendEvent(e, r)
  PROVE  BrowserInv'
<1>1. ASSUME NEW t \in {"fleet", "operator", "runs"}, SwitchTab(t) PROVE BrowserInv'
  <2>1. UNCHANGED <<db, recents, requests, clearVars>>
    BY <1>1 DEF SwitchTab
  <2>2. RecordsTold' /\ RepliesTold' /\ ChecksHeld' /\ ClearTold'
    BY <2>1, FewerRequests DEF BrowserInv, RecordsTold, Told, Ended
  <2>3. tab' = t /\ clicks' = clicks + 1 /\ clicks < MaxClicks
    BY <1>1 DEF SwitchTab, Click
  <2>4. watching' = (IF t # tab /\ tab = "runs" THEN watching - 1 ELSE watching)
                    + (IF t = "runs" THEN 1 ELSE 0)
    BY <1>1 DEF SwitchTab, Left
  <2>5. watching' \in 0 .. MaxClicks /\ clicks' \in 0 .. MaxClicks /\ Page'
    BY <2>3, <2>4, BrowserAssumption DEF BrowserInv, BrowserTypeOK, Page
  <2>6. /\ states' \in [Runs -> LifecycleStates \cup {NoState}]
        /\ polling' \subseteq Runs /\ pendingPolls' \subseteq Runs
    BY <1>1 DEF SwitchTab, Left, BuildRunList, BrowserInv, BrowserTypeOK
  <2> QED BY <1>1, <2>1, <2>2, <2>3, <2>5, <2>6
      DEF SwitchTab, clearVars, BrowserInv, BrowserTypeOK, DbType
<1>2. ASSUME Reload PROVE BrowserInv'
  <2>1. RecordsTold' /\ RepliesTold' /\ ChecksHeld' /\ ClearTold'
    BY <1>2 DEF Reload, BrowserInv, RecordsTold, RepliesTold, ChecksHeld, ClearTold, Told, Ended
  <2>2. BrowserTypeOK' /\ Page'
    BY <1>2, BrowserAssumption DEF Reload, Click, BrowserInv, BrowserTypeOK, DbType, Page
  <2> QED BY <2>1, <2>2 DEF BrowserInv
<1>3. ASSUME NEW k \in Repeats \cup Events, NEW r \in Runs, Send(k, {r}),
             UNCHANGED <<db, recents, pageVars, listVars, clearVars>>,
             clicks' = clicks \/ Click
      PROVE  BrowserInv'
  <2>1. /\ requests' \subseteq Requests
        /\ RecordsTold' /\ RepliesTold' /\ ChecksHeld' /\ ClearTold'
    BY <1>3, OneMore
  <2>2. clicks' \in 0 .. MaxClicks /\ clicks <= clicks'
    BY <1>3, BrowserAssumption DEF Click, BrowserInv, BrowserTypeOK
  <2>3. Page'
    BY <1>3, <2>2, BrowserAssumption DEF pageVars, BrowserInv, BrowserTypeOK, Page
  <2> QED BY <1>3, <2>1, <2>2, <2>3 DEF pageVars, listVars, clearVars, BrowserInv, BrowserTypeOK, DbType
<1>4. "poll" \in Repeats /\ "pending" \in Repeats
  BY DEF Repeats
<1>5. ASSUME NEW r \in Runs, Poll(r) PROVE BrowserInv'
  BY <1>3, <1>4, <1>5 DEF Poll
<1>6. ASSUME NEW r \in Runs, PollPending(r) PROVE BrowserInv'
  BY <1>3, <1>4, <1>6 DEF PollPending
<1>7. ASSUME NEW r \in Runs, NEW e \in Events, SendEvent(e, r) PROVE BrowserInv'
  BY <1>3, <1>7 DEF SendEvent
<1> QED BY <1>1, <1>2, <1>5, <1>6, <1>7

\* Messages of the server, and databus.
LEMMA InvServer ==
  ASSUME BrowserInv,
         \/ Notify \/ \E r \in Runs : DatabusStep(r)
         \/ \E q \in requests : Serve(q) \/ Apply(q) \/ Refuse(q)
  PROVE  BrowserInv'
<1>1. ASSUME Notify PROVE BrowserInv'
  <2>1. UNCHANGED <<db, recents, requests, clearVars>>
    BY <1>1 DEF Notify
  <2>2. RecordsTold' /\ RepliesTold' /\ ChecksHeld' /\ ClearTold'
    BY <2>1, FewerRequests DEF BrowserInv, RecordsTold, Told, Ended
  <2>3. Page'
    BY <1>1 DEF Notify, BrowserInv, Page
  <2>4. fleet' \subseteq Runs /\ polling' \subseteq Runs
    BY <1>1 DEF Notify, Carried, BuildRunList, BrowserInv, BrowserTypeOK
  <2> QED BY <1>1, <2>1, <2>2, <2>3, <2>4 DEF Notify, clearVars, BrowserInv, BrowserTypeOK, DbType
<1>2. ASSUME NEW r \in Runs, DatabusStep(r) PROVE BrowserInv'
  <2>1. DbType' /\ Onward
    BY <1>2, DbOnward DEF DatabusStep, BrowserInv, BrowserTypeOK
  <2>2. UNCHANGED <<recents, pageVars, listVars, requests, clear, denied, clicks>>
    BY <1>2 DEF DatabusStep, clearVars
  <2>3. RecordsTold'
    BY <2>1, <2>2, ToldStays DEF BrowserInv, RecordsTold, Told
  <2>4. RepliesTold'
    <3>1. \A q \in requests : q.run \in Runs /\ Told(q.reply, q.run)'
      BY <2>1, ToldStays DEF BrowserInv, BrowserTypeOK, RepliesTold, Requests
    <3> QED BY <2>2, <3>1 DEF BrowserInv, RepliesTold, Told
  <2>5. ChecksHeld'
    BY <2>2 DEF BrowserInv, ChecksHeld
  <2>6. ClearTold'
    BY <2>1, <2>2 DEF BrowserInv, ClearTold, Told, Onward
  <2> QED BY <2>1, <2>2, <2>3, <2>4, <2>5, <2>6
      DEF pageVars, listVars, BrowserInv, BrowserTypeOK, Page
<1>3. ASSUME NEW q \in requests, Serve(q) PROVE BrowserInv'
  <2>1. /\ q \in Requests /\ q.run \in Runs /\ db[q.run] \in DbStatus
        /\ q.kind \notin Events /\ q.reply = Asked
    BY <1>3 DEF Serve, BrowserInv, BrowserTypeOK, Requests, DbType
  <2>2. PICK s \in Replies(q.run) \cup {Blank} :
          /\ Reply(q, Heard(q.kind, s))
          /\ denied' = [i \in Clearings |-> IF i = q.kind /\ s = NoState
                                            THEN denied[i] \cup {q.run} ELSE denied[i]]
    BY <1>3 DEF Serve
  <2>3. PICK h \in {Heard(q.kind, s)} : TRUE
    OBVIOUS
  <2>4. s \in {NoState, Raised, Blank} \/ (s \in LifecycleStates /\ s = db[q.run])
    BY <2>1, <2>2, DatabusAssumption DEF Replies, Answer, DbStatus
  <2>5. /\ {NoState, Raised, Blank} \cap CLOSED_STATES = {}
        /\ {NoState, Raised, Blank} \cap LifecycleStates = {}
    BY DEF NoState, Raised, Blank, LifecycleStates, RUNNING_STATES, CLOSED_STATES
  <2>6. /\ h \in {NoState, Raised, Blank} \cup LifecycleStates
        /\ h \in CLOSED_STATES => Ended(q.run)
        /\ q.kind \in Clearings => h = s
    BY <2>3, <2>4, <2>5, BrowserAssumption DEF Heard, Ended, Repeats
  <2>7. Onward /\ UNCHANGED <<db, recents, pageVars, listVars, clear, clicks>>
    BY <1>3, SameDb DEF Serve
  <2>8. /\ \A i \in Clearings : denied[i] \subseteq denied'[i]
        /\ q.kind \in Clearings /\ h = NoState => q.run \in denied'[q.kind]
        /\ denied' \in [Clearings -> SUBSET Runs]
    BY <2>1, <2>2, <2>6 DEF BrowserInv, BrowserTypeOK
  <2>9. Told(h, q.run)'
    BY <2>6, <2>7 DEF Told, Ended
  <2>10. /\ requests' \subseteq Requests
         /\ RecordsTold' /\ RepliesTold' /\ ChecksHeld' /\ ClearTold'
    <3>1. Reply(q, h)
      BY <2>2, <2>3
    <3> QED BY <2>1, <2>6, <2>7, <2>8, <2>9, <3>1, Replied
  <2> QED BY <2>7, <2>8, <2>10 DEF pageVars, listVars, BrowserInv, BrowserTypeOK, DbType, Page
<1>4. ASSUME NEW q \in requests, Apply(q) PROVE BrowserInv'
  <2>1. q \in Requests /\ q.run \in Runs /\ q.kind \in Events /\ q.kind \notin Clearings
    BY <1>4, BrowserAssumption DEF Apply, BrowserInv, BrowserTypeOK, Requests
  <2>2. \/ DbCreate(q.run) \/ DbConfirm(q.run) \/ DbClose(q.run, "Cancelled")
        \/ \E c \in DbClosing : DbClose(q.run, c)
    BY <1>4, <2>1 DEF Apply, EventStep, Events
  <2>3. \/ DbCreate(q.run) \/ DbConfirm(q.run) \/ \E c \in DbClosing : DbClose(q.run, c)
    BY <2>2 DEF DbClose
  <2>4. DbType' /\ Onward /\ db'[q.run] \in LifecycleStates
    <3>1. /\ DbType' /\ Onward
          /\ db'[q.run] \in LifecycleStates \/ db'[q.run] \in CLOSED_STATES
      BY <2>1, <2>3, DbOnward DEF BrowserInv, BrowserTypeOK
    <3> QED BY <3>1 DEF LifecycleStates
  <2> PICK s \in LifecycleStates : s = db'[q.run]
    BY <2>4
  <2>5. Told(s, q.run)'
    BY DEF Told, Ended
  <2>6. UNCHANGED <<recents, pageVars, listVars, clear, denied, clicks>> /\ Reply(q, s)
        /\ q.reply = Asked
    BY <1>4 DEF Apply, clearVars
  <2>7. /\ requests' \subseteq Requests
        /\ RecordsTold' /\ RepliesTold' /\ ChecksHeld' /\ ClearTold'
    BY <2>1, <2>4, <2>5, <2>6, Replied
  <2> QED BY <2>4, <2>6, <2>7 DEF pageVars, listVars, BrowserInv, BrowserTypeOK, Page
<1>5. ASSUME NEW q \in requests, Refuse(q) PROVE BrowserInv'
  <2>1. /\ UNCHANGED <<db, recents, pageVars, listVars, clearVars, clicks>>
        /\ requests' \subseteq requests
    BY <1>5 DEF Refuse
  <2>2. requests' \subseteq Requests /\ RepliesTold' /\ ChecksHeld' /\ ClearTold'
    BY <2>1, FewerRequests
  <2>3. RecordsTold' /\ Page'
    BY <2>1 DEF pageVars, BrowserInv, RecordsTold, Told, Ended, Page
  <2> QED BY <2>1, <2>2, <2>3 DEF pageVars, listVars, clearVars, BrowserInv, BrowserTypeOK, DbType
<1> QED BY <1>1, <1>2, <1>3, <1>4, <1>5

\* Answers to anything but a check.
LEMMA InvAnswered ==
  ASSUME BrowserInv, NEW q \in requests, Answered(q), ~ CheckAnswered(q)
  PROVE  BrowserInv' /\ \A r \in Runs : recents[r] # Absent => recents'[r] # Absent
<1>1. /\ q \in Requests /\ q.run \in Runs /\ Told(q.reply, q.run)
      /\ q.kind \in Events => q.reply \in {Asked} \cup LifecycleStates
  BY DEF BrowserInv, BrowserTypeOK, RepliesTold, Requests
<1>2. /\ q.reply # Asked /\ requests' = requests \ {q}
      /\ UNCHANGED <<db, pageVars, clearVars, clicks>>
  BY DEF Answered, PollAnswered, PendingAnswered, RunRequested, RunUpdated, RunStopped, Arrive,
         listVars
<1>3. requests' \subseteq Requests /\ Page' /\ DbType'
  BY <1>2 DEF pageVars, BrowserInv, BrowserTypeOK, Page, DbType
<1>4. RepliesTold' /\ ChecksHeld' /\ ClearTold'
  BY <1>2, FewerRequests
<1>5. /\ recents' \in [Runs -> Records] /\ RecordsTold'
      /\ \A r \in Runs : recents[r] # Absent => recents'[r] # Absent
  <2>1. CASE recents' = recents
    BY <1>2, <2>1 DEF BrowserInv, BrowserTypeOK, RecordsTold, Told, Ended
  <2>2. ASSUME NEW s \in LifecycleStates \cup {NoState}, Told(s, q.run), UpdateRecent(q.run, s)
        PROVE  /\ recents' \in [Runs -> Records] /\ RecordsTold'
               /\ \A r \in Runs : recents[r] # Absent => recents'[r] # Absent
    BY <1>1, <1>2, <2>2, RecordHeard
  <2>3. CASE RunRequested(q)
    <3>1. "Initialized" \in LifecycleStates \ CLOSED_STATES
      BY DEF LifecycleStates, CLOSED_STATES
    <3> QED BY <1>2, <2>3, <3>1, BrowserAssumption
        DEF RunRequested, BrowserInv, BrowserTypeOK, Records, RecordsTold, Told, Ended
  <2>4. Told(NoState, q.run)
    BY DEF Told, NoState, CLOSED_STATES
  <2>5. \/ recents' = recents \/ RunRequested(q)
        \/ \E s \in LifecycleStates \cup {NoState} : Told(s, q.run) /\ UpdateRecent(q.run, s)
    BY <1>1, <1>2, <2>4 DEF Answered, PollAnswered, PendingAnswered, RunUpdated, RunStopped,
       Events, Stated
  <2> QED BY <2>1, <2>2, <2>3, <2>5
<1>6. /\ states' \in [Runs -> LifecycleStates \cup {NoState}]
      /\ polling' \subseteq Runs /\ pendingPolls' \subseteq Runs
  <2>1. CASE PollAnswered(q) \/ PendingAnswered(q)
    BY <1>1, <2>1 DEF PollAnswered, PendingAnswered, BrowserInv, BrowserTypeOK, Stated
  <2>2. CASE RunRequested(q) \/ RunUpdated(q)
    BY <1>1, <2>2 DEF RunRequested, RunUpdated, listVars, BrowserInv, BrowserTypeOK
  <2>3. CASE RunStopped(q)
    <3>1. q.reply \in LifecycleStates
      BY <1>1, <1>2, <2>3 DEF RunStopped, Events
    <3> QED BY <1>1, <2>3, <3>1 DEF RunStopped, BuildRunList, BrowserInv, BrowserTypeOK
  <2> QED BY <2>1, <2>2, <2>3 DEF Answered
<1> QED BY <1>2, <1>3, <1>4, <1>5, <1>6 DEF pageVars, clearVars, BrowserInv, BrowserTypeOK

\* What the answer to a check finds: its call awaits it, and what the call would drop is
\* over or denied.
LEMMA CheckFinds ==
  ASSUME BrowserInv, NEW q \in requests, CheckAnswered(q),
         NEW c, c = Checked(q.kind, q, q.reply # NoState)
  PROVE  /\ q.kind \in Clearings /\ clear[q.kind] # NoClear /\ q.run \in clear[q.kind].open
         /\ c \in Clears /\ c.runs = clear[q.kind].runs /\ c.open = clear[q.kind].open \ {q.run}
         /\ \A r \in Runs : /\ Told(c.runs[r], r)
                            /\ c.runs[r] # Absent /\ r \notin c.open \cup c.kept
                                 => Ended(r) \/ r \in denied[q.kind]
<1>1. /\ q.kind \in Clearings /\ clear[q.kind] # NoClear /\ q.run \in clear[q.kind].open
      /\ q.reply = NoState => q.run \in denied[q.kind]
  BY DEF CheckAnswered, BrowserInv, ChecksHeld
<1>2. clear[q.kind] \in Clears /\ q.run \in Runs
  BY <1>1 DEF BrowserInv, BrowserTypeOK, Requests
<1>3. /\ c \in Clears /\ c.runs = clear[q.kind].runs /\ c.open = clear[q.kind].open \ {q.run}
      /\ c.kept = IF q.reply # NoState THEN clear[q.kind].kept \cup {q.run} ELSE clear[q.kind].kept
  BY <1>2 DEF Checked, Clears
<1>4. \A r \in Runs : /\ Told(clear[q.kind].runs[r], r)
                      /\ clear[q.kind].runs[r] # Absent
                           /\ r \notin clear[q.kind].open \cup clear[q.kind].kept
                           => Ended(r) \/ r \in denied[q.kind]
  BY <1>1 DEF BrowserInv, ClearTold
<1>5. ASSUME NEW r \in Runs, c.runs[r] # Absent, r \notin c.open \cup c.kept
      PROVE  Ended(r) \/ r \in denied[q.kind]
  <2>1. CASE r = q.run
    BY <1>1, <1>3, <1>5, <2>1
  <2>2. CASE r # q.run
    BY <1>3, <1>4, <1>5, <2>2
  <2> QED BY <2>1, <2>2
<1> QED BY <1>1, <1>3, <1>4, <1>5

\* The answer to a check.
LEMMA InvChecked ==
  ASSUME BrowserInv, NEW q \in requests, CheckAnswered(q)
  PROVE  BrowserInv'
<1> PICK i : i = q.kind
  OBVIOUS
<1> PICK c : c = Checked(q.kind, q, q.reply # NoState)
  OBVIOUS
<1>1. /\ i \in Clearings /\ c \in Clears /\ clear[i] # NoClear /\ q.run \in clear[i].open
      /\ c.open = clear[i].open \ {q.run}
      /\ \A r \in Runs : /\ Told(c.runs[r], r)
                         /\ c.runs[r] # Absent /\ r \notin c.open \cup c.kept
                              => Ended(r) \/ r \in denied[i]
  BY CheckFinds
<1>2. /\ GoOn(i, c) /\ requests' = requests \ {q}
      /\ UNCHANGED <<db, pageVars, pendingPolls, clicks>>
  BY DEF CheckAnswered, Arrive
<1>3. /\ recents' \in [Runs -> Records] /\ RecordsTold' /\ ClearTold'
      /\ states' \in [Runs -> LifecycleStates \cup {NoState}] /\ polling' \subseteq Runs
      /\ clear' = [clear EXCEPT ![i] = IF c.open = {} THEN NoClear ELSE c]
      /\ clear' \in [Clearings -> Clears \cup {NoClear}]
      /\ denied' \in [Clearings -> SUBSET Runs]
      /\ \A j \in Clearings \ {i} : denied'[j] = denied[j]
      /\ c.open # {} => denied' = denied
  BY <1>1, <1>2, WentOn
<1>4. RepliesTold'
  BY <1>2 DEF BrowserInv, RepliesTold, Told, Ended
<1>5. ChecksHeld'
  <2> SUFFICES ASSUME NEW p \in requests', p.kind \in Clearings
               PROVE  /\ clear'[p.kind] # NoClear /\ p.run \in clear'[p.kind].open
                      /\ \A o \in requests' : o.kind = p.kind /\ o.run = p.run => o = p
                      /\ p.reply = NoState => p.run \in denied'[p.kind]
    BY DEF ChecksHeld
  <2>1. p \in requests /\ p # q
    BY <1>2
  <2>2. /\ clear[p.kind] # NoClear /\ p.run \in clear[p.kind].open
        /\ \A o \in requests : o.kind = p.kind /\ o.run = p.run => o = p
        /\ p.reply = NoState => p.run \in denied[p.kind]
    BY <2>1 DEF BrowserInv, ChecksHeld
  <2>3. clear \in [Clearings -> Clears \cup {NoClear}]
    BY DEF BrowserInv, BrowserTypeOK
  <2>4. CASE p.kind # i
    BY <1>2, <1>3, <2>2, <2>3, <2>4
  <2>5. CASE p.kind = i
    <3>1. p.run # q.run
      BY <2>1, <2>2, <2>5
    <3>2. p.run \in c.open
      BY <1>1, <2>2, <2>5, <3>1
    <3>3. clear'[i] = c /\ denied' = denied /\ c # NoClear
      BY <1>1, <1>3, <2>3, <3>2, BrowserAssumption
    <3> QED BY <1>2, <2>2, <2>5, <3>2, <3>3
  <2> QED BY <2>4, <2>5
<1>6. Page' /\ DbType'
  BY <1>2 DEF pageVars, BrowserInv, BrowserTypeOK, Page, DbType
<1> QED BY <1>2, <1>3, <1>4, <1>5, <1>6 DEF pageVars, BrowserInv, BrowserTypeOK

\* What a call of clearCompleted starts with.
LEMMA ClearFinds ==
  ASSUME BrowserInv, NEW i \in Clearings, ClearCompleted(i),
         NEW open, open = {r \in Recorded : recents[r] \notin TERMINAL_STATES},
         NEW c, c = [runs |-> recents, open |-> open, kept |-> {}]
  PROVE  /\ c \in Clears /\ open \subseteq Runs
         /\ \A r \in Runs : Told(c.runs[r], r)
         /\ \A r \in Runs : c.runs[r] # Absent /\ r \notin open => Ended(r)
<1>1. c \in Clears /\ open \subseteq Runs
  BY DEF Recorded, Clears, BrowserInv, BrowserTypeOK
<1>2. \A r \in Runs : Told(recents[r], r)
  BY DEF BrowserInv, RecordsTold
<1> QED BY <1>1, <1>2 DEF Recorded, TERMINAL_STATES, Told

\* clearCompleted starts, and with nothing to ask for ends at once.
LEMMA InvClear ==
  ASSUME BrowserInv, NEW i \in Clearings, ClearCompleted(i)
  PROVE  BrowserInv'
<1> PICK open : open = {r \in Recorded : recents[r] \notin TERMINAL_STATES}
  OBVIOUS
<1> PICK c : c = [runs |-> recents, open |-> open, kept |-> {}]
  OBVIOUS
<1>1. /\ clear[i] = NoClear /\ UNCHANGED <<db, pageVars, pendingPolls>>
      /\ clicks < MaxClicks /\ clicks' = clicks + 1 /\ GoOn(i, c)
      /\ requests' = requests \cup {[kind |-> i, run |-> r, reply |-> Asked] : r \in open}
  BY DEF ClearCompleted, Send, Click
<1>2. /\ c \in Clears /\ open \subseteq Runs /\ c.open = open
      /\ \A r \in Runs : /\ Told(c.runs[r], r)
                         /\ c.runs[r] # Absent /\ r \notin c.open \cup c.kept
                              => Ended(r) \/ r \in denied[i]
  BY ClearFinds
<1>3. /\ recents' \in [Runs -> Records] /\ RecordsTold' /\ ClearTold'
      /\ states' \in [Runs -> LifecycleStates \cup {NoState}] /\ polling' \subseteq Runs
      /\ clear' = [clear EXCEPT ![i] = IF c.open = {} THEN NoClear ELSE c]
      /\ clear' \in [Clearings -> Clears \cup {NoClear}]
      /\ denied' \in [Clearings -> SUBSET Runs]
      /\ \A j \in Clearings \ {i} : denied'[j] = denied[j]
  BY <1>1, <1>2, WentOn
<1>4. requests' \subseteq Requests
  BY <1>1, <1>2 DEF BrowserInv, BrowserTypeOK, Requests, Kinds
<1>5. RepliesTold'
  <2>1. Asked \notin CLOSED_STATES
    BY DEF Asked, CLOSED_STATES
  <2> QED BY <1>1, <2>1 DEF BrowserInv, RepliesTold, Told, Ended
<1>6. ChecksHeld'
  <2>1. \A q \in requests : q.kind # i
    BY <1>1 DEF BrowserInv, ChecksHeld
  <2>2. clear \in [Clearings -> Clears \cup {NoClear}] /\ Asked # NoState
    BY DEF BrowserInv, BrowserTypeOK, Asked, NoState
  <2>3. \A q \in requests' : q.kind = i =>
          q.run \in open /\ q = [kind |-> i, run |-> q.run, reply |-> Asked]
    BY <1>1, <2>1
  <2>4. \A q \in requests' : q.kind # i => q \in requests
    BY <1>1
  <2>5. \A q \in requests' : q.kind = i =>
          clear'[i] = c /\ c # NoClear /\ q.run \in c.open /\ q.reply # NoState
    <3>1. c # NoClear
      BY <1>2, BrowserAssumption
    <3> SUFFICES ASSUME NEW q \in requests', q.kind = i
                 PROVE  clear'[i] = c /\ q.run \in c.open /\ q.reply # NoState
      BY <3>1
    <3>2. q.run \in open /\ q.reply = Asked
      BY <2>3
    <3>3. c.open # {} /\ clear'[i] = IF c.open = {} THEN NoClear ELSE c
      BY <1>2, <1>3, <2>2, <3>2
    <3> QED BY <1>2, <2>2, <3>2, <3>3
  <2>6. \A q \in requests' : q.kind \in Clearings /\ q.kind # i =>
          /\ clear'[q.kind] # NoClear /\ q.run \in clear'[q.kind].open
          /\ \A p \in requests' : p.kind = q.kind /\ p.run = q.run => p = q
          /\ q.reply = NoState => q.run \in denied'[q.kind]
    BY <1>3, <2>2, <2>4 DEF BrowserInv, ChecksHeld
  <2> QED BY <2>3, <2>5, <2>6 DEF ChecksHeld
<1>7. Page' /\ clicks' \in 0 .. MaxClicks /\ DbType'
  BY <1>1, BrowserAssumption DEF pageVars, BrowserInv, BrowserTypeOK, Page, DbType
<1> QED BY <1>1, <1>3, <1>4, <1>5, <1>6, <1>7 DEF pageVars, BrowserInv, BrowserTypeOK
-----------------------------------------------------------------------------
LEMMA InvStep == BrowserInv /\ [Next]_vars => BrowserInv'
<1> SUFFICES ASSUME BrowserInv, [Next]_vars PROVE BrowserInv'
  OBVIOUS
<1>1. CASE UNCHANGED vars
  BY <1>1 DEF vars, pageVars, listVars, clearVars, BrowserInv, BrowserTypeOK, DbType, RecordsTold,
     RepliesTold, ChecksHeld, ClearTold, Page, Told, Ended
<1>2. CASE Next
  BY <1>2, InvUser, InvServer, InvAnswered, InvChecked, InvClear DEF Next
<1> QED BY <1>1, <1>2

\* Records, lists and answers of runs.js and operator.js hold states of runs or none,
\* whatever the order in which answers arrive and clears overlap.
THEOREM BrowserTypes == Spec => []BrowserTypeOK
<1>1. BrowserInv => BrowserTypeOK
  BY DEF BrowserInv
<1> QED BY InvInit, InvStep, <1>1, PTL DEF Spec

\* Of the records it read at its start, a call of clearCompleted drops only those of runs
\* that are over or that a 404 denied, for any number of runs, calls and failures.
THEOREM ClearsOnlyEnded == Spec => OnlyEndedCleared
<1>1. BrowserInv /\ [Next]_vars => [DropsExcused]_vars
  <2> SUFFICES ASSUME BrowserInv, Next, NEW r \in Runs, recents[r] # Absent, recents'[r] = Absent
               PROVE  Ended(r) \/ \E i \in Clearings : Excused(i, r)
    BY DEF DropsExcused, Recorded
  <2>1. recents' # recents
    OBVIOUS
  <2>2. \/ \E i \in Clearings : ClearCompleted(i)
        \/ \E q \in requests : Answered(q)
    BY <2>1 DEF Next, SwitchTab, Reload, Notify, Poll, PollPending, DatabusStep, SendEvent,
       Serve, Apply, Refuse
  <2>3. ASSUME NEW i \in Clearings, ClearCompleted(i) PROVE Ended(r)
    <3> PICK open : open = {x \in Recorded : recents[x] \notin TERMINAL_STATES}
      OBVIOUS
    <3> PICK c : c = [runs |-> recents, open |-> open, kept |-> {}]
      OBVIOUS
    <3>1. /\ c \in Clears /\ c.open = open /\ c.runs = recents /\ GoOn(i, c) /\ UNCHANGED db
          /\ \A x \in Runs : Told(c.runs[x], x)
          /\ \A x \in Runs : c.runs[x] # Absent /\ x \notin open => Ended(x)
      BY <2>3, ClearFinds DEF ClearCompleted
    <3>2. c.open = {}
      BY <2>1, <3>1 DEF GoOn
    <3> QED BY <3>1, <3>2
  <2>4. ASSUME NEW q \in requests, Answered(q) PROVE Ended(r) \/ Excused(q.kind, r)
    <3>1. CheckAnswered(q)
      BY <2>4, InvAnswered
    <3> PICK c : c = Checked(q.kind, q, q.reply # NoState)
      OBVIOUS
    <3>2. /\ q.kind \in Clearings /\ clear[q.kind] # NoClear /\ c \in Clears
          /\ c.runs = clear[q.kind].runs
          /\ \A x \in Runs : /\ Told(c.runs[x], x)
                             /\ c.runs[x] # Absent /\ x \notin c.open \cup c.kept
                                  => Ended(x) \/ x \in denied[q.kind]
      BY <3>1, CheckFinds
    <3>3. GoOn(q.kind, c) /\ UNCHANGED db
      BY <3>1 DEF CheckAnswered
    <3>4. /\ c.open = {} /\ clear' = [clear EXCEPT ![q.kind] = NoClear]
          /\ recents'[r] = IF r \in c.kept THEN c.runs[r] ELSE Absent
      <4>1. /\ clear' = [clear EXCEPT ![q.kind] = IF c.open = {} THEN NoClear ELSE c]
            /\ recents' # recents => c.open = {}
            /\ c.open = {} => \A x \in Runs :
                 recents'[x] = IF x \in c.kept THEN c.runs[x] ELSE Absent
        BY <3>2, <3>3, WentOn
      <4> QED BY <2>1, <4>1
    <3>5. clear'[q.kind] = NoClear
      BY <3>2, <3>4 DEF BrowserInv, BrowserTypeOK
    <3>6. c.runs[r] = Absent \/ Ended(r) \/ r \in denied[q.kind]
      BY <3>2, <3>4
    <3> QED BY <3>2, <3>5, <3>6 DEF Excused
  <2>5. ASSUME NEW q \in requests, Answered(q) PROVE Ended(r) \/ \E i \in Clearings : Excused(i, r)
    <3>1. q.kind \in Clearings
      BY <2>5, InvAnswered DEF CheckAnswered
    <3> QED BY <2>4, <2>5, <3>1
  <2> QED BY <2>2, <2>3, <2>5
<1> QED BY InvInit, InvStep, <1>1, PTL DEF Spec, OnlyEndedCleared
=============================================================================

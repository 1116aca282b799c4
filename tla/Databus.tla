------------------------------- MODULE Databus -------------------------------
(***************************************************************************)
(* The databus service as the simulator sees it, and the client's reading  *)
(* of its answers (services/databus_client.py).                            *)
(*                                                                         *)
(* The service is outside the repository.  Its run lifecycle is modelled   *)
(* from how the code uses it: an operator event confirms or ends a run,    *)
(* telemetry of the vehicle moves a confirmed run on, a restart or a purge *)
(* of the service forgets a run, a closed one too (runs.js:319).           *)
(* Transitions among the running states are any order: the simulator       *)
(* treats those states alike.                                              *)
(***************************************************************************)
EXTENDS Lifecycle

CONSTANTS
  DbRunning,   \* the running states this instance lets databus report
  DbClosing,   \* the closed states this instance lets databus report
  Failures     \* how a call for a run's state may fail: NoState (connection
               \* error, 5xx, bad JSON: get_run_state answers None) and
               \* Raised (it raises)

VARIABLE
  db           \* the lifecycle state of each run

Raised == "raised"

ASSUME DatabusAssumption ==
  /\ DbRunning \subseteq RUNNING_STATES
  /\ DbClosing \subseteq CLOSED_STATES
  /\ Failures \subseteq {NoState, Raised}

\* "new" is a run databus has not registered yet, "lost" one it has forgotten:
\* both answer 404.
DbStatus == LifecycleStates \cup {"new", "lost"}

DbType == db \in [Runs -> DbStatus]
DbInit == db = [r \in Runs |-> "new"]

Open(r) == db[r] \in {"Initialized", "Confirmed"} \cup RUNNING_STATES
Ended(r) == db[r] \in CLOSED_STATES \cup {"lost"}
Unconfirmed(r) == db[r] \in {"new", "Initialized"}

DbCreate(r) == db[r] = "new" /\ db' = [db EXCEPT ![r] = "Initialized"]
DbConfirm(r) == db[r] = "Initialized" /\ db' = [db EXCEPT ![r] = "Confirmed"]
DbAdvance(r, s) ==
  /\ db[r] \in {"Confirmed"} \cup RUNNING_STATES
  /\ s \in DbRunning \ {db[r]}
  /\ db' = [db EXCEPT ![r] = s]
DbClose(r, s) == Open(r) /\ s \in DbClosing /\ db' = [db EXCEPT ![r] = s]
DbLose(r) == db[r] \notin {"new", "lost"} /\ db' = [db EXCEPT ![r] = "lost"]

\* get_run_state when the service answers: the state, or None for 404.
Answer(s) == IF s \in {"new", "lost"} THEN NoState ELSE s

\* Everything the await of get_run_state may come back with.
Replies(r) == {Answer(db[r])} \cup Failures
=============================================================================

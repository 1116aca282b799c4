------------------------------ MODULE Lifecycle ------------------------------
(***************************************************************************)
(* The vocabulary of run lifecycles shared by the databus service and the  *)
(* simulator: the values databus reports in run_lifecycle_state, verbatim, *)
(* and the Python None that stands for "no value".                         *)
(***************************************************************************)

CONSTANT
  Runs         \* run ids

\* The Python None of lifecycle_state and of get_run_state's answer.
NoState == "None"

\* A run that is under way; _apply_state does nothing for any of these.
RUNNING_STATES == {"Tracking", "In Progress", "No Signal"}

\* The states in which databus has closed a run.
CLOSED_STATES == {"Completed", "Cancelled", "Interrupted", "Short Turned"}

LifecycleStates == {"Initialized", "Confirmed"} \cup RUNNING_STATES \cup CLOSED_STATES
=============================================================================

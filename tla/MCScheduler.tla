----------------------------- MODULE MCScheduler -----------------------------
(* Instances of Scheduler for TLC. *)
EXTENDS Scheduler

CONSTANTS a, b

\* An entry that starts by itself, an edit of it that lacks a field, and a second
\* entry that an operator confirms.
Auto == [id |-> a, complete |-> TRUE, confirm |-> TRUE, start |-> TRUE]
Broken == [id |-> a, complete |-> FALSE, confirm |-> TRUE, start |-> TRUE]
Manual == [id |-> b, complete |-> TRUE, confirm |-> FALSE, start |-> TRUE]

AllEntries == {Auto, Broken, Manual}
AllDocuments == {{}, {Auto, Manual}, {Broken, Manual}, {Broken}}
Refused == {{Broken}}
Complete == {Auto, Manual}
CompleteDocuments == SUBSET Complete
=============================================================================

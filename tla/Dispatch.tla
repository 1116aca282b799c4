------------------------------ MODULE Dispatch ------------------------------
(***************************************************************************)
(* What the scheduler promises of each entry, whatever documents come and  *)
(* go while it awaits: entries are taken in hand one at a time, each is    *)
(* asked for once and ends up with one run or none, that run is given to   *)
(* the binder once, and its vehicle is set off only when the binder has    *)
(* the run and databus has confirmed it.                                   *)
(***************************************************************************)
CONSTANT
  Ids          \* entry ids

VARIABLES
  stage,       \* how far each entry is
  confirmed    \* entries whose run is confirmed

vars == <<stage, confirmed>>

Stages == {"waiting", "asked", "refused", "made", "tracked", "off"}

\* An entry asked for whose run is not with the binder yet.
InHand(id) == stage[id] \in {"asked", "made"}

Init ==
  /\ stage = [id \in Ids |-> "waiting"]
  /\ confirmed = {}

Turn(id, from, to) ==
  /\ stage[id] = from
  /\ stage' = [stage EXCEPT ![id] = to]
  /\ UNCHANGED confirmed

Ask(id) == Turn(id, "waiting", "asked") /\ \A i \in Ids : ~ InHand(i)
Refuse(id) == Turn(id, "asked", "refused")
Make(id) == Turn(id, "asked", "made")
Track(id) == Turn(id, "made", "tracked")

\* By an operator, or by the scheduler itself.
Confirm(id) ==
  /\ stage[id] \in {"made", "tracked"}
  /\ confirmed' = confirmed \cup {id}
  /\ UNCHANGED stage

SetOff(id) == Turn(id, "tracked", "off") /\ id \in confirmed

Next ==
  \E id \in Ids :
    Ask(id) \/ Refuse(id) \/ Make(id) \/ Track(id) \/ Confirm(id) \/ SetOff(id)

Spec == Init /\ [][Next]_vars
=============================================================================

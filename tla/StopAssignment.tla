---------------------------- MODULE StopAssignment ----------------------------
(***************************************************************************)
(* assign_stops_monotonic (domain/progression/shapes.py): the dynamic      *)
(* program that places K stops, in order, on the M segments of a polyline  *)
(* so that segments never go back and the sum of the distances is least.   *)
(*                                                                         *)
(* A step is one iteration of one of its loops.  cost[k][j] and pos[k][j]  *)
(* are the distance of stop k from segment j and its progress there, as    *)
(* project_point_to_segment returns them, here any naturals.  prefix_min   *)
(* is always dp[k-1][prefix_arg], so only prefix_arg is kept.  Indices     *)
(* start at 1.                                                             *)
(***************************************************************************)
EXTENDS Integers

CONSTANTS
  Instances,   \* the calls of this instance: sizes, distances and progresses
  Totals       \* sums of distances the properties talk about

VARIABLES
  K, M,        \* the number of stops and of segments
  cost, pos,   \* the matrices
  pc,          \* the loop the function is in
  k, j,        \* its indices
  arg,         \* prefix_arg, 0 before the first comparison
  dp, back,    \* the tables; INF and -1 where nothing is filled in
  segments,    \* the segment of each stop, 0 before it is known
  progress     \* the progress of each stop, the result

input == <<K, M, cost, pos>>
tables == <<dp, back>>
dpVars == <<K, M, cost, pos, pc, k, j, arg, dp, back, segments, progress>>

Matrix(n, m, S) == [1 .. n -> [1 .. m -> S]]
IsInstance(i) ==
  /\ i.K \in Nat /\ i.M \in Nat
  /\ i.cost \in Matrix(i.K, i.M, Nat)
  /\ i.pos \in Matrix(i.K, i.M, Nat)

ASSUME InstanceAssumption ==
  /\ \A i \in Instances : IsInstance(i)
  /\ Totals \subseteq Nat

INF == -1
Phases == {"start", "fill", "last", "backtrack", "clamp", "done"}

\* Types of the variables.
DPTypeOK ==
  /\ K \in Nat /\ M \in Nat
  /\ cost \in Matrix(K, M, Nat) /\ pos \in Matrix(K, M, Nat)
  /\ pc \in Phases
  /\ k \in 1 .. K + 1 /\ j \in 1 .. M + 1 /\ arg \in 0 .. M
  /\ dp \in Matrix(K, M, Nat \cup {INF})
  /\ back \in Matrix(K, M, 1 .. M \cup {-1})
  /\ segments \in [1 .. K -> 0 .. M]
  /\ progress \in [1 .. K -> Nat]

\* The state in which the function begins on an instance.
Begin(i) ==
  /\ K = i.K /\ M = i.M /\ cost = i.cost /\ pos = i.pos
  /\ pc = "start" /\ k = 1 /\ j = 1 /\ arg = 0
  /\ dp = [r \in 1 .. i.K |-> [c \in 1 .. i.M |-> INF]]
  /\ back = [r \in 1 .. i.K |-> [c \in 1 .. i.M |-> -1]]
  /\ segments = [r \in 1 .. i.K |-> 0]
  /\ progress = [r \in 1 .. i.K |-> 0]

DPInit == \E i \in Instances : Begin(i)

-----------------------------------------------------------------------------
(* The loops *)

\* No stops, or no segments: every stop is at the first point, whose distance is 0.
NothingToDo ==
  /\ pc = "start" /\ (K = 0 \/ M = 0)
  /\ pc' = "done"
  /\ UNCHANGED <<input, tables, k, j, arg, segments, progress>>

\* Row k is complete: the next row, or the search of the last row.
NextRow == /\ k' = k + 1 /\ j' = 1 /\ arg' = 0
           /\ pc' = IF k = K THEN "last" ELSE "fill"

FirstRow ==
  /\ pc = "start" /\ K > 0 /\ M > 0
  /\ dp' = [dp EXCEPT ![1] = cost[1]]
  /\ back' = [back EXCEPT ![1] = [c \in 1 .. M |-> c]]
  /\ NextRow
  /\ UNCHANGED <<input, segments, progress>>

\* Mutation of the running minimum: a later minimum is never seen.
Stuck == IF arg = 0 THEN j ELSE arg

\* Mutation: of equal entries the last is taken.
LastLeast == IF arg = 0 \/ dp[k - 1][j] <= dp[k - 1][arg] THEN j ELSE arg

\* The first of the least entries of row k - 1 up to column j.
PrefixArg == IF arg = 0 \/ dp[k - 1][j] < dp[k - 1][arg] THEN j ELSE arg

\* Mutation: the table remembers the column of the last minimum but one.
FillStale ==
  /\ pc = "fill"
  /\ dp' = [dp EXCEPT ![k][j] = cost[k][j] + dp[k - 1][PrefixArg]]
  /\ back' = [back EXCEPT ![k][j] = arg]
  /\ IF j = M THEN NextRow
     ELSE j' = j + 1 /\ arg' = PrefixArg /\ UNCHANGED <<k, pc>>
  /\ UNCHANGED <<input, segments, progress>>

FillCell ==
  /\ pc = "fill"
  /\ dp' = [dp EXCEPT ![k][j] = cost[k][j] + dp[k - 1][PrefixArg]]
  /\ back' = [back EXCEPT ![k][j] = PrefixArg]
  /\ IF j = M THEN NextRow
     ELSE j' = j + 1 /\ arg' = PrefixArg /\ UNCHANGED <<k, pc>>
  /\ UNCHANGED <<input, segments, progress>>

\* best_j: the same search over the whole last row (here k = K + 1).
SearchLast ==
  /\ pc = "last"
  /\ IF j = M
     THEN /\ segments' = [segments EXCEPT ![K] = PrefixArg]
          /\ pc' = "backtrack" /\ k' = K
          /\ UNCHANGED <<j, arg>>
     ELSE j' = j + 1 /\ arg' = PrefixArg /\ UNCHANGED <<segments, pc, k>>
  /\ UNCHANGED <<input, tables, progress>>

\* The segment of the stop before k.
Predecessor == back[k][segments[k]]

Backtrack ==
  /\ pc = "backtrack" /\ k > 1
  /\ segments' = [segments EXCEPT ![k - 1] = Predecessor]
  /\ k' = k - 1
  /\ UNCHANGED <<input, tables, pc, j, arg, progress>>

\* Read the progress of every stop off its segment.
ReadOff ==
  /\ pc = "backtrack" /\ k = 1
  /\ progress' = [r \in 1 .. K |-> pos[r][segments[r]]]
  /\ pc' = "clamp" /\ k' = 2
  /\ UNCHANGED <<input, tables, j, arg, segments>>

\* Mutation: the stop is compared with where its predecessor was before the clamp.
ClampToRaw == IF progress[k] < pos[k - 1][segments[k - 1]] THEN progress[k - 1] ELSE progress[k]

\* Mutation: no clamp.
Unclamped == progress[k]

Clamped == IF progress[k] < progress[k - 1] THEN progress[k - 1] ELSE progress[k]

Clamp ==
  /\ pc = "clamp" /\ k <= K
  /\ progress' = [progress EXCEPT ![k] = Clamped]
  /\ k' = k + 1
  /\ UNCHANGED <<input, tables, pc, j, arg, segments>>

Return ==
  /\ pc = "clamp" /\ k = K + 1
  /\ pc' = "done"
  /\ UNCHANGED <<input, tables, k, j, arg, segments, progress>>

DPNext ==
  \/ NothingToDo \/ FirstRow \/ FillCell \/ SearchLast
  \/ Backtrack \/ ReadOff \/ Clamp \/ Return

DPSpec == DPInit /\ [][DPNext]_dpVars

-----------------------------------------------------------------------------
(* What the function promises *)

\* The placements the function chooses among: segments never go back.
Monotone == {s \in [1 .. K -> 1 .. M] : \A r \in 2 .. K : s[r - 1] <= s[r]}

\* t is the running sum of the distances of the placement s.
Sums(s) ==
  {t \in [1 .. K -> Totals] :
     /\ t[1] = cost[1][s[1]]
     /\ \A r \in 2 .. K : t[r] = t[r - 1] + cost[r][s[r]]}

Placed == pc = "done" /\ K > 0 /\ M > 0

\* The placement is monotone and none is cheaper, although it is put together from the
\* last stop backwards out of local minima (shapes.py:128-145,197-213).
Cheapest ==
  Placed => /\ segments \in Monotone
            /\ \A s \in Monotone : \A t \in Sums(s), u \in Sums(segments) : u[K] <= t[K]

\* Stops are in order along the line, and the clamp moves a stop forward only to the
\* furthest of those before it (shapes.py:215-221).
InOrder ==
  Placed => \A r \in 1 .. K :
    /\ \A q \in 1 .. r : pos[q][segments[q]] <= progress[r] /\ progress[q] <= progress[r]
    /\ \E q \in 1 .. r : progress[r] = pos[q][segments[q]]

\* The monotone placement of every stop on the first of its own nearest segments: there is
\* one, or none.
Nearest ==
  {f \in Monotone : \A r \in 1 .. K, c \in 1 .. M :
     cost[r][f[r]] < cost[r][c] \/ (cost[r][f[r]] = cost[r][c] /\ f[r] <= c)}

\* When the stops' own nearest segments do not go back, they are the placement: nothing is
\* traded, and of segments that are as near the first is taken (shapes.py:128-145,185-213).
NearestKept == Placed => \A f \in Nearest : segments = f
===============================================================================

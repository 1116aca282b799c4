------------------------------- MODULE Geometry -------------------------------
(***************************************************************************)
(* build_route_geometry (domain/progression/shapes.py) and what it calls:  *)
(* polylines, projections (geo.py) and, shape by shape, the dynamic        *)
(* program of StopAssignment.  Its result is what compute.py searches for  *)
(* the next stop in every tick, and what the routes view returns.          *)
(*                                                                         *)
(* The world has one dimension: a place is an integer, and the distance of *)
(* two places the haversine distance.  A shape may turn back on itself,    *)
(* repeat a place, and bring its own column of distances, in the same      *)
(* unit, or None.  A stop is its index in the global list.                 *)
(***************************************************************************)
EXTENDS StopAssignment, Sequences, FiniteSets

CONSTANTS
  Calls,       \* calls of build_route_geometry: route.shape_ids, shapes and stops
  None,        \* no distance given
  Threshold    \* cross_track_threshold_m

\* A point of a shape: its place and its distance, if the file gives one.
Point == [at : Int, km : Int \cup {None}]

ASSUME GeometryAssumption ==
  /\ None \notin Int
  /\ \A c \in Calls :
       /\ \A id \in DOMAIN c.shapes : c.shapes[id] \in Seq(Point)
       /\ c.stops \in Seq(Int)

VARIABLES
  stage,       \* "alone" (only the dynamic program runs), "open", "assign", "returned", "raised"
  route,       \* the shape ids still to come
  shapes,      \* the points of each shape that is in the file
  stops,       \* the place of each stop in the global list
  rows,        \* stop_rows of the current shape: the stops, in order
  entries,     \* shape_entries
  merged       \* the stops of merged_stops_by_id, in order

callVars == <<shapes, stops>>
geoVars == <<stage, route, callVars, rows, entries, merged>>
allVars == <<dpVars, geoVars>>

-----------------------------------------------------------------------------
(* Polylines *)

Haversine(a, b) == IF a < b THEN b - a ELSE a - b

\* Cumulative distances from place to place.
HavCum(points) ==
  LET cum[i \in DOMAIN points] ==
        IF i = 1 THEN 0 ELSE cum[i - 1] + Haversine(points[i - 1].at, points[i].at)
  IN  cum

\* _validate_dists_m: the column never goes back, and its total is within half and twice
\* the total of the places.
ValidDists(points) ==
  LET n == Len(points)
      total == points[n].km - points[1].km
      walked == HavCum(points)[n]
  IN  /\ \A i \in 2 .. n : points[i].km >= points[i - 1].km
      /\ walked > 0 => walked <= 2 * total /\ total <= 2 * walked

\* build_polyline: the column given, made to start at 0, if it is usable.
BuildPolyline(points) ==
  LET given == \A i \in DOMAIN points : points[i].km # None
      column == IF given /\ points # << >> /\ ValidDists(points)
                THEN [i \in DOMAIN points |-> points[i].km - points[1].km] ELSE HavCum(points)
  IN  [i \in DOMAIN points |-> [at |-> points[i].at, cum |-> column[i]]]

-----------------------------------------------------------------------------
(* Projections *)

\* project_point_to_segment: the foot of x on the segment from a to b; t is clamped.
Foot(x, a, b) ==
  LET low == IF a.at < b.at THEN a.at ELSE b.at
      high == IF a.at < b.at THEN b.at ELSE a.at
  IN  IF x < low THEN low ELSE IF x > high THEN high ELSE x

OnSegment(x, a, b) ==
  IF b.cum <= a.cum THEN [progress |-> a.cum, cross |-> Haversine(x, a.at)]
  ELSE [progress |-> a.cum + Haversine(a.at, Foot(x, a, b)), cross |-> Haversine(x, Foot(x, a, b))]

\* Its division by zero: the distances grow along a segment that has no length.
DividesByZero(line) ==
  \E i \in 1 .. Len(line) - 1 : line[i + 1].cum > line[i].cum /\ line[i + 1].at = line[i].at

\* project_point_to_polyline: the first of the nearest segments.
OnPolyline(x, line) ==
  IF line = << >> THEN [progress |-> 0, cross |-> 0]
  ELSE IF Len(line) = 1 THEN [progress |-> line[1].cum, cross |-> Haversine(x, line[1].at)]
  ELSE LET on == [i \in 1 .. Len(line) - 1 |-> OnSegment(x, line[i], line[i + 1])]
           nearest == CHOOSE i \in DOMAIN on : \A h \in DOMAIN on :
                        on[i].cross < on[h].cross \/ (on[i].cross = on[h].cross /\ i <= h)
       IN  on[nearest]

-----------------------------------------------------------------------------
(* The members of a shape *)

Members(line) == {s \in DOMAIN stops : OnPolyline(stops[s], line).cross <= Threshold}

\* The elements of S, each once, in the order of R, which is total on S: as many come
\* before the i-th as the list has places before i.
Ranked(S, R) ==
  [i \in 1 .. Cardinality(S) |-> CHOOSE s \in S : Cardinality({t \in S : <<t, s>> \in R}) = i - 1]

\* Stops by their own nearest progress, and as they are listed where it is the same.
Nearer(line) ==
  {p \in (DOMAIN stops) \X (DOMAIN stops) :
     LET here == OnPolyline(stops[p[1]], line).progress
         there == OnPolyline(stops[p[2]], line).progress
     IN  here < there \/ (here = there /\ p[1] < p[2])}

\* The candidates, after their stable sort.
Candidates(line) == Ranked(Members(line), Nearer(line))

\* The matrices of assign_stops_monotonic.
Placement(order, line) ==
  LET n == Len(order)
      m == IF Len(line) = 0 THEN 0 ELSE Len(line) - 1
      on == [r \in 1 .. n |-> [c \in 1 .. m |-> OnSegment(stops[order[r]], line[c], line[c + 1])]]
  IN  [ K |-> n, M |-> m,
        cost |-> [r \in 1 .. n |-> [c \in 1 .. m |-> on[r][c].cross]],
        pos |-> [r \in 1 .. n |-> [c \in 1 .. m |-> on[r][c].progress]] ]

-----------------------------------------------------------------------------
(* build_route_geometry *)

NoInput == [K |-> 0, M |-> 0, cost |-> << >>, pos |-> << >>]

\* A call of the whole function, or of the dynamic program alone.
GeomInit ==
  /\ rows = << >> /\ entries = << >> /\ merged = << >>
  /\ \/ /\ stage = "alone" /\ DPInit
        /\ route = << >> /\ shapes = << >> /\ stops = << >>
     \/ /\ stage = "open" /\ Begin(NoInput)
        /\ \E c \in Calls : route = c.route /\ shapes = c.shapes /\ stops = c.stops

\* A shape id that is not in the file.
SkipShape ==
  /\ stage = "open" /\ route # << >> /\ Head(route) \notin DOMAIN shapes
  /\ route' = Tail(route)
  /\ UNCHANGED <<dpVars, stage, callVars, rows, entries, merged>>

\* project_point_to_segment divides by zero: nothing of the route is returned, and
\* start_runtime goes on with no geometry at all.
RaiseShape ==
  /\ stage = "open" /\ route # << >> /\ Head(route) \in DOMAIN shapes
  /\ stops # << >> /\ DividesByZero(BuildPolyline(shapes[Head(route)]))
  /\ stage' = "raised"
  /\ UNCHANGED <<dpVars, route, callVars, rows, entries, merged>>

\* Find and sort the stops of the next shape, and start their placement.
OpenShape ==
  LET line == BuildPolyline(shapes[Head(route)])
      order == Candidates(line)
      in == Placement(order, line)
  IN  /\ stage = "open" /\ route # << >> /\ Head(route) \in DOMAIN shapes
      /\ stops = << >> \/ ~ DividesByZero(line)
      /\ stage' = "assign" /\ rows' = order
      /\ K' = in.K /\ M' = in.M /\ cost' = in.cost /\ pos' = in.pos
      /\ pc' = "start" /\ k' = 1 /\ j' = 1 /\ arg' = 0
      /\ dp' = [r \in 1 .. in.K |-> [c \in 1 .. in.M |-> INF]]
      /\ back' = [r \in 1 .. in.K |-> [c \in 1 .. in.M |-> -1]]
      /\ segments' = [r \in 1 .. in.K |-> 0]
      /\ progress' = [r \in 1 .. in.K |-> 0]
      /\ UNCHANGED <<route, callVars, entries, merged>>

\* A loop of assign_stops_monotonic.
AssignStops == stage \in {"alone", "assign"} /\ DPNext /\ UNCHANGED geoVars

\* Mutation: the merge does not look at what other shapes of the route have added.
AllRows == rows

\* A row comes before another.
RowOrder ==
  {<<rows[p[1]], rows[p[2]]>> : p \in {q \in (DOMAIN rows) \X (DOMAIN rows) : q[1] < q[2]}}

\* The stops of the shape that are not merged yet.
NewStops ==
  Ranked({rows[i] : i \in DOMAIN rows} \ {merged[i] : i \in DOMAIN merged}, RowOrder)

\* build_stops and the entry of the shape; its stops are merged, each once.
CloseShape ==
  /\ stage = "assign" /\ pc = "done"
  /\ entries' = Append(entries, [ shape |-> Head(route),
                                  stops |-> [r \in 1 .. K |-> [id |-> rows[r], progress |-> progress[r]]] ])
  /\ merged' = merged \o NewStops
  /\ route' = Tail(route)
  /\ stage' = "open"
  /\ UNCHANGED <<dpVars, callVars, rows>>

ReturnRoute ==
  /\ stage = "open" /\ route = << >>
  /\ stage' = "returned"
  /\ UNCHANGED <<dpVars, route, callVars, rows, entries, merged>>

GeomNext == SkipShape \/ RaiseShape \/ OpenShape \/ AssignStops \/ CloseShape \/ ReturnRoute

GeomSpec == GeomInit /\ [][GeomNext]_allVars

-----------------------------------------------------------------------------
(* Properties *)

\* _pick_upcoming_stop: the first stop of the list that is not behind p, or the last.
PickUpcoming(list, p) ==
  IF \E i \in DOMAIN list : list[i].progress >= p
  THEN CHOOSE i \in DOMAIN list :
         list[i].progress >= p /\ \A h \in 1 .. i - 1 : list[h].progress < p
  ELSE Len(list)

\* Wherever a vehicle is along the line, the scan that stops at the first stop not behind
\* it finds the nearest ahead: the sort, the placement and the clamp together leave every
\* list in order, also when the column of distances stretches the line
\* (compute.py:163-182, "Stops must be ordered by stop_sequence / progress_m ascending").
AheadIsNearest ==
  stage = "returned" =>
    \A e \in DOMAIN entries : LET list == entries[e].stops IN
      \A i \in DOMAIN list : LET p == list[i].progress IN
        \A h \in DOMAIN list :
          /\ list[h].progress >= p => list[PickUpcoming(list, p)].progress <= list[h].progress
          /\ list[h].progress > p => list[PickUpcoming(list, p + 1)].progress <= list[h].progress

\* The distances of a polyline are those of its places.
TrueToPlaces(line) ==
  \A i \in 1 .. Len(line) - 1 : line[i + 1].cum - line[i].cum = Haversine(line[i].at, line[i + 1].at)

\* The stops are listed as a vehicle on the line comes by them: each lies on some segment,
\* and later ones further along.
InTravelOrder(line) ==
  \E on \in [DOMAIN stops -> 1 .. Len(line) - 1] :
    LET here == [s \in DOMAIN stops |-> OnSegment(stops[s], line[on[s]], line[on[s] + 1])]
    IN  /\ \A s \in DOMAIN stops : here[s].cross = 0
        /\ \A s, t \in DOMAIN stops : s < t => here[s].progress <= here[t].progress

\* Where a line comes by a place twice, a stop listed late is not put on the early pass: the
\* stops of a shape keep the order in which they are travelled (shapes.py:127-130, "This
\* correctly handles loop-back / doubling-back shapes where a late stop is physically close
\* to an early segment - independent per-stop nearest-segment projection would snap it to
\* the wrong pass"; shapes.py:232-233).
KeepsTravelOrder ==
  stage = "returned" =>
    \A e \in DOMAIN entries :
      InTravelOrder(BuildPolyline(shapes[entries[e].shape])) =>
        \A i, h \in DOMAIN entries[e].stops :
          i < h => entries[e].stops[i].id < entries[e].stops[h].id

\* Why it does not hold: on a line whose distances are those of its places, every stop is
\* put where its own nearest projection is, as if there were no dynamic program.  The stops
\* come to it sorted by that projection (shapes.py:331-332), so it never has a choice.
PlacedAtNearest ==
  stage = "returned" =>
    \A e \in DOMAIN entries :
      LET line == BuildPolyline(shapes[entries[e].shape])
      IN  TrueToPlaces(line) =>
            \A i \in DOMAIN entries[e].stops : LET s == entries[e].stops[i] IN
              s.progress = OnPolyline(stops[s.id], line).progress

\* The merged list is the stops of all shapes of the route, each once, and a shape that is
\* listed twice or shares its stops with another adds none again (shapes.py:370-379).
MergedOnce ==
  stage = "returned" =>
    /\ \A i, h \in DOMAIN merged : merged[i] = merged[h] => i = h
    /\ {merged[i] : i \in DOMAIN merged}
         = UNION {{entries[e].stops[i].id : i \in DOMAIN entries[e].stops} : e \in DOMAIN entries}
===============================================================================

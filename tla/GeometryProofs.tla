----------------------------- MODULE GeometryProofs -----------------------------
(***************************************************************************)
(* build_route_geometry returns lists a vehicle can be looked up in, for   *)
(* any shapes, stops and route.                                            *)
(*                                                                         *)
(* The induction over points and stops is by a least counterexample        *)
(* (Least): the set of the indices where a fact fails has a least element, *)
(* and there the fact follows from the index before.                       *)
(***************************************************************************)
EXTENDS Geometry, StopAssignmentProofs, FiniteSetTheorems, WellFoundedInduction

\* A set of naturals has a least element.
LEMMA Least ==
  ASSUME NEW T \in SUBSET Nat, T # {}
  PROVE  \E m \in T : \A x \in T : m <= x
  <1>1. PICK m \in T : \A x \in T : ~ (<<x, m>> \in OpToRel(<, Nat))
    BY NatLessThanWellFounded, WFMin
  <1>2. \A x \in T : ~ (x < m)
    BY <1>1 DEF OpToRel
  <1> QED
    BY <1>2

-----------------------------------------------------------------------------
(* Polylines *)

\* The distances walked up to point n.
Walks(points, n) ==
  {g \in [1 .. n -> Nat] :
     \A i \in 1 .. n : g[i] = IF i = 1 THEN 0
                              ELSE g[i - 1] + Haversine(points[i - 1].at, points[i].at)}

LEMMA HaversineType == ASSUME NEW a \in Int, NEW b \in Int PROVE Haversine(a, b) \in Nat
  BY DEF Haversine

LEMMA PointFields ==
  ASSUME NEW points \in Seq(Point), NEW i \in 1 .. Len(points)
  PROVE  points[i].at \in Int /\ points[i].km \in Int \cup {None}
  <1>1. points[i] \in Point
    OBVIOUS
  <1> QED
    BY <1>1 DEF Point

LEMMA StepType ==
  ASSUME NEW points \in Seq(Point), NEW i \in 2 .. Len(points)
  PROVE  Haversine(points[i - 1].at, points[i].at) \in Nat
  <1>1. i - 1 \in 1 .. Len(points) /\ i \in 1 .. Len(points)
    OBVIOUS
  <1>2. points[i - 1].at \in Int /\ points[i].at \in Int
    BY <1>1, PointFields
  <1> QED
    BY <1>2, HaversineType

\* There is a walk to every point.
LEMMA WalkExists ==
  ASSUME NEW points \in Seq(Point), NEW n \in 0 .. Len(points)
  PROVE  Walks(points, n) # {}
  <1> DEFINE Missing == {i \in 0 .. Len(points) : Walks(points, i) = {}}
  <1> SUFFICES Missing = {}
    BY Zenon
  <1> SUFFICES ASSUME Missing # {} PROVE FALSE
    OBVIOUS
  <1>10. Missing \in SUBSET Nat
    OBVIOUS
  <1>1. PICK m \in Missing : \A x \in Missing : m <= x
    <2> HIDE DEF Missing
    <2> QED
      BY <1>10, Least
  <1>2. m \in 0 .. Len(points) /\ Walks(points, m) = {} /\ Len(points) \in Nat
    OBVIOUS
  <1>3. m # 0
    <2>1. [i \in 1 .. 0 |-> 0] \in Walks(points, 0)
      BY DEF Walks
    <2> QED
      BY <1>2, <2>1
  <1>4. Walks(points, m - 1) # {}
    BY <1>1, <1>2, <1>3
  <1>5. PICK g \in [1 .. m - 1 -> Nat] :
          \A i \in 1 .. m - 1 : g[i] = IF i = 1 THEN 0
                                ELSE g[i - 1] + Haversine(points[i - 1].at, points[i].at)
    BY <1>4 DEF Walks
  <1> DEFINE next == IF m = 1 THEN 0 ELSE g[m - 1] + Haversine(points[m - 1].at, points[m].at)
             h == [i \in 1 .. m |-> IF i = m THEN next ELSE g[i]]
  <1>6. next \in Nat
    <2>1. m # 1 => m \in 2 .. Len(points) /\ m - 1 \in 1 .. m - 1
      BY <1>2, <1>3
    <2>2. m # 1 => Haversine(points[m - 1].at, points[m].at) \in Nat /\ g[m - 1] \in Nat
      BY <1>5, <2>1, StepType
    <2> QED
      BY <2>2
  <1> HIDE DEF next
  <1>7. h \in [1 .. m -> Nat]
    BY <1>2, <1>3, <1>5, <1>6
  <1>8. ASSUME NEW i \in 1 .. m
        PROVE  h[i] = IF i = 1 THEN 0 ELSE h[i - 1] + Haversine(points[i - 1].at, points[i].at)
    <2>1. CASE i = m
      BY <1>2, <1>3, <2>1 DEF next
    <2>2. CASE i # m
      BY <1>2, <1>3, <1>5, <2>2
    <2> QED
      BY <2>1, <2>2
  <1>9. h \in Walks(points, m)
    BY <1>7, <1>8 DEF Walks
  <1> QED
    BY <1>2, <1>9

\* HavCum is what its recursion says.
LEMMA HavCumWalks ==
  ASSUME NEW points \in Seq(Point)
  PROVE  HavCum(points) \in Walks(points, Len(points))
  <1> DEFINE Cum(c) == c = [i \in DOMAIN points |-> IF i = 1 THEN 0
                              ELSE c[i - 1] + Haversine(points[i - 1].at, points[i].at)]
  <1>1. Len(points) \in Nat /\ DOMAIN points = 1 .. Len(points)
    OBVIOUS
  <1>2. PICK g : g \in Walks(points, Len(points))
    BY <1>1, WalkExists
  <1>3. Cum(g)
    BY <1>1, <1>2, Zenon DEF Walks
  <1>4. HavCum(points) = CHOOSE f : Cum(f)
    BY DEF HavCum
  <1>5. Cum(CHOOSE f : Cum(f))
    <2> HIDE DEF Cum
    <2> QED
      BY <1>3
  <1>6. Cum(HavCum(points))
    BY <1>4, <1>5
  <1>7. ASSUME NEW f, Cum(f)
        PROVE  /\ DOMAIN f = 1 .. Len(points)
               /\ \A i \in 1 .. Len(points) :
                    f[i] = IF i = 1 THEN 0 ELSE f[i - 1] + Haversine(points[i - 1].at, points[i].at)
    <2> DEFINE e == [i \in DOMAIN points |-> IF i = 1 THEN 0
                       ELSE f[i - 1] + Haversine(points[i - 1].at, points[i].at)]
    <2>1. /\ DOMAIN e = DOMAIN points
          /\ \A i \in DOMAIN points :
               e[i] = IF i = 1 THEN 0 ELSE f[i - 1] + Haversine(points[i - 1].at, points[i].at)
      OBVIOUS
    <2>2. f = e
      <3>1. Cum(f)
        BY <1>7
      <3> QED
        BY <3>1, Zenon
    <2> HIDE DEF e
    <2>3. DOMAIN f = DOMAIN e /\ \A i \in DOMAIN points : f[i] = e[i]
      BY <2>2
    <2> QED
      BY <1>1, <2>1, <2>3
  <1> HIDE DEF Cum
  <1> DEFINE f == HavCum(points)
             Wrong == {i \in 1 .. Len(points) : f[i] \notin Nat}
  <1>11. /\ DOMAIN f = 1 .. Len(points)
         /\ \A i \in 1 .. Len(points) :
              f[i] = IF i = 1 THEN 0 ELSE f[i - 1] + Haversine(points[i - 1].at, points[i].at)
    BY <1>6, <1>7
  <1> HIDE DEF f
  <1>8. Wrong = {}
    <2> SUFFICES ASSUME Wrong # {} PROVE FALSE
      OBVIOUS
    <2>7. Wrong \in SUBSET Nat
      BY <1>1
    <2>1. PICK m \in Wrong : \A x \in Wrong : m <= x
      <3> HIDE DEF Wrong
      <3> QED
        BY <2>7, Least
    <2>8. m \in 1 .. Len(points) /\ f[m] \notin Nat
      OBVIOUS
    <2>2. m \in 1 .. Len(points) /\ f[m] \notin Nat /\ m # 1
      BY <1>11, <2>8
    <2>3. m - 1 \in 1 .. Len(points) /\ m \in 2 .. Len(points)
      BY <1>1, <2>2
    <2>5. f[m - 1] \in Nat
      BY <2>1, <2>3
    <2>4. Haversine(points[m - 1].at, points[m].at) \in Nat
      BY <2>3, StepType
    <2>6. f[m] = f[m - 1] + Haversine(points[m - 1].at, points[m].at)
      BY <1>11, <2>2
    <2> QED
      BY <2>2, <2>4, <2>5, <2>6
  <1>9. f \in [1 .. Len(points) -> Nat]
    <2>1. \A i \in 1 .. Len(points) :
            (IF i = 1 THEN 0 ELSE f[i - 1] + Haversine(points[i - 1].at, points[i].at)) \in Nat
      BY <1>8, <1>11
    <2>2. \A i \in 1 .. Len(points) : f[i] \in Nat
      BY <1>8
    <2>3. f = [i \in 1 .. Len(points) |-> f[i]]
      <3>1. f = [i \in DOMAIN points |-> IF i = 1 THEN 0
                   ELSE f[i - 1] + Haversine(points[i - 1].at, points[i].at)]
        BY <1>6, Zenon DEF f, Cum
      <3> QED
        BY <1>1, <1>11, <3>1
    <2> QED
      BY <2>2, <2>3
  <1>10. f \in Walks(points, Len(points))
    BY <1>9, <1>11 DEF Walks
  <1> QED
    BY <1>10 DEF f

\* A sequence that never goes back from one index to the next never does.
LEMMA Monotonic ==
  ASSUME NEW n \in Nat, NEW f \in [1 .. n -> Int], \A i \in 2 .. n : f[i - 1] <= f[i]
  PROVE  \A h \in 1 .. n : \A i \in 1 .. h : f[i] <= f[h]
  <1> DEFINE Wrong == {h \in 1 .. n : \E i \in 1 .. h : ~ (f[i] <= f[h])}
  <1> SUFFICES ASSUME Wrong # {} PROVE FALSE
    OBVIOUS
  <1>1. Wrong \in SUBSET Nat
    OBVIOUS
  <1>2. PICK m \in Wrong : \A x \in Wrong : m <= x
    <2> HIDE DEF Wrong
    <2> QED
      BY <1>1, Least
  <1>3. m \in 1 .. n /\ \E i \in 1 .. m : ~ (f[i] <= f[m])
    OBVIOUS
  <1>4. PICK i \in 1 .. m : ~ (f[i] <= f[m])
    BY <1>3
  <1>5. i # m /\ m \in 2 .. n /\ i \in 1 .. m - 1
    BY <1>3, <1>4
  <1>6. m - 1 \in 1 .. n /\ m - 1 \notin Wrong
    BY <1>2, <1>3, <1>5
  <1>7. f[i] <= f[m - 1]
    BY <1>5, <1>6
  <1>8. f[m - 1] <= f[m] /\ f[i] \in Int /\ f[m - 1] \in Int /\ f[m] \in Int
    BY <1>3, <1>5, <1>6
  <1> QED
    BY <1>4, <1>7, <1>8

\* A point of a polyline.
Place == [at : Int, cum : Nat]

\* Whether its distances are given or walked, a polyline has the places of its points,
\* starts at 0 and never goes back (shapes.py:52-84).
THEOREM PolylineGrows ==
  ASSUME NEW points \in Seq(Point)
  PROVE  LET line == BuildPolyline(points)
         IN  /\ line \in Seq(Place) /\ Len(line) = Len(points)
             /\ \A i \in 1 .. Len(line) : line[i].at = points[i].at
             /\ Len(line) > 0 => line[1].cum = 0
             /\ \A h \in 1 .. Len(line) : \A i \in 1 .. h : line[i].cum <= line[h].cum
  <1> DEFINE n == Len(points)
             given == \A i \in DOMAIN points : points[i].km # None
             usable == given /\ points # << >> /\ ValidDists(points)
             column == IF usable
                       THEN [i \in DOMAIN points |-> points[i].km - points[1].km] ELSE HavCum(points)
             line == [i \in DOMAIN points |-> [at |-> points[i].at, cum |-> column[i]]]
  <1>1. n \in Nat /\ DOMAIN points = 1 .. n
    OBVIOUS
  <1>2. BuildPolyline(points) = line
    BY DEF BuildPolyline
  <1>3. /\ column \in [1 .. n -> Nat]
        /\ n > 0 => column[1] = 0
        /\ \A h \in 1 .. n : \A i \in 1 .. h : column[i] <= column[h]
    <2>1. CASE usable
      <3> DEFINE km == [i \in 1 .. n |-> points[i].km]
      <3>1. \A i \in 1 .. n : points[i].km \in Int
        BY <1>1, <2>1, PointFields
      <3>2. km \in [1 .. n -> Int]
        BY <3>1
      <3>3. \A i \in 2 .. n : km[i - 1] <= km[i]
        <4>1. \A i \in 2 .. n : points[i].km >= points[i - 1].km
          BY <2>1 DEF ValidDists
        <4> QED
          BY <1>1, <3>1, <4>1
      <3>4. \A h \in 1 .. n : \A i \in 1 .. h : km[i] <= km[h]
        <4> HIDE DEF km
        <4> QED
          BY <1>1, <3>2, <3>3, Monotonic
      <3>5. n > 0
        BY <1>1, <2>1
      <3>6. \A i \in 1 .. n : km[1] <= km[i] /\ km[i] \in Int
        <4> HIDE DEF km
        <4> QED
          BY <1>1, <3>2, <3>4, <3>5
      <3>7. column = [i \in 1 .. n |-> km[i] - km[1]]
        <4>1. column = [i \in DOMAIN points |-> points[i].km - points[1].km]
          <5> HIDE DEF usable
          <5> QED
            BY <2>1
        <4>2. DOMAIN points = 1 .. n /\ 1 \in 1 .. n
          BY <1>1, <3>5
        <4> HIDE DEF n, column
        <4> QED
          BY <4>1, <4>2
      <3> HIDE DEF km, column
      <3> QED
        BY <1>1, <3>4, <3>5, <3>6, <3>7
    <2>2. CASE ~ usable
      <3>1. column = HavCum(points)
        BY <2>2
      <3> HIDE DEF column
      <3>2. /\ column \in [1 .. n -> Nat]
            /\ \A i \in 1 .. n : column[i] = IF i = 1 THEN 0
                 ELSE column[i - 1] + Haversine(points[i - 1].at, points[i].at)
        BY <3>1, HavCumWalks DEF Walks
      <3>3. ASSUME NEW i \in 2 .. n PROVE column[i - 1] <= column[i]
        <4>1. Haversine(points[i - 1].at, points[i].at) \in Nat
          BY StepType
        <4>2. i \in 1 .. n /\ i - 1 \in 1 .. n /\ i # 1
          BY <1>1
        <4>3. /\ column[i] = column[i - 1] + Haversine(points[i - 1].at, points[i].at)
              /\ column[i - 1] \in Nat
          BY <3>2, <4>2
        <4> QED
          BY <4>1, <4>3
      <3>4. column \in [1 .. n -> Int]
        BY <3>2
      <3>5. \A h \in 1 .. n : \A i \in 1 .. h : column[i] <= column[h]
        BY <1>1, <3>3, <3>4, Monotonic
      <3> QED
        BY <1>1, <3>2, <3>5
    <2> QED
      BY <2>1, <2>2
  <1> HIDE DEF column
  <1>4. \A i \in 1 .. n : [at |-> points[i].at, cum |-> column[i]] \in Place
    BY <1>3, PointFields DEF Place
  <1>5. line \in [1 .. n -> Place]
    BY <1>1, <1>4
  <1>6. line \in Seq(Place) /\ Len(line) = n
    BY <1>1, <1>5
  <1>7. \A i \in 1 .. n : line[i].at = points[i].at /\ line[i].cum = column[i]
    BY <1>1
  <1> HIDE DEF line
  <1> QED
    BY <1>1, <1>2, <1>3, <1>6, <1>7

-----------------------------------------------------------------------------
(* Projections *)

\* A row of distances has a first least one.
LEMMA FirstLeast ==
  ASSUME NEW m \in Nat \ {0}, NEW c \in [1 .. m -> Nat]
  PROVE  \E i \in 1 .. m : \A h \in 1 .. m : c[i] < c[h] \/ (c[i] = c[h] /\ i <= h)
  <1> DEFINE Values == {c[i] : i \in 1 .. m}
             Best(v) == {i \in 1 .. m : c[i] = v}
  <1>1. Values \in SUBSET Nat /\ c[1] \in Values
    OBVIOUS
  <1>2. PICK v \in Values : \A x \in Values : v <= x
    <2> HIDE DEF Values
    <2> QED
      BY <1>1, Least
  <1>3. Best(v) \in SUBSET Nat /\ Best(v) # {}
    OBVIOUS
  <1>4. PICK i \in Best(v) : \A x \in Best(v) : i <= x
    <2> HIDE DEF Best
    <2> QED
      BY <1>3, Least
  <1>5. i \in 1 .. m /\ c[i] = v /\ \A h \in 1 .. m : c[h] = v => i <= h
    BY <1>4
  <1>6. v \in Nat /\ \A h \in 1 .. m : v <= c[h] /\ c[h] \in Nat
    BY <1>2
  <1>7. ASSUME NEW h \in 1 .. m PROVE c[i] < c[h] \/ (c[i] = c[h] /\ i <= h)
    <2>1. v <= c[h] /\ c[h] \in Nat /\ (c[h] = v => i <= h)
      BY <1>5, <1>6
    <2> QED
      BY <1>5, <1>6, <2>1
  <1> QED
    BY <1>5, <1>7

LEMMA HaversineFacts ==
  ASSUME NEW a \in Int, NEW b \in Int
  PROVE  /\ Haversine(a, b) \in Nat /\ Haversine(a, b) = Haversine(b, a)
         /\ Haversine(a, b) = 0 <=> a = b
  BY DEF Haversine

LEMMA FootFacts ==
  ASSUME NEW x \in Int, NEW a \in Place, NEW b \in Place
  PROVE  /\ Foot(x, a, b) \in Int
         /\ Haversine(x, Foot(x, a, b)) <= Haversine(x, a.at)
         /\ Haversine(x, Foot(x, a, b)) <= Haversine(x, b.at)
         /\ Haversine(a.at, Foot(x, a, b)) <= Haversine(a.at, b.at)
  <1>1. a.at \in Int /\ b.at \in Int
    BY DEF Place
  <1> QED
    BY <1>1 DEF Foot, Haversine

\* A projection is between the ends of its segment, and no end of it is nearer.
LEMMA SegmentFacts ==
  ASSUME NEW x \in Int, NEW a \in Place, NEW b \in Place
  PROVE  LET on == OnSegment(x, a, b)
         IN  /\ on.progress \in Nat /\ on.cross \in Nat
             /\ b.cum - a.cum = Haversine(a.at, b.at) =>
                  /\ a.cum <= on.progress /\ on.progress <= b.cum
                  /\ on.cross <= Haversine(x, a.at) /\ on.cross <= Haversine(x, b.at)
                  /\ on.progress = a.cum => on.cross = Haversine(x, a.at)
  <1> DEFINE on == OnSegment(x, a, b)  f == Foot(x, a, b)
  <1>1. a.at \in Int /\ b.at \in Int /\ a.cum \in Nat /\ b.cum \in Nat
    BY DEF Place
  <1>2. /\ f \in Int
        /\ Haversine(x, f) <= Haversine(x, a.at) /\ Haversine(x, f) <= Haversine(x, b.at)
        /\ Haversine(a.at, f) <= Haversine(a.at, b.at)
    BY FootFacts
  <1> HIDE DEF f
  <1>3. /\ Haversine(x, f) \in Nat /\ Haversine(a.at, f) \in Nat /\ Haversine(x, a.at) \in Nat
        /\ Haversine(x, b.at) \in Nat /\ Haversine(a.at, b.at) \in Nat
        /\ Haversine(a.at, f) = 0 => f = a.at
        /\ Haversine(a.at, b.at) = 0 => b.at = a.at
    BY <1>1, <1>2, HaversineFacts
  <1>4. CASE b.cum <= a.cum
    <2>1. on.progress = a.cum /\ on.cross = Haversine(x, a.at)
      BY <1>4 DEF OnSegment
    <2> HIDE DEF on
    <2>2. b.cum - a.cum = Haversine(a.at, b.at) => b.at = a.at /\ b.cum = a.cum
      BY <1>1, <1>3, <1>4
    <2> QED
      BY <1>1, <1>3, <2>1, <2>2 DEF on
  <1>5. CASE ~ (b.cum <= a.cum)
    <2>1. on.progress = a.cum + Haversine(a.at, f) /\ on.cross = Haversine(x, f)
      BY <1>5 DEF OnSegment, f
    <2> HIDE DEF on
    <2> QED
      BY <1>1, <1>2, <1>3, <2>1 DEF on
  <1> QED
    BY <1>4, <1>5

\* Segment i is the first of the nearest to x.
FirstOf(x, line, i) ==
  /\ i \in 1 .. Len(line) - 1
  /\ \A h \in 1 .. Len(line) - 1 :
       LET on == OnSegment(x, line[i], line[i + 1])
           there == OnSegment(x, line[h], line[h + 1])
       IN  on.cross < there.cross \/ (on.cross = there.cross /\ i <= h)

LEMMA PlacesOf ==
  ASSUME NEW line \in Seq(Place), NEW i \in 1 .. Len(line)
  PROVE  line[i] \in Place /\ line[i].at \in Int /\ line[i].cum \in Nat
  <1>1. line[i] \in Place
    OBVIOUS
  <1> QED
    BY <1>1 DEF Place

\* project_point_to_polyline finds it.
LEMMA OnFirst ==
  ASSUME NEW x \in Int, NEW line \in Seq(Place), Len(line) > 1
  PROVE  /\ \E i : FirstOf(x, line, i)
         /\ \A i : FirstOf(x, line, i) => OnPolyline(x, line) = OnSegment(x, line[i], line[i + 1])
  <1> DEFINE m == Len(line) - 1
             on == [i \in 1 .. m |-> OnSegment(x, line[i], line[i + 1])]
             First(i) == i \in DOMAIN on /\ \A h \in DOMAIN on :
                           on[i].cross < on[h].cross \/ (on[i].cross = on[h].cross /\ i <= h)
             c == [i \in 1 .. m |-> on[i].cross]
  <1>0. Len(line) \in Nat
    OBVIOUS
  <1>1. m \in Nat \ {0} /\ Len(line) \in Nat
    <2>1. ASSUME NEW n \in Nat, n > 1 PROVE n - 1 \in Nat /\ n - 1 # 0
      BY <2>1
    <2>2. m \in Nat /\ m # 0
      BY <1>0, <2>1
    <2> QED
      BY <1>0, <2>2
  <1>2. \A i \in 1 .. m : line[i] \in Place /\ line[i + 1] \in Place
    BY <1>1, PlacesOf
  <1>3. c \in [1 .. m -> Nat]
    BY <1>2, SegmentFacts
  <1>4. \E i \in 1 .. m : \A h \in 1 .. m : c[i] < c[h] \/ (c[i] = c[h] /\ i <= h)
    <2> HIDE DEF c, m
    <2> QED
      BY <1>1, <1>3, FirstLeast
  <1>5. \E i : First(i)
    BY <1>4
  <1>6. \A i : First(i) <=> FirstOf(x, line, i)
    BY DEF FirstOf
  <1>7. \A i, h : First(i) /\ First(h) => i = h
    <2> SUFFICES ASSUME NEW i, NEW h, First(i), First(h) PROVE i = h
      OBVIOUS
    <2>1. i \in 1 .. m /\ h \in 1 .. m /\ on[i].cross \in Nat /\ on[h].cross \in Nat
      BY <1>3
    <2>2. /\ on[i].cross < on[h].cross \/ (on[i].cross = on[h].cross /\ i <= h)
          /\ on[h].cross < on[i].cross \/ (on[h].cross = on[i].cross /\ h <= i)
      BY <2>1
    <2> HIDE DEF on, m
    <2> QED
      BY <1>1, <2>1, <2>2
  <1>8. OnPolyline(x, line) = on[CHOOSE i : First(i)]
    <2>1. line # << >> /\ Len(line) # 1
      BY <1>1
    <2>2. OnPolyline(x, line) =
            LET nearest == CHOOSE i \in DOMAIN on : \A h \in DOMAIN on :
                  on[i].cross < on[h].cross \/ (on[i].cross = on[h].cross /\ i <= h)
            IN  on[nearest]
      BY <2>1 DEF OnPolyline
    <2> QED
      BY <2>2
  <1>9. First(CHOOSE i : First(i))
    <2> HIDE DEF First
    <2> QED
      BY <1>5
  <1>10. ASSUME NEW i, FirstOf(x, line, i)
         PROVE  OnPolyline(x, line) = OnSegment(x, line[i], line[i + 1])
    <2>1. First(i) /\ i \in 1 .. m
      BY <1>6, <1>10
    <2>2. i = CHOOSE h : First(h)
      <3> HIDE DEF First
      <3> QED
        BY <1>7, <1>9, <2>1
    <2>3. OnPolyline(x, line) = on[i]
      <3> HIDE DEF on, First
      <3> QED
        BY <1>8, <2>2
    <2> QED
      BY <2>1, <2>3
  <1> QED
    BY <1>5, <1>6, <1>10

\* project_point_to_polyline returns a progress and a distance, on any line; on one of a
\* single point or none it is the start.
LEMMA OnPolylineType ==
  ASSUME NEW x \in Int, NEW line \in Seq(Place)
  PROVE  OnPolyline(x, line).progress \in Nat /\ OnPolyline(x, line).cross \in Nat
  <1>1. CASE line = << >>
    BY <1>1 DEF OnPolyline
  <1>2. CASE Len(line) = 1
    <2>1. line[1] \in Place /\ line[1].at \in Int /\ line[1].cum \in Nat
      <3>1. 1 \in 1 .. Len(line)
        BY <1>2
      <3> QED
        BY <3>1, PlacesOf
    <2>2. line # << >>
      BY <1>2
    <2> QED
      BY <1>2, <2>1, <2>2, HaversineType DEF OnPolyline
  <1>3. CASE line # << >> /\ Len(line) # 1
    <2>1. Len(line) \in Nat /\ Len(line) > 1
      BY <1>3
    <2>2. PICK i : FirstOf(x, line, i)
      BY <2>1, OnFirst
    <2>3. OnPolyline(x, line) = OnSegment(x, line[i], line[i + 1])
      BY <2>1, <2>2, OnFirst
    <2>4. line[i] \in Place /\ line[i + 1] \in Place
      <3>1. i \in 1 .. Len(line) /\ i + 1 \in 1 .. Len(line)
        BY <2>1, <2>2 DEF FirstOf
      <3> QED
        BY <3>1, PlacesOf
    <2> QED
      BY <2>3, <2>4, SegmentFacts
  <1> QED
    BY <1>1, <1>2, <1>3

\* A polyline as build_polyline makes it.
Rising(line) ==
  /\ line \in Seq(Place)
  /\ Len(line) > 0 => line[1].cum = 0
  /\ \A h \in 1 .. Len(line) : \A i \in 1 .. h : line[i].cum <= line[h].cum

\* On a line whose distances are those of its places, places in the order of their own
\* projections have their nearest segments in that order: where two projections meet at a
\* point of the line, the segment that ends there is the first for both.
LEMMA SegmentsFollow ==
  ASSUME NEW x \in Int, NEW y \in Int, NEW line, Rising(line), TrueToPlaces(line),
         NEW i, FirstOf(x, line, i), NEW h, FirstOf(y, line, h),
         OnSegment(x, line[i], line[i + 1]).progress <= OnSegment(y, line[h], line[h + 1]).progress
  PROVE  i <= h
  <1> DEFINE n == Len(line)
             px == OnSegment(x, line[i], line[i + 1]).progress
             py == OnSegment(y, line[h], line[h + 1]).progress
             e == i - 1
  <1> SUFFICES ASSUME h < i PROVE FALSE
    BY DEF FirstOf
  <1>1. line \in Seq(Place) /\ n \in Nat
    BY DEF Rising
  <1>2. i \in 1 .. n - 1 /\ h \in 1 .. n - 1 /\ e \in 1 .. n - 1 /\ h <= e
    BY <1>1 DEF FirstOf
  <1>3. \A q \in 1 .. n - 1 :
          /\ line[q] \in Place /\ line[q + 1] \in Place
          /\ line[q].at \in Int /\ line[q].cum \in Nat /\ line[q + 1].cum \in Nat
          /\ line[q + 1].cum - line[q].cum = Haversine(line[q].at, line[q + 1].at)
    BY <1>1, PlacesOf DEF TrueToPlaces
  <1>4. /\ line[i].cum <= px /\ px \in Nat /\ py \in Nat /\ py <= line[h + 1].cum
        /\ px = line[i].cum => OnSegment(x, line[i], line[i + 1]).cross = Haversine(x, line[i].at)
    BY <1>2, <1>3, SegmentFacts
  <1>5. line[h + 1].cum <= line[i].cum
    <2>1. i \in 1 .. n /\ h + 1 \in 1 .. i
      BY <1>1, <1>2
    <2> QED
      BY <2>1 DEF Rising
  <1>6. px = line[i].cum /\ line[h + 1].cum = line[i].cum
    BY <1>2, <1>3, <1>4, <1>5
  <1>7. OnSegment(x, line[i], line[i + 1]).cross = Haversine(x, line[i].at)
    BY <1>4, <1>6
  <1>8. OnSegment(x, line[e], line[e + 1]).cross <= Haversine(x, line[e + 1].at)
    BY <1>2, <1>3, SegmentFacts
  <1>9. e + 1 = i /\ e < i
    BY <1>2
  <1>10. OnSegment(x, line[i], line[i + 1]).cross < OnSegment(x, line[e], line[e + 1]).cross
    BY <1>2, <1>9 DEF FirstOf
  <1>11. /\ OnSegment(x, line[i], line[i + 1]).cross \in Nat
         /\ OnSegment(x, line[e], line[e + 1]).cross \in Nat
    BY <1>2, <1>3, SegmentFacts
  <1> QED
    BY <1>7, <1>8, <1>9, <1>10, <1>11

-----------------------------------------------------------------------------
(* Lists *)

\* How many of S come before s.
Rank(S, R, s) == Cardinality({t \in S : <<t, s>> \in R})

IsOrder(S, R) ==
  /\ \A s \in S : <<s, s>> \notin R
  /\ \A s, t, u \in S : <<s, t>> \in R /\ <<t, u>> \in R => <<s, u>> \in R
  /\ \A s, t \in S : s = t \/ <<s, t>> \in R \/ <<t, s>> \in R

\* What comes before has a smaller rank, and every rank is less than the size of the set.
LEMMA RankGrows ==
  ASSUME NEW S, IsFiniteSet(S), NEW R, IsOrder(S, R), NEW s \in S
  PROVE  /\ Rank(S, R, s) \in 0 .. Cardinality(S) - 1
         /\ \A t \in S : <<s, t>> \in R => Rank(S, R, s) < Rank(S, R, t)
  <1> DEFINE Below(t) == {u \in S : <<u, t>> \in R}
  <1>1. \A t \in S : /\ IsFiniteSet(Below(t)) /\ Cardinality(Below(t)) \in Nat
    <2> SUFFICES ASSUME NEW t \in S PROVE IsFiniteSet(Below(t)) /\ Cardinality(Below(t)) \in Nat
      OBVIOUS
    <2>1. Below(t) \in SUBSET S
      OBVIOUS
    <2> HIDE DEF Below
    <2> QED
      BY <2>1, FS_Subset, FS_CardinalityType
  <1>2. s \notin Below(s)
    BY DEF IsOrder
  <1> DEFINE With == Below(s) \cup {s}
  <1>3. IsFiniteSet(With) /\ Cardinality(With) = Cardinality(Below(s)) + 1
    <2> HIDE DEF Below
    <2> QED
      BY <1>1, <1>2, FS_AddElement
  <1>4. ASSUME NEW T, IsFiniteSet(T), With \subseteq T
        PROVE  Cardinality(Below(s)) < Cardinality(T)
    <2>1. Cardinality(With) <= Cardinality(T) /\ Cardinality(T) \in Nat
      <3>1. With \in SUBSET T
        BY <1>4
      <3> HIDE DEF With
      <3> QED
        BY <1>4, <3>1, FS_Subset, FS_CardinalityType
    <2> HIDE DEF Below, With
    <2> QED
      BY <1>1, <1>3, <2>1
  <1>5. Cardinality(Below(s)) \in 0 .. Cardinality(S) - 1
    <2>1. With \subseteq S
      OBVIOUS
    <2>2. Cardinality(S) \in Nat
      BY FS_CardinalityType
    <2> HIDE DEF Below, With
    <2>3. Cardinality(Below(s)) < Cardinality(S) /\ Cardinality(Below(s)) \in Nat
      BY <1>1, <1>4, <2>1
    <2> QED
      BY <2>2, <2>3
  <1>6. ASSUME NEW t \in S, <<s, t>> \in R PROVE Cardinality(Below(s)) < Cardinality(Below(t))
    <2>1. With \subseteq Below(t)
      BY <1>6 DEF IsOrder
    <2> HIDE DEF Below, With
    <2> QED
      BY <1>1, <1>4, <2>1
  <1> QED
    BY <1>5, <1>6 DEF Rank

\* Ranked lists a finite set, each element once, in the order given.
LEMMA RankedLists ==
  ASSUME NEW S, IsFiniteSet(S), NEW R, IsOrder(S, R)
  PROVE  /\ Cardinality(S) \in Nat
         /\ Ranked(S, R) \in [1 .. Cardinality(S) -> S]
         /\ \A i, h \in 1 .. Cardinality(S) : i < h => <<Ranked(S, R)[i], Ranked(S, R)[h]>> \in R
         /\ \A s \in S : \E i \in 1 .. Cardinality(S) : Ranked(S, R)[i] = s
         /\ \A i, h \in 1 .. Cardinality(S) : Ranked(S, R)[i] = Ranked(S, R)[h] => i = h
  <1> DEFINE n == Cardinality(S)
             q == Ranked(S, R)
             place == [s \in S |-> Rank(S, R, s) + 1]
  <1>1. n \in Nat
    BY FS_CardinalityType
  <1>2. \A s \in S : Rank(S, R, s) \in 0 .. n - 1
    BY RankGrows
  <1>3. \A s, t \in S : <<s, t>> \in R => Rank(S, R, s) < Rank(S, R, t)
    BY RankGrows
  <1> HIDE DEF n
  <1>4. \A s, t \in S : Rank(S, R, s) = Rank(S, R, t) => s = t
    <2> SUFFICES ASSUME NEW s \in S, NEW t \in S, Rank(S, R, s) = Rank(S, R, t) PROVE s = t
      OBVIOUS
    <2>1. Rank(S, R, s) \in Int /\ Rank(S, R, t) \in Int
      BY <1>1, <1>2
    <2>2. s = t \/ <<s, t>> \in R \/ <<t, s>> \in R
      BY DEF IsOrder
    <2>3. /\ <<s, t>> \in R => Rank(S, R, s) < Rank(S, R, t)
          /\ <<t, s>> \in R => Rank(S, R, t) < Rank(S, R, s)
      BY <1>3
    <2> QED
      BY <2>1, <2>2, <2>3
  <1>5. place \in [S -> 1 .. n]
    BY <1>1, <1>2
  <1>6. \A s, t \in S : place[s] = place[t] => s = t
    <2> SUFFICES ASSUME NEW s \in S, NEW t \in S, place[s] = place[t] PROVE s = t
      OBVIOUS
    <2>1. Rank(S, R, s) \in Int /\ Rank(S, R, t) \in Int /\ Rank(S, R, s) + 1 = Rank(S, R, t) + 1
      BY <1>1, <1>2
    <2> QED
      BY <1>4, <2>1
  <1>7. \A i \in 1 .. n : \E s \in S : place[s] = i
    <2>1. place \in Injection(S, 1 .. n)
      <3> HIDE DEF place
      <3> QED
        BY <1>5, <1>6 DEF Injection, IsInjective
    <2>2. IsFiniteSet(1 .. n) /\ Cardinality(1 .. n) = n
      BY <1>1, FS_Interval
    <2>3. place \in Surjection(S, 1 .. n)
      <3> HIDE DEF place
      <3> QED
        BY <2>1, <2>2, FS_Injection DEF n
    <2> HIDE DEF place
    <2> QED
      BY <2>3 DEF Surjection
  <1>8. ASSUME NEW i \in 1 .. n PROVE q[i] \in S /\ Rank(S, R, q[i]) = i - 1
    <2>1. PICK s \in S : place[s] = i
      BY <1>7
    <2>2. Rank(S, R, s) = i - 1
      BY <1>1, <1>2, <2>1
    <2>3. q[i] = CHOOSE t \in S : Rank(S, R, t) = i - 1
      BY DEF n, Ranked, Rank
    <2> HIDE DEF q, place
    <2> QED
      BY <2>2, <2>3
  <1>9. q \in [1 .. n -> S]
    <2>1. q = [i \in 1 .. n |-> CHOOSE t \in S : Rank(S, R, t) = i - 1]
      BY DEF Ranked, Rank, n
    <2> HIDE DEF q
    <2>2. \A i \in 1 .. n : (CHOOSE t \in S : Rank(S, R, t) = i - 1) \in S
      BY <1>8, <2>1
    <2> QED
      BY <2>1, <2>2
  <1> HIDE DEF q
  <1>10. \A i, h \in 1 .. n : i < h => <<q[i], q[h]>> \in R
    <2> SUFFICES ASSUME NEW i \in 1 .. n, NEW h \in 1 .. n, i < h PROVE <<q[i], q[h]>> \in R
      OBVIOUS
    <2>1. /\ q[i] \in S /\ q[h] \in S
          /\ Rank(S, R, q[i]) = i - 1 /\ Rank(S, R, q[h]) = h - 1
      BY <1>8
    <2>2. q[i] # q[h] /\ <<q[h], q[i]>> \notin R
      BY <1>1, <1>3, <2>1
    <2> QED
      BY <2>1, <2>2 DEF IsOrder
  <1>11. \A s \in S : \E i \in 1 .. n : q[i] = s
    <2> SUFFICES ASSUME NEW s \in S PROVE \E i \in 1 .. n : q[i] = s
      OBVIOUS
    <2>1. Rank(S, R, s) + 1 \in 1 .. n /\ Rank(S, R, s) \in Int
      BY <1>1, <1>2
    <2>2. /\ q[Rank(S, R, s) + 1] \in S
          /\ Rank(S, R, q[Rank(S, R, s) + 1]) = Rank(S, R, s)
      BY <1>8, <2>1
    <2> QED
      BY <1>4, <2>1, <2>2
  <1>12. \A i, h \in 1 .. n : q[i] = q[h] => i = h
    BY <1>1, <1>8
  <1> QED
    BY <1>1, <1>9, <1>10, <1>11, <1>12 DEF n, q

-----------------------------------------------------------------------------
(* The stops of a shape *)

\* Where a stop projects on a line.
Own(s, line) == OnPolyline(stops[s], line).progress

CallTypes ==
  /\ stops \in Seq(Int)
  /\ \A id \in DOMAIN shapes : shapes[id] \in Seq(Point)

LEMMA OwnType ==
  ASSUME stops \in Seq(Int), NEW line \in Seq(Place), NEW s \in DOMAIN stops
  PROVE  stops[s] \in Int /\ Own(s, line) \in Nat
  <1>1. stops[s] \in Int
    OBVIOUS
  <1> QED
    BY <1>1, OnPolylineType DEF Own

\* The candidates are stops, each once, in the order of their own projections.
LEMMA CandidatesSorted ==
  ASSUME stops \in Seq(Int), NEW line \in Seq(Place)
  PROVE  LET order == Candidates(line)
         IN  /\ Len(order) \in Nat /\ order \in [1 .. Len(order) -> DOMAIN stops]
             /\ order \in Seq(DOMAIN stops)
             /\ \A i, h \in 1 .. Len(order) : order[i] = order[h] => i = h
             /\ \A h \in 1 .. Len(order) : \A i \in 1 .. h :
                  Own(order[i], line) <= Own(order[h], line)
  <1> DEFINE S == Members(line)  R == Nearer(line)  n == Cardinality(S)  order == Ranked(S, R)
  <1>1. S \in SUBSET DOMAIN stops /\ IsFiniteSet(S)
    <2>1. DOMAIN stops = 1 .. Len(stops) /\ Len(stops) \in Int
      OBVIOUS
    <2>2. IsFiniteSet(DOMAIN stops)
      BY <2>1, FS_Interval
    <2>3. S \in SUBSET DOMAIN stops
      BY DEF Members
    <2> HIDE DEF S
    <2> QED
      BY <2>2, <2>3, FS_Subset
  <1>2. \A s, t \in S : <<s, t>> \in R <=>
          Own(s, line) < Own(t, line) \/ (Own(s, line) = Own(t, line) /\ s < t)
    <2> HIDE DEF S
    <2> QED
      BY <1>1 DEF Nearer, Own
  <1>3. \A s \in S : s \in Int /\ Own(s, line) \in Nat
    <2> HIDE DEF S
    <2> QED
      BY <1>1, OwnType
  <1> HIDE DEF S, R
  <1>4. IsOrder(S, R)
    <2>1. \A s \in S : <<s, s>> \notin R
      BY <1>2, <1>3
    <2>2. ASSUME NEW s \in S, NEW t \in S, NEW u \in S, <<s, t>> \in R, <<t, u>> \in R
          PROVE  <<s, u>> \in R
      <3>1. Own(s, line) \in Nat /\ Own(t, line) \in Nat /\ Own(u, line) \in Nat
            /\ s \in Int /\ t \in Int /\ u \in Int
        BY <1>3
      <3>2. /\ Own(s, line) < Own(t, line) \/ (Own(s, line) = Own(t, line) /\ s < t)
            /\ Own(t, line) < Own(u, line) \/ (Own(t, line) = Own(u, line) /\ t < u)
        BY <1>2, <2>2
      <3>3. Own(s, line) < Own(u, line) \/ (Own(s, line) = Own(u, line) /\ s < u)
        BY <3>1, <3>2
      <3> QED
        BY <1>2, <3>3
    <2>3. ASSUME NEW s \in S, NEW t \in S PROVE s = t \/ <<s, t>> \in R \/ <<t, s>> \in R
      <3>1. Own(s, line) \in Nat /\ Own(t, line) \in Nat /\ s \in Int /\ t \in Int
        BY <1>3
      <3>2. \/ s = t
            \/ Own(s, line) < Own(t, line) \/ (Own(s, line) = Own(t, line) /\ s < t)
            \/ Own(t, line) < Own(s, line) \/ (Own(t, line) = Own(s, line) /\ t < s)
        BY <3>1
      <3> QED
        BY <1>2, <3>2
    <2> QED
      BY <2>1, <2>2, <2>3 DEF IsOrder
  <1>5. /\ n \in Nat /\ order \in [1 .. n -> S]
        /\ \A i, h \in 1 .. n : i < h => <<order[i], order[h]>> \in R
        /\ \A i, h \in 1 .. n : order[i] = order[h] => i = h
    BY <1>1, <1>4, RankedLists
  <1>6. Candidates(line) = order
    BY DEF Candidates, S, R
  <1> HIDE DEF order, n
  <1>7. Len(order) = n /\ order \in [1 .. n -> DOMAIN stops] /\ order \in Seq(DOMAIN stops)
    BY <1>1, <1>5
  <1>8. ASSUME NEW h \in 1 .. n, NEW i \in 1 .. h
        PROVE  Own(order[i], line) <= Own(order[h], line)
    <2>1. i \in 1 .. n /\ order[i] \in S /\ order[h] \in S
      BY <1>5
    <2>2. Own(order[i], line) \in Nat /\ Own(order[h], line) \in Nat
      BY <1>3, <2>1
    <2>3. CASE i = h
      BY <2>2, <2>3
    <2>4. CASE i < h
      <3>1. <<order[i], order[h]>> \in R
        BY <1>5, <2>1, <2>4
      <3>2. \/ Own(order[i], line) < Own(order[h], line)
            \/ Own(order[i], line) = Own(order[h], line) /\ order[i] < order[h]
        BY <1>2, <2>1, <3>1
      <3> QED
        BY <2>2, <3>2
    <2> QED
      BY <1>5, <2>3, <2>4
  <1> QED
    BY <1>5, <1>6, <1>7, <1>8

\* Their matrices are an instance of the dynamic program.
LEMMA PlacementIsInstance ==
  ASSUME stops \in Seq(Int), NEW line \in Seq(Place),
         NEW order, Len(order) \in Nat, order \in [1 .. Len(order) -> DOMAIN stops]
  PROVE  IsInstance(Placement(order, line))
  <1> DEFINE n == Len(order)
             m == IF Len(line) = 0 THEN 0 ELSE Len(line) - 1
             on == [r \in 1 .. n |-> [c \in 1 .. m |->
                      OnSegment(stops[order[r]], line[c], line[c + 1])]]
             in == Placement(order, line)
  <1>1. n \in Nat /\ m \in Nat
    OBVIOUS
  <1>2. ASSUME NEW r \in 1 .. n, NEW c \in 1 .. m
        PROVE  on[r][c].cross \in Nat /\ on[r][c].progress \in Nat
    <2>1. c \in 1 .. Len(line) /\ c + 1 \in 1 .. Len(line)
      OBVIOUS
    <2>2. line[c] \in Place /\ line[c + 1] \in Place
      BY <2>1, PlacesOf
    <2>3. order[r] \in DOMAIN stops
      OBVIOUS
    <2>4. stops[order[r]] \in Int
      BY <2>3
    <2> QED
      BY <2>2, <2>4, SegmentFacts
  <1>3. /\ in.K = n /\ in.M = m
        /\ in.cost = [r \in 1 .. n |-> [c \in 1 .. m |-> on[r][c].cross]]
        /\ in.pos = [r \in 1 .. n |-> [c \in 1 .. m |-> on[r][c].progress]]
    BY DEF Placement
  <1> HIDE DEF in, on, m, n
  <1> QED
    BY <1>1, <1>2, <1>3 DEF IsInstance, Matrix, in

-----------------------------------------------------------------------------
(* The invariant *)

\* In a shape, the dynamic program works on the matrices of its candidates.
Working ==
  stage = "assign" =>
    /\ route # << >> /\ Head(route) \in DOMAIN shapes
    /\ LET line == BuildPolyline(shapes[Head(route)])
           in == Placement(Candidates(line), line)
       IN  /\ rows = Candidates(line)
           /\ K = in.K /\ M = in.M /\ cost = in.cost /\ pos = in.pos

\* With no segments nothing moves the stops from the start.
Flat == M = 0 => \A r \in 1 .. K : progress[r] = 0

\* A list of stops is in order, and true to the projections where the line is.
ListOK(line, list) ==
  /\ \A h \in 1 .. Len(list) : \A i \in 1 .. h : list[i].progress <= list[h].progress
  /\ TrueToPlaces(line) =>
       \A i \in 1 .. Len(list) : list[i].progress = Own(list[i].id, line)

Entry == [shape : DOMAIN shapes, stops : Seq([id : DOMAIN stops, progress : Nat])]
EntriesOK ==
  /\ entries \in Seq(Entry)
  /\ \A e \in 1 .. Len(entries) : ListOK(BuildPolyline(shapes[entries[e].shape]), entries[e].stops)

Ids(e) == {entries[e].stops[i].id : i \in DOMAIN entries[e].stops}
MergedOK ==
  /\ merged \in Seq(DOMAIN stops)
  /\ \A i, h \in 1 .. Len(merged) : merged[i] = merged[h] => i = h
  /\ {merged[i] : i \in DOMAIN merged} = UNION {Ids(e) : e \in DOMAIN entries}

GInv ==
  /\ DPInv /\ NearInv /\ CallTypes /\ Working /\ Flat /\ EntriesOK /\ MergedOK

-----------------------------------------------------------------------------
(* What a shape leaves behind *)

LEMMA LineRises ==
  ASSUME CallTypes, NEW id \in DOMAIN shapes
  PROVE  Rising(BuildPolyline(shapes[id]))
  <1>1. shapes[id] \in Seq(Point)
    BY DEF CallTypes
  <1> QED
    BY <1>1, PolylineGrows DEF Rising

\* What the matrices say of a row and a column.
LEMMA PlacementReads ==
  ASSUME NEW line \in Seq(Place), NEW order, Len(order) \in Nat
  PROVE  LET in == Placement(order, line)
         IN  /\ in.K = Len(order) /\ in.M = (IF Len(line) = 0 THEN 0 ELSE Len(line) - 1)
             /\ \A r \in 1 .. in.K, c \in 1 .. in.M :
                  /\ in.cost[r][c] = OnSegment(stops[order[r]], line[c], line[c + 1]).cross
                  /\ in.pos[r][c] = OnSegment(stops[order[r]], line[c], line[c + 1]).progress
  BY DEF Placement

\* What the dynamic program has been given in a shape.
LEMMA WorkingReads ==
  ASSUME CallTypes, Working, stage = "assign"
  PROVE  LET line == BuildPolyline(shapes[Head(route)])
         IN  /\ Head(route) \in DOMAIN shapes /\ Rising(line)
             /\ rows = Candidates(line) /\ rows \in [1 .. K -> DOMAIN stops]
             /\ K = Len(rows) /\ K \in Nat
             /\ M = (IF Len(line) = 0 THEN 0 ELSE Len(line) - 1)
             /\ \A i, h \in 1 .. K : rows[i] = rows[h] => i = h
             /\ \A h \in 1 .. K : \A i \in 1 .. h : Own(rows[i], line) <= Own(rows[h], line)
             /\ \A r \in 1 .. K, c \in 1 .. M :
                  /\ cost[r][c] = OnSegment(stops[rows[r]], line[c], line[c + 1]).cross
                  /\ pos[r][c] = OnSegment(stops[rows[r]], line[c], line[c + 1]).progress
  <1> DEFINE line == BuildPolyline(shapes[Head(route)])
             in == Placement(rows, line)
  <1>1. Head(route) \in DOMAIN shapes /\ rows = Candidates(line)
        /\ K = in.K /\ M = in.M /\ cost = in.cost /\ pos = in.pos
    BY DEF Working
  <1>2. Rising(line) /\ line \in Seq(Place) /\ stops \in Seq(Int)
    BY <1>1, LineRises DEF Rising, CallTypes
  <1> HIDE DEF line
  <1>3. /\ Len(rows) \in Nat /\ rows \in [1 .. Len(rows) -> DOMAIN stops]
        /\ \A i, h \in 1 .. Len(rows) : rows[i] = rows[h] => i = h
        /\ \A h \in 1 .. Len(rows) : \A i \in 1 .. h : Own(rows[i], line) <= Own(rows[h], line)
    BY <1>1, <1>2, CandidatesSorted
  <1>4. /\ in.K = Len(rows) /\ in.M = (IF Len(line) = 0 THEN 0 ELSE Len(line) - 1)
        /\ \A r \in 1 .. in.K, c \in 1 .. in.M :
             /\ in.cost[r][c] = OnSegment(stops[rows[r]], line[c], line[c + 1]).cross
             /\ in.pos[r][c] = OnSegment(stops[rows[r]], line[c], line[c + 1]).progress
    <2>1. Len(rows) \in Nat /\ line \in Seq(Place)
      BY <1>2, <1>3
    <2> QED
      BY ONLY <2>1, PlacementReads
  <1> HIDE DEF in
  <1> QED
    BY <1>1, <1>2, <1>3, <1>4 DEF line

\* On a line true to its places the nearest segments of the sorted stops go along the
\* line, so the placement is these segments, and there each stop is at its own projection.
LEMMA NearestOfLine ==
  ASSUME CallTypes, Working, stage = "assign", DPInv, NearInv, Placed,
         TrueToPlaces(BuildPolyline(shapes[Head(route)])),
         NEW r \in 1 .. K
  PROVE  pos[r][segments[r]] = Own(rows[r], BuildPolyline(shapes[Head(route)]))
  <1> DEFINE line == BuildPolyline(shapes[Head(route)])
             x(q) == stops[rows[q]]
             First(q) == CHOOSE i : FirstOf(x(q), line, i)
             f == [q \in 1 .. K |-> First(q)]
  <1>1. TrueToPlaces(line)
    OBVIOUS
  <1>2. /\ Rising(line) /\ line \in Seq(Place) /\ K \in Nat /\ M = Len(line) - 1 /\ Len(line) > 1
        /\ rows \in [1 .. K -> DOMAIN stops] /\ stops \in Seq(Int)
        /\ \A h \in 1 .. K : \A i \in 1 .. h : Own(rows[i], line) <= Own(rows[h], line)
        /\ \A q \in 1 .. K, c \in 1 .. M :
             /\ cost[q][c] = OnSegment(x(q), line[c], line[c + 1]).cross
             /\ pos[q][c] = OnSegment(x(q), line[c], line[c + 1]).progress
    <2>1. M > 0
      BY DEF Placed
    <2>2. Rising(line) /\ line \in Seq(Place) /\ Len(line) \in Nat
      <3>1. Rising(line) /\ line \in Seq(Place)
        BY WorkingReads DEF Rising
      <3> HIDE DEF line
      <3> QED
        BY <3>1
    <2>3. M = (IF Len(line) = 0 THEN 0 ELSE Len(line) - 1)
      BY WorkingReads
    <2>4. M = Len(line) - 1 /\ Len(line) > 1
      <3> HIDE DEF line
      <3> QED
        BY <2>1, <2>2, <2>3
    <2> QED
      BY <2>2, <2>4, WorkingReads DEF CallTypes
  <1> HIDE DEF line
  <1>3. \A q \in 1 .. K : x(q) \in Int
    BY <1>2
  <1>4. ASSUME NEW q \in 1 .. K PROVE FirstOf(x(q), line, f[q])
    <2>1. \E i : FirstOf(x(q), line, i)
      BY <1>2, <1>3, OnFirst
    <2> QED
      BY <2>1
  <1> HIDE DEF f
  <1>5. ASSUME NEW q \in 1 .. K
        PROVE  /\ f[q] \in 1 .. M
               /\ Own(rows[q], line) = pos[q][f[q]]
               /\ \A c \in 1 .. M :
                    cost[q][f[q]] < cost[q][c] \/ (cost[q][f[q]] = cost[q][c] /\ f[q] <= c)
    <2>1. FirstOf(x(q), line, f[q]) /\ x(q) \in Int
      BY <1>3, <1>4
    <2>2. f[q] \in 1 .. M
      BY <1>2, <2>1 DEF FirstOf
    <2>3. OnPolyline(x(q), line) = OnSegment(x(q), line[f[q]], line[f[q] + 1])
      BY <1>2, <2>1, OnFirst
    <2>4. Own(rows[q], line) = pos[q][f[q]]
      BY <1>2, <2>2, <2>3 DEF Own
    <2>5. \A c \in 1 .. M :
            cost[q][f[q]] < cost[q][c] \/ (cost[q][f[q]] = cost[q][c] /\ f[q] <= c)
      BY <1>2, <2>1, <2>2 DEF FirstOf
    <2> QED
      BY <2>2, <2>4, <2>5
  <1>6. ASSUME NEW q \in 2 .. K PROVE f[q - 1] <= f[q]
    <2>1. q - 1 \in 1 .. K /\ q \in 1 .. K /\ q - 1 \in 1 .. q
      BY <1>2
    <2>2. ASSUME NEW w \in 1 .. K
          PROVE  Own(rows[w], line) = OnSegment(x(w), line[f[w]], line[f[w] + 1]).progress
      <3>1. Own(rows[w], line) = pos[w][f[w]] /\ f[w] \in 1 .. M
        BY <1>5
      <3>2. pos[w][f[w]] = OnSegment(x(w), line[f[w]], line[f[w] + 1]).progress
        BY <1>2, <3>1
      <3> QED
        BY <3>1, <3>2
    <2>3. \A w \in 1 .. K : FirstOf(x(w), line, f[w]) /\ x(w) \in Int
      BY <1>3, <1>4
    <2>4. Own(rows[q - 1], line) <= Own(rows[q], line)
      BY <1>2, <2>1
    <2>5. PICK v \in 1 .. K : v = q - 1
      BY <2>1
    <2>6. OnSegment(x(v), line[f[v]], line[f[v] + 1]).progress
            <= OnSegment(x(q), line[f[q]], line[f[q] + 1]).progress
      BY <2>1, <2>2, <2>4, <2>5
    <2>7. /\ FirstOf(x(v), line, f[v]) /\ x(v) \in Int
          /\ FirstOf(x(q), line, f[q]) /\ x(q) \in Int
      BY <2>1, <2>3
    <2> HIDE DEF x
    <2>8. f[v] <= f[q]
      BY ONLY <1>1, <1>2, <2>6, <2>7, SegmentsFollow
    <2> QED
      BY <2>5, <2>8
  <1>7. f \in Nearest
    <2>1. f \in [1 .. K -> 1 .. M]
      BY <1>5 DEF f
    <2> QED
      BY <1>5, <1>6, <2>1 DEF Nearest, Monotone
  <1>8. segments = f
    BY <1>7, InvNearestKept DEF NearestKept
  <1> QED
    BY <1>5, <1>8 DEF line

\* On a line without segments everything is at its start.
LEMMA OnShortLine ==
  ASSUME NEW line \in Seq(Place), Len(line) = 0 \/ Len(line) = 1,
         Len(line) > 0 => line[1].cum = 0, NEW x
  PROVE  OnPolyline(x, line).progress = 0
  <1>1. CASE Len(line) = 0
    <2>1. line = << >>
      BY <1>1
    <2>2. OnPolyline(x, line) = [progress |-> 0, cross |-> 0]
      BY <2>1 DEF OnPolyline
    <2> QED
      BY <2>2
  <1>2. CASE Len(line) = 1
    <2>1. line # << >>
      BY <1>2
    <2>2. OnPolyline(x, line) = [progress |-> line[1].cum, cross |-> Haversine(x, line[1].at)]
      BY <1>2, <2>1 DEF OnPolyline
    <2>3. line[1].cum = 0
      BY <1>2
    <2> QED
      BY <2>2, <2>3
  <1> QED
    BY <1>1, <1>2

\* The list a shape returns is in order, and on a line true to its places it is the
\* stops' own projections: with no segments all stops are at the start.
LEMMA ShapeList ==
  ASSUME CallTypes, Working, stage = "assign", pc = "done", DPInv, NearInv, Flat,
         NEW list, list = [r \in 1 .. K |-> [id |-> rows[r], progress |-> progress[r]]]
  PROVE  /\ list \in Seq([id : DOMAIN stops, progress : Nat]) /\ Len(list) = K
         /\ \A r \in 1 .. K : list[r].id = rows[r]
         /\ ListOK(BuildPolyline(shapes[Head(route)]), list)
  <1> DEFINE line == BuildPolyline(shapes[Head(route)])
  <1>1. /\ Rising(line) /\ rows \in [1 .. K -> DOMAIN stops] /\ K \in Nat /\ stops \in Seq(Int)
        /\ M = (IF Len(line) = 0 THEN 0 ELSE Len(line) - 1)
        /\ \A h \in 1 .. K : \A i \in 1 .. h : Own(rows[i], line) <= Own(rows[h], line)
    BY WorkingReads DEF CallTypes
  <1>2. progress \in [1 .. K -> Nat] /\ K \in Nat /\ M \in Nat
    BY DEF DPInv, DPTypeOK
  <1>3. \A r \in 1 .. K : /\ list[r] \in [id : DOMAIN stops, progress : Nat]
                          /\ list[r].id = rows[r] /\ list[r].progress = progress[r]
    BY <1>1, <1>2
  <1>4. list \in [1 .. K -> [id : DOMAIN stops, progress : Nat]]
    BY <1>3
  <1>5. list \in Seq([id : DOMAIN stops, progress : Nat]) /\ Len(list) = K
    BY <1>1, <1>4
  <1>6. M > 0 /\ K > 0 => InOrder /\ Placed
    BY DEF Placed, DPInv, Walked, Till, InOrder
  <1>7. ASSUME NEW h \in 1 .. K, NEW i \in 1 .. h PROVE progress[i] <= progress[h]
    <2>1. CASE M = 0
      <3>1. progress[i] = 0 /\ progress[h] = 0
        BY <1>2, <2>1 DEF Flat
      <3> QED
        BY <3>1
    <2>2. CASE M # 0
      <3>1. M > 0 /\ K > 0
        BY <1>2, <2>2
      <3> QED
        BY <1>6, <3>1 DEF InOrder
    <2> QED
      BY <2>1, <2>2
  <1>8. ASSUME TrueToPlaces(line), NEW r \in 1 .. K PROVE progress[r] = Own(rows[r], line)
    <2>1. CASE M = 0
      <3>1. progress[r] = 0
        BY <2>1 DEF Flat
      <3>2. line \in Seq(Place) /\ (Len(line) > 0 => line[1].cum = 0)
        BY <1>1 DEF Rising
      <3> HIDE DEF line
      <3>3. Len(line) = 0 \/ Len(line) = 1
        BY <1>1, <2>1, <3>2
      <3>4. OnPolyline(stops[rows[r]], line).progress = 0
        BY <3>2, <3>3, OnShortLine
      <3> QED
        BY <3>1, <3>4 DEF Own
    <2>2. CASE M # 0
      <3>1. Placed /\ InOrder
        BY <1>2, <1>6, <2>2
      <3>2. \A q \in 1 .. K : pos[q][segments[q]] = Own(rows[q], line)
        BY <1>8, <3>1, NearestOfLine
      <3>3. PICK q \in 1 .. r : progress[r] = pos[q][segments[q]]
        BY <3>1 DEF InOrder
      <3>4. pos[r][segments[r]] <= progress[r]
        BY <3>1 DEF InOrder
      <3>5. Own(rows[q], line) <= Own(rows[r], line)
        BY <1>1
      <3>6. Own(rows[q], line) \in Nat /\ Own(rows[r], line) \in Nat
        <4>1. q \in 1 .. K /\ rows[q] \in DOMAIN stops /\ rows[r] \in DOMAIN stops
          BY <1>1
        <4>2. line \in Seq(Place)
          BY <1>1 DEF Rising
        <4> HIDE DEF line
        <4> QED
          BY <1>1, <4>1, <4>2, OwnType
      <3>7. q \in 1 .. K
        BY <1>1
      <3> HIDE DEF line
      <3> QED
        BY <3>2, <3>3, <3>4, <3>5, <3>6, <3>7
    <2> QED
      BY <2>1, <2>2
  <1>9. ListOK(line, list)
    <2>1. ASSUME NEW h \in 1 .. Len(list), NEW i \in 1 .. h
          PROVE  list[i].progress <= list[h].progress
      <3>1. h \in 1 .. K /\ i \in 1 .. K
        BY <1>1, <1>5
      <3>2. list[h].progress = progress[h] /\ list[i].progress = progress[i]
        BY <1>3, <3>1
      <3> QED
        BY <1>7, <3>1, <3>2
    <2>2. ASSUME TrueToPlaces(line), NEW i \in 1 .. Len(list)
          PROVE  list[i].progress = Own(list[i].id, line)
      <3>1. i \in 1 .. K
        BY <1>5
      <3> HIDE DEF line
      <3> QED
        BY <1>3, <1>8, <2>2, <3>1
    <2> HIDE DEF line
    <2> QED
      BY <2>1, <2>2 DEF ListOK
  <1> QED
    BY <1>3, <1>5, <1>9

\* Rows are ordered by their places, because no stop is twice among them.
LEMMA RowsOrdered ==
  ASSUME NEW n \in Nat, NEW T, rows \in [1 .. n -> T],
         \A i, h \in 1 .. n : rows[i] = rows[h] => i = h,
         NEW S, S \subseteq {rows[i] : i \in DOMAIN rows}
  PROVE  IsFiniteSet(S) /\ IsOrder(S, RowOrder)
  <1> DEFINE Before(s, t) == <<s, t>> \in RowOrder
  <1>1. DOMAIN rows = 1 .. n
    OBVIOUS
  <1>2. ASSUME NEW i \in 1 .. n, NEW h \in 1 .. n
        PROVE  Before(rows[i], rows[h]) <=> i < h
    <2>1. i < h => Before(rows[i], rows[h])
      <3> SUFFICES ASSUME i < h
                   PROVE  \E p \in {q \in (1 .. n) \X (1 .. n) : q[1] < q[2]} :
                            <<rows[i], rows[h]>> = <<rows[p[1]], rows[p[2]]>>
        BY <1>1 DEF RowOrder
      <3>1. <<i, h>> \in {q \in (1 .. n) \X (1 .. n) : q[1] < q[2]}
        OBVIOUS
      <3> QED
        BY <3>1
    <2>2. ASSUME Before(rows[i], rows[h]) PROVE i < h
      <3>1. PICK p \in {q \in (1 .. n) \X (1 .. n) : q[1] < q[2]} :
              <<rows[i], rows[h]>> = <<rows[p[1]], rows[p[2]]>>
        BY <1>1, <2>2 DEF RowOrder
      <3>2. p[1] \in 1 .. n /\ p[2] \in 1 .. n /\ p[1] < p[2]
        OBVIOUS
      <3>3. rows[i] = rows[p[1]] /\ rows[h] = rows[p[2]]
        BY <3>1
      <3>4. i = p[1] /\ h = p[2]
        BY <3>2, <3>3
      <3> QED
        BY <3>2, <3>4
    <2> QED
      BY <2>1, <2>2
  <1>3. \A s \in S : \E i \in 1 .. n : s = rows[i]
    BY <1>1
  <1> HIDE DEF Before
  <1>4. IsFiniteSet(S)
    <2>1. IsFiniteSet(1 .. n)
      BY FS_Interval
    <2> DEFINE Rows == {rows[i] : i \in 1 .. n}
    <2>2. rows \in Surjection(1 .. n, Rows)
      BY DEF Surjection
    <2>3. S \subseteq Rows
      BY <1>1
    <2> HIDE DEF Rows
    <2> QED
      BY <2>1, <2>2, <2>3, FS_Surjection, FS_Subset
  <1>5. \A s \in S : ~ Before(s, s)
    BY <1>2, <1>3
  <1>6. \A s, t, u \in S : Before(s, t) /\ Before(t, u) => Before(s, u)
    <2> SUFFICES ASSUME NEW s \in S, NEW t \in S, NEW u \in S, Before(s, t), Before(t, u)
                 PROVE  Before(s, u)
      OBVIOUS
    <2>1. PICK i \in 1 .. n : s = rows[i]
      BY <1>3
    <2>2. PICK h \in 1 .. n : t = rows[h]
      BY <1>3
    <2>3. PICK g \in 1 .. n : u = rows[g]
      BY <1>3
    <2>4. i < h /\ h < g
      BY <1>2, <2>1, <2>2, <2>3
    <2> QED
      BY <1>2, <2>1, <2>3, <2>4
  <1>7. \A s, t \in S : s = t \/ Before(s, t) \/ Before(t, s)
    <2> SUFFICES ASSUME NEW s \in S, NEW t \in S PROVE s = t \/ Before(s, t) \/ Before(t, s)
      OBVIOUS
    <2>1. PICK i \in 1 .. n : s = rows[i]
      BY <1>3
    <2>2. PICK h \in 1 .. n : t = rows[h]
      BY <1>3
    <2>3. i = h \/ i < h \/ h < i
      OBVIOUS
    <2> QED
      BY <1>2, <2>1, <2>2, <2>3
  <1> QED
    BY <1>4, <1>5, <1>6, <1>7 DEF IsOrder, Before

\* The merge adds what it does not have.
LEMMA MergeAdds ==
  ASSUME NEW n \in Nat, NEW T, rows \in [1 .. n -> T],
         \A i, h \in 1 .. n : rows[i] = rows[h] => i = h,
         merged \in Seq(T),
         \A i, h \in 1 .. Len(merged) : merged[i] = merged[h] => i = h
  PROVE  LET new == merged \o NewStops
         IN  /\ new \in Seq(T)
             /\ \A i, h \in 1 .. Len(new) : new[i] = new[h] => i = h
             /\ {new[i] : i \in DOMAIN new}
                  = {merged[i] : i \in DOMAIN merged} \cup {rows[i] : i \in 1 .. n}
  <1> DEFINE Rows == {rows[i] : i \in DOMAIN rows}
             Had == {merged[i] : i \in DOMAIN merged}
             S == Rows \ Had
             m == Len(merged)
             c == Cardinality(S)
             q == NewStops
             new == merged \o q
  <1>1. IsFiniteSet(S) /\ IsOrder(S, RowOrder)
    BY RowsOrdered
  <1>2. q = Ranked(S, RowOrder)
    BY DEF NewStops
  <1> HIDE DEF S, q
  <1>3. /\ c \in Nat /\ q \in [1 .. c -> S]
        /\ \A s \in S : \E i \in 1 .. c : q[i] = s
        /\ \A i, h \in 1 .. c : q[i] = q[h] => i = h
    <2>1. PICK R : R = RowOrder
      OBVIOUS
    <2>2. IsFiniteSet(S) /\ IsOrder(S, R) /\ q = Ranked(S, R)
      BY <1>1, <1>2, <2>1
    <2> QED
      BY <2>2, RankedLists
  <1> HIDE DEF c
  <1>4. S \subseteq T /\ DOMAIN rows = 1 .. n
    BY DEF S
  <1>5. q \in Seq(T) /\ Len(q) = c
    BY <1>3, <1>4
  <1>6. m \in Nat /\ DOMAIN merged = 1 .. m
    OBVIOUS
  <1>7. /\ new \in Seq(T) /\ Len(new) = m + c /\ DOMAIN new = 1 .. m + c
        /\ \A i \in 1 .. m : new[i] = merged[i]
        /\ \A i \in m + 1 .. m + c : new[i] = q[i - m] /\ i - m \in 1 .. c
    BY <1>3, <1>5, <1>6
  <1> HIDE DEF new, m
  <1>8. \A i \in m + 1 .. m + c : new[i] \in S
    BY <1>3, <1>7
  <1>9. \A i \in 1 .. m : new[i] \in Had /\ new[i] \notin S
    BY <1>6, <1>7 DEF S
  <1>10. ASSUME NEW i \in 1 .. m + c, NEW h \in 1 .. m + c, new[i] = new[h] PROVE i = h
    <2>1. CASE i <= m /\ h <= m
      BY <1>6, <1>7, <1>10, <2>1 DEF m
    <2>2. CASE i > m /\ h > m
      <3>1. i \in m + 1 .. m + c /\ h \in m + 1 .. m + c
        BY <1>3, <1>6, <2>2
      <3>2. q[i - m] = q[h - m] /\ i - m \in 1 .. c /\ h - m \in 1 .. c
        BY <1>7, <1>10, <3>1
      <3>3. i - m = h - m
        BY <1>3, <3>2
      <3> QED
        BY <1>6, <3>3
    <2>3. CASE i <= m /\ h > m
      <3>1. i \in 1 .. m /\ h \in m + 1 .. m + c
        BY <1>3, <1>6, <2>3
      <3> QED
        BY <1>8, <1>9, <1>10, <3>1
    <2>4. CASE i > m /\ h <= m
      <3>1. h \in 1 .. m /\ i \in m + 1 .. m + c
        BY <1>3, <1>6, <2>4
      <3> QED
        BY <1>8, <1>9, <1>10, <3>1
    <2> QED
      BY <1>3, <1>6, <2>1, <2>2, <2>3, <2>4
  <1>11. {new[i] : i \in DOMAIN new} = Had \cup S
    <2>1. \A i \in DOMAIN new : new[i] \in Had \cup S
      <3> SUFFICES ASSUME NEW i \in 1 .. m + c PROVE new[i] \in Had \cup S
        BY <1>7
      <3>1. i \in 1 .. m \/ i \in m + 1 .. m + c
        BY <1>3, <1>6
      <3> HIDE DEF Had
      <3> QED
        BY <1>8, <1>9, <3>1
    <2>2. ASSUME NEW s \in Had PROVE \E i \in DOMAIN new : new[i] = s
      <3>1. PICK i \in 1 .. m : merged[i] = s
        BY <1>6
      <3>2. i \in DOMAIN new /\ new[i] = s
        BY <1>3, <1>6, <1>7, <3>1
      <3> QED
        BY <3>2
    <2>3. ASSUME NEW s \in S PROVE \E i \in DOMAIN new : new[i] = s
      <3>1. PICK i \in 1 .. c : q[i] = s
        BY <1>3
      <3>2. m + i \in m + 1 .. m + c /\ (m + i) - m = i
        BY <1>3, <1>6
      <3>3. new[m + i] = s /\ m + i \in DOMAIN new
        BY <1>3, <1>6, <1>7, <3>1, <3>2
      <3> QED
        BY <3>3
    <2> HIDE DEF Had
    <2> QED
      BY <2>1, <2>2, <2>3
  <1>12. Had \cup S = Had \cup {rows[i] : i \in 1 .. n}
    BY <1>4 DEF S
  <1>13. \A i, h \in 1 .. Len(new) : new[i] = new[h] => i = h
    BY <1>7, <1>10
  <1>14. new \in Seq(T) /\ {new[i] : i \in DOMAIN new} = Had \cup {rows[i] : i \in 1 .. n}
    <2> HIDE DEF Had
    <2> QED
      BY <1>7, <1>11, <1>12
  <1> QED
    BY <1>13, <1>14 DEF new, q

-----------------------------------------------------------------------------
(* The steps *)

\* Where the dynamic program begins, its invariants and Flat hold.
LEMMA BeginAll ==
  ASSUME NEW i, IsInstance(i), Begin(i)
  PROVE  DPInv /\ NearInv /\ Flat
  <1>1. Flat
    BY DEF Begin, Flat
  <1> QED
    BY <1>1, BeginInv, BeginNear

\* So they do after a step that begins it.
LEMMA BeginNext ==
  ASSUME NEW CONSTANT i
  PROVE  IsInstance(i) /\ Begin(i)' => (DPInv /\ NearInv /\ Flat)'
  <1>1. IsInstance(i) /\ Begin(i) => DPInv /\ NearInv /\ Flat
    BY BeginAll
  <1>2. IsInstance(i)' <=> IsInstance(i)
    BY DEF IsInstance, Matrix
  <1>3. (IsInstance(i) /\ Begin(i))' => (DPInv /\ NearInv /\ Flat)'
    BY <1>1, PTL
  <1> QED
    BY <1>2, <1>3

LEMMA NoInputIsInstance == IsInstance(NoInput)
  <1>1. NoInput.K = 0 /\ NoInput.M = 0 /\ NoInput.cost = << >> /\ NoInput.pos = << >>
    BY DEF NoInput
  <1>2. << >> \in Matrix(0, 0, Nat)
    BY DEF Matrix
  <1> QED
    BY <1>1, <1>2 DEF IsInstance

LEMMA GeomInitInv == ASSUME GeomInit PROVE GInv
  <1> USE DEF GeomInit
  <1>1. rows = << >> /\ entries = << >> /\ merged = << >>
    OBVIOUS
  <1>2. DPInv /\ NearInv /\ Flat
    <2>1. CASE DPInit
      BY <2>1, BeginAll, InstanceAssumption DEF DPInit
    <2>2. CASE Begin(NoInput)
      BY <2>2, BeginAll, NoInputIsInstance
    <2> QED
      BY <2>1, <2>2
  <1>3. CallTypes
    <2>1. CASE shapes = << >> /\ stops = << >>
      BY <2>1 DEF CallTypes
    <2>2. CASE \E c \in Calls : shapes = c.shapes /\ stops = c.stops
      BY <2>2, GeometryAssumption DEF CallTypes
    <2> QED
      BY <2>1, <2>2
  <1>4. Working
    BY DEF Working
  <1>5. EntriesOK /\ MergedOK
    BY <1>1 DEF EntriesOK, MergedOK
  <1> QED
    BY <1>2, <1>3, <1>4, <1>5 DEF GInv

\* The steps that leave the lists alone.
LEMMA ListsStay ==
  ASSUME GInv, UNCHANGED <<callVars, entries, merged>>
  PROVE  CallTypes' /\ EntriesOK' /\ MergedOK'
  <1> USE DEF GInv, callVars
  <1>1. CallTypes'
    BY DEF CallTypes
  <1>2. Entry' = Entry /\ \A line, list : ListOK(line, list)' = ListOK(line, list)
    BY DEF Entry, ListOK, Own, TrueToPlaces
  <1>3. EntriesOK'
    BY <1>2 DEF EntriesOK
  <1>4. MergedOK'
    BY DEF MergedOK, Ids
  <1> QED
    BY <1>1, <1>3, <1>4

LEMMA DPStays ==
  ASSUME GInv, UNCHANGED dpVars
  PROVE  DPInv' /\ NearInv' /\ Flat'
  <1>1. Flat'
    BY DEF GInv, Flat, dpVars
  <1> QED
    BY <1>1, StutterInv, StutterNear DEF GInv

\* The candidates and their matrices are those of the call.
LEMMA CandidatesStay ==
  ASSUME UNCHANGED callVars, NEW CONSTANT line, NEW CONSTANT order
  PROVE  Candidates(line)' = Candidates(line) /\ Placement(order, line)' = Placement(order, line)
  <1>1. stops' = stops
    BY DEF callVars
  <1>2. Members(line)' = Members(line) /\ Nearer(line)' = Nearer(line)
    BY <1>1 DEF Members, Nearer
  <1> QED
    BY <1>1, <1>2 DEF Candidates, Placement

LEMMA WorkingStays ==
  ASSUME Working, UNCHANGED <<stage, route, callVars, rows, K, M, cost, pos>>
  PROVE  Working'
  <1>1. PICK line : line = BuildPolyline(shapes[Head(route)])
    OBVIOUS
  <1>2. PICK order : order = Candidates(line)
    OBVIOUS
  <1>3. Candidates(line)' = Candidates(line) /\ Placement(order, line)' = Placement(order, line)
    BY CandidatesStay
  <1>4. shapes' = shapes
    BY DEF callVars
  <1> QED
    BY <1>1, <1>2, <1>3, <1>4 DEF Working

\* SkipShape, RaiseShape and ReturnRoute, and steps of nothing.
LEMMA QuietInv ==
  ASSUME GInv, UNCHANGED <<dpVars, callVars, rows, entries, merged>>,
         stage' # "assign" \/ UNCHANGED <<stage, route>>
  PROVE  GInv'
  <1>1. Working'
    <2>1. CASE stage' # "assign"
      BY <2>1 DEF Working
    <2>2. CASE UNCHANGED <<stage, route>>
      BY <2>2, WorkingStays DEF GInv, dpVars
    <2> QED
      BY <2>1, <2>2
  <1> QED
    BY <1>1, DPStays, ListsStay DEF GInv

LEMMA OpenShapeInv == ASSUME GInv, OpenShape PROVE GInv'
  <1> DEFINE line == BuildPolyline(shapes[Head(route)])
             order == Candidates(line)
             in == Placement(order, line)
  <1>1. /\ route # << >> /\ Head(route) \in DOMAIN shapes /\ stage' = "assign" /\ rows' = order
        /\ UNCHANGED <<route, shapes, stops, entries, merged>>
    BY DEF OpenShape, callVars
  <1>2. CallTypes
    BY DEF GInv
  <1>3. line \in Seq(Place) /\ stops \in Seq(Int)
    BY <1>1, <1>2, LineRises DEF CallTypes, Rising
  <1>4. IsInstance(in)
    <2> HIDE DEF line
    <2>1. Len(order) \in Nat /\ order \in [1 .. Len(order) -> DOMAIN stops]
      BY <1>3, CandidatesSorted
    <2> QED
      BY <1>3, <2>1, PlacementIsInstance
  <1>5. K' = in.K /\ M' = in.M /\ cost' = in.cost /\ pos' = in.pos
    BY DEF OpenShape
  <1>6. DPInv' /\ NearInv' /\ Flat'
    <2>1. PICK i : i = in
      OBVIOUS
    <2>2. IsInstance(i)
      BY <1>4, <2>1
    <2>3. Begin(i)'
      BY <2>1 DEF OpenShape, Begin
    <2> QED
      BY <2>2, <2>3, BeginNext
  <1>7. Working'
    <2>1. PICK l : l = line
      OBVIOUS
    <2>2. PICK o : o = order
      OBVIOUS
    <2>3. Candidates(l)' = Candidates(l) /\ Placement(o, l)' = Placement(o, l)
      BY <1>1, CandidatesStay DEF callVars
    <2>4. line' = line
      BY <1>1
    <2> HIDE DEF line
    <2>5. order' = order /\ in' = in
      BY <2>1, <2>2, <2>3, <2>4
    <2>6. rows' = order' /\ K' = in'.K /\ M' = in'.M /\ cost' = in'.cost /\ pos' = in'.pos
      BY <1>1, <1>5, <2>5
    <2>7. route' # << >> /\ Head(route') \in DOMAIN shapes'
      BY <1>1
    <2> QED
      BY <2>6, <2>7 DEF Working, line
  <1> QED
    BY <1>1, <1>6, <1>7, ListsStay DEF GInv, callVars

LEMMA AssignStopsInv == ASSUME GInv, AssignStops PROVE GInv'
  <1>1. DPInv /\ NearInv /\ DPNext /\ UNCHANGED geoVars
    BY DEF GInv, AssignStops
  <1>2. DPInv' /\ NearInv'
    BY <1>1, NextInv, NextNear
  <1>3. UNCHANGED <<K, M, cost, pos>>
    BY <1>1 DEF DPNext, NothingToDo, FirstRow, FillCell, SearchLast, Backtrack, ReadOff, Clamp,
                Return, input
  <1>4. Working'
    BY <1>1, <1>3, WorkingStays DEF GInv, geoVars
  <1>5. Flat'
    <2> SUFFICES ASSUME M = 0 PROVE UNCHANGED progress
      BY <1>3 DEF GInv, Flat
    <2>1. pc \in {"start", "done"}
      BY <1>1 DEF DPInv, Cursor
    <2> QED
      BY <1>1, <2>1 DEF DPNext, NothingToDo, FirstRow, FillCell, SearchLast, Backtrack, ReadOff,
                        Clamp, Return
  <1>6. CallTypes' /\ EntriesOK' /\ MergedOK'
    BY <1>1, ListsStay DEF geoVars, callVars
  <1> QED
    BY <1>2, <1>4, <1>5, <1>6 DEF GInv

LEMMA CloseShapeInv == ASSUME GInv, CloseShape PROVE GInv'
  <1> USE DEF GInv
  <1> DEFINE list == [r \in 1 .. K |-> [id |-> rows[r], progress |-> progress[r]]]
             entry == [shape |-> Head(route), stops |-> list]
  <1>1. /\ stage = "assign" /\ pc = "done" /\ stage' = "open"
        /\ entries' = Append(entries, entry) /\ merged' = merged \o NewStops
        /\ UNCHANGED <<shapes, stops>> /\ UNCHANGED dpVars
    BY DEF CloseShape, callVars
  <1>2. /\ list \in Seq([id : DOMAIN stops, progress : Nat]) /\ Len(list) = K
        /\ \A r \in 1 .. K : list[r].id = rows[r]
        /\ ListOK(BuildPolyline(shapes[Head(route)]), list)
    BY <1>1, ShapeList
  <1> HIDE DEF list
  <1>3. /\ Head(route) \in DOMAIN shapes /\ rows \in [1 .. K -> DOMAIN stops] /\ K \in Nat
        /\ \A i, h \in 1 .. K : rows[i] = rows[h] => i = h
    BY <1>1, WorkingReads
  <1>4. entry \in Entry /\ entry.shape = Head(route) /\ entry.stops = list
    BY <1>2, <1>3 DEF Entry
  <1> HIDE DEF entry
  <1>10. PICK n : n = Len(entries)
    OBVIOUS
  <1>5. n \in Nat /\ n = Len(entries) /\ entries \in Seq(Entry)
    BY <1>10 DEF EntriesOK
  <1>6. /\ entries' \in Seq(Entry) /\ Len(entries') = n + 1
        /\ \A e \in 1 .. n : entries'[e] = entries[e]
        /\ entries'[n + 1] = entry
    BY <1>1, <1>4, <1>5
  <1>7. EntriesOK'
    <2>1. Entry' = Entry /\ \A l, m : ListOK(l, m)' = ListOK(l, m)
      BY <1>1 DEF Entry, ListOK, Own, TrueToPlaces
    <2>2. ASSUME NEW e \in 1 .. n + 1
          PROVE  ListOK(BuildPolyline(shapes[entries'[e].shape]), entries'[e].stops)
      <3>1. CASE e = n + 1
        BY <1>2, <1>4, <1>6, <3>1
      <3>2. CASE e # n + 1
        <4>1. e \in 1 .. n
          BY <1>5, <3>2
        <4> QED
          BY <1>5, <1>6, <4>1 DEF EntriesOK
      <3> QED
        BY <3>1, <3>2
    <2> QED
      BY <1>1, <1>6, <2>1, <2>2 DEF EntriesOK
  <1>8. MergedOK'
    <2> DEFINE Rows == {rows[i] : i \in 1 .. K}
               Merged == {merged[i] : i \in DOMAIN merged}
               new == merged \o NewStops
    <2>1. /\ new \in Seq(DOMAIN stops)
          /\ \A i, h \in 1 .. Len(new) : new[i] = new[h] => i = h
          /\ {new[i] : i \in DOMAIN new} = Merged \cup Rows
      <3>1. /\ merged \in Seq(DOMAIN stops)
            /\ \A i, h \in 1 .. Len(merged) : merged[i] = merged[h] => i = h
        BY DEF MergedOK
      <3> QED
        BY ONLY <1>3, <3>1, MergeAdds
    <2> HIDE DEF new
    <2>2. {list[i].id : i \in DOMAIN list} = Rows
      <3>1. DOMAIN list = 1 .. K
        BY <1>2
      <3> QED
        BY <1>2, <3>1
    <2>3. DOMAIN entries = 1 .. n /\ DOMAIN entries' = 1 .. n + 1
      BY <1>5, <1>6
    <2>4. \A e \in 1 .. n : Ids(e)' = Ids(e)
      BY <1>6 DEF Ids
    <2>5. Ids(n + 1)' = Rows
      <3>1. entries'[n + 1].stops = list
        BY <1>4, <1>6
      <3>2. Ids(n + 1)' = {list[i].id : i \in DOMAIN list}
        BY <3>1 DEF Ids
      <3> QED
        BY <2>2, <3>2
    <2>6. UNION {Ids(e)' : e \in DOMAIN entries'} = (UNION {Ids(e) : e \in DOMAIN entries}) \cup Rows
      <3> DEFINE New == {Ids(e)' : e \in 1 .. n + 1}
                 Old == {Ids(e) : e \in 1 .. n}
      <3>1. \A e : e \in 1 .. n + 1 <=> e \in 1 .. n \/ e = n + 1
        BY <1>5
      <3>2. ASSUME NEW x \in UNION New PROVE x \in (UNION Old) \cup Rows
        <4>1. PICK e \in 1 .. n + 1 : x \in Ids(e)'
          OBVIOUS
        <4> HIDE DEF Rows, Ids
        <4>2. e \in 1 .. n \/ e = n + 1
          BY <3>1
        <4> QED
          BY <2>4, <2>5, <4>1, <4>2
      <3>3. ASSUME NEW x \in UNION Old PROVE x \in UNION New
        <4>1. PICK e \in 1 .. n : x \in Ids(e)
          OBVIOUS
        <4> HIDE DEF Rows, Ids
        <4>2. e \in 1 .. n + 1
          BY <3>1
        <4> QED
          BY <2>4, <4>1, <4>2
      <3>4. ASSUME NEW x \in Rows PROVE x \in UNION New
        <4> HIDE DEF Rows, Ids
        <4>1. n + 1 \in 1 .. n + 1
          BY <3>1
        <4> QED
          BY <2>5, <4>1
      <3> HIDE DEF New, Old, Rows
      <3>5. UNION New = (UNION Old) \cup Rows
        BY <3>2, <3>3, <3>4
      <3> QED
        BY <2>3, <3>5 DEF New, Old
    <2> HIDE DEF Rows
    <2>7. Merged = UNION {Ids(e) : e \in DOMAIN entries}
      BY DEF MergedOK
    <2> HIDE DEF Merged
    <2>8. merged' = new /\ stops' = stops
      BY <1>1 DEF new
    <2>9. {merged'[i] : i \in DOMAIN merged'} = UNION {Ids(e)' : e \in DOMAIN entries'}
      BY <2>1, <2>6, <2>7, <2>8
    <2> QED
      BY <2>1, <2>8, <2>9 DEF MergedOK
  <1>9. DPInv' /\ NearInv' /\ Flat' /\ CallTypes' /\ Working'
    <2>1. CallTypes' /\ Working'
      BY <1>1 DEF CallTypes, Working
    <2> QED
      BY <1>1, <2>1, DPStays
  <1> QED
    BY <1>7, <1>8, <1>9

LEMMA GeomNextInv == ASSUME GInv, GeomNext PROVE GInv'
  <1>1. CASE SkipShape
    BY <1>1, QuietInv DEF SkipShape
  <1>2. CASE RaiseShape
    BY <1>2, QuietInv DEF RaiseShape
  <1>3. CASE ReturnRoute
    BY <1>3, QuietInv DEF ReturnRoute
  <1> QED
    BY <1>1, <1>2, <1>3, OpenShapeInv, AssignStopsInv, CloseShapeInv DEF GeomNext

LEMMA GeomInvariant == GeomSpec => []GInv
  <1>1. GeomInit => GInv
    BY GeomInitInv
  <1>2. GInv /\ UNCHANGED allVars => GInv'
    BY QuietInv DEF allVars, geoVars
  <1>3. GInv /\ [GeomNext]_allVars => GInv'
    BY <1>2, GeomNextInv
  <1> QED
    BY <1>1, <1>3, PTL DEF GeomSpec

-----------------------------------------------------------------------------
(* The theorems *)

\* The matrices of every shape are an instance of the dynamic program, whose promises hold
\* within the whole function: its types, a cheapest placement (shapes.py:128-145), stops in
\* order (shapes.py:215-221), and their own nearest segments where these are in order.
THEOREM GeometryPlaces == GeomSpec => [](DPTypeOK /\ Cheapest /\ InOrder /\ NearestKept)
  <1>1. GInv => DPTypeOK /\ Cheapest /\ NearestKept
    BY InvCheapest, InvNearestKept DEF GInv, DPInv
  <1>2. GInv => InOrder
    BY DEF GInv, DPInv, Walked, Till, InOrder, Placed
  <1> QED
    BY <1>1, <1>2, GeomInvariant, PTL

\* The first stop that is not behind p, if there is one, is not behind it and the nearest.
LEMMA PickIsNearest ==
  ASSUME NEW list, Len(list) \in Nat, DOMAIN list = 1 .. Len(list),
         \A i \in 1 .. Len(list) : list[i].progress \in Nat,
         \A h \in 1 .. Len(list) : \A i \in 1 .. h : list[i].progress <= list[h].progress,
         NEW p \in Nat, NEW h \in 1 .. Len(list), list[h].progress >= p
  PROVE  list[PickUpcoming(list, p)].progress <= list[h].progress
  <1> DEFINE n == Len(list)
             Ahead == {i \in 1 .. n : list[i].progress >= p}
             First(i) == i \in DOMAIN list /\ list[i].progress >= p
                         /\ \A g \in 1 .. i - 1 : list[g].progress < p
  <1>1. Ahead \in SUBSET Nat /\ Ahead # {}
    OBVIOUS
  <1>2. PICK m \in Ahead : \A x \in Ahead : m <= x
    <2> HIDE DEF Ahead
    <2> QED
      BY <1>1, Least
  <1>3. First(m)
    <2>1. m \in 1 .. n /\ list[m].progress >= p
      OBVIOUS
    <2>2. ASSUME NEW g \in 1 .. m - 1 PROVE list[g].progress < p
      <3>1. g \in 1 .. n /\ ~ (m <= g)
        BY <2>1
      <3>2. g \notin Ahead
        BY <1>2, <3>1
      <3>3. list[g].progress \in Nat /\ ~ (list[g].progress >= p)
        BY <3>1, <3>2
      <3> QED
        BY <3>3
    <2> QED
      BY <2>1, <2>2
  <1>4. PickUpcoming(list, p) = CHOOSE i : First(i)
    <2>1. \E i \in DOMAIN list : list[i].progress >= p
      OBVIOUS
    <2>2. PickUpcoming(list, p) = CHOOSE i \in DOMAIN list :
            list[i].progress >= p /\ \A g \in 1 .. i - 1 : list[g].progress < p
      BY <2>1 DEF PickUpcoming
    <2> QED
      BY <2>2
  <1>5. First(PickUpcoming(list, p))
    <2> HIDE DEF First
    <2> QED
      BY <1>3, <1>4
  <1>6. PickUpcoming(list, p) \in 1 .. h
    <2>1. ~ (h \in 1 .. PickUpcoming(list, p) - 1)
      BY <1>5
    <2>2. PickUpcoming(list, p) \in 1 .. n
      BY <1>5
    <2> QED
      BY <2>1, <2>2
  <1> QED
    BY <1>6

\* In every list returned, the scan of _pick_upcoming_stop finds the nearest stop ahead
\* (compute.py:163-182).
THEOREM GeometryOrdered == GeomSpec => []AheadIsNearest
  <1>1. GInv => AheadIsNearest
    <2> SUFFICES ASSUME GInv, NEW e \in DOMAIN entries,
                        NEW i \in DOMAIN entries[e].stops, NEW h \in DOMAIN entries[e].stops
                 PROVE  LET list == entries[e].stops
                            p == list[i].progress
                        IN  /\ list[h].progress >= p =>
                                 list[PickUpcoming(list, p)].progress <= list[h].progress
                            /\ list[h].progress > p =>
                                 list[PickUpcoming(list, p + 1)].progress <= list[h].progress
      BY DEF AheadIsNearest
    <2> DEFINE list == entries[e].stops
               p == list[i].progress
    <2>1. entries[e] \in Entry /\ e \in 1 .. Len(entries)
      BY DEF GInv, EntriesOK
    <2>2. list \in Seq([id : DOMAIN stops, progress : Nat])
      BY <2>1 DEF Entry
    <2>3. \A q \in 1 .. Len(list) : \A r \in 1 .. q : list[r].progress <= list[q].progress
      BY <2>1 DEF GInv, EntriesOK, ListOK
    <2> HIDE DEF list
    <2>4. /\ Len(list) \in Nat /\ DOMAIN list = 1 .. Len(list)
          /\ \A r \in 1 .. Len(list) : list[r].progress \in Nat
      <3>1. ASSUME NEW S, list \in Seq(S)
            PROVE  /\ Len(list) \in Nat /\ DOMAIN list = 1 .. Len(list)
                   /\ \A r \in 1 .. Len(list) : list[r] \in S
        BY <3>1
      <3>2. \A r \in 1 .. Len(list) : list[r] \in [id : DOMAIN stops, progress : Nat]
        BY <2>2, <3>1
      <3> QED
        BY <2>2, <3>1, <3>2
    <2>5. i \in 1 .. Len(list) /\ h \in 1 .. Len(list)
      BY <2>4 DEF list
    <2>6. p \in Nat /\ p + 1 \in Nat /\ list[h].progress \in Nat
      BY <2>4, <2>5
    <2> HIDE DEF p
    <2>7. list[h].progress >= p => list[PickUpcoming(list, p)].progress <= list[h].progress
      BY <2>3, <2>4, <2>5, <2>6, PickIsNearest
    <2>8. ASSUME list[h].progress > p
          PROVE  list[PickUpcoming(list, p + 1)].progress <= list[h].progress
      <3>1. list[h].progress >= p + 1
        BY <2>6, <2>8
      <3> QED
        BY <2>3, <2>4, <2>5, <2>6, <3>1, PickIsNearest
    <2> QED
      BY <2>7, <2>8 DEF list, p
  <1> QED
    BY <1>1, GeomInvariant, PTL

\* The disagreement that KeepsTravelOrder shows is not one of a few lines: on all lines whose
\* distances are those of their places, every stop is put at its own nearest projection, the
\* rule that shapes.py:127-130 rejects.
THEOREM GeometryTrue == GeomSpec => []PlacedAtNearest
  <1>1. GInv => PlacedAtNearest
    <2> SUFFICES ASSUME GInv, NEW e \in DOMAIN entries,
                        TrueToPlaces(BuildPolyline(shapes[entries[e].shape])),
                        NEW i \in DOMAIN entries[e].stops
                 PROVE  entries[e].stops[i].progress
                          = OnPolyline(stops[entries[e].stops[i].id],
                                       BuildPolyline(shapes[entries[e].shape])).progress
      BY DEF PlacedAtNearest
    <2>1. entries[e] \in Entry /\ e \in 1 .. Len(entries)
      BY DEF GInv, EntriesOK
    <2>2. i \in 1 .. Len(entries[e].stops)
      <3>1. entries[e].stops \in Seq([id : DOMAIN stops, progress : Nat])
        BY <2>1 DEF Entry
      <3> QED
        BY <3>1
    <2> QED
      BY <2>1, <2>2 DEF GInv, EntriesOK, ListOK, Own
  <1> QED
    BY <1>1, GeomInvariant, PTL

\* The merged stops are those of all shapes of the route, each once (shapes.py:370-379).
THEOREM GeometryMerges == GeomSpec => []MergedOnce
  <1>1. GInv => MergedOnce
    <2> SUFFICES ASSUME GInv PROVE MergedOnce
      OBVIOUS
    <2>1. DOMAIN merged = 1 .. Len(merged)
      BY DEF GInv, MergedOK
    <2> QED
      BY <2>1 DEF GInv, MergedOK, MergedOnce, Ids
  <1> QED
    BY <1>1, GeomInvariant, PTL
=============================================================================

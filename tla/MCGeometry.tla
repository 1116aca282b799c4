------------------------------ MODULE MCGeometry ------------------------------
(***************************************************************************)
(* The dynamic program on every small instance, and calls of               *)
(* build_route_geometry on small lines.                                    *)
(***************************************************************************)
EXTENDS Geometry

CONSTANTS
  MaxStops, MaxSegments,
  MaxCost,     \* bound on a distance; with three stops and three segments it is 1
  Width,       \* places are 0 .. Width
  a, b, c      \* shape ids; c is in no file

\* All sizes and distances.  A stop is at x on segment x, but one stop is at x + 2 there,
\* beyond the end of the segment.
AllInstances ==
  UNION { { [K |-> n, M |-> m, cost |-> d,
             pos |-> [r \in 1 .. n |-> [x \in 1 .. m |-> IF r = far THEN x + 2 ELSE x]]] :
              d \in Matrix(n, m, 0 .. IF n + m < 6 THEN MaxCost ELSE 1),
              far \in 0 .. n }
          : n \in 0 .. MaxStops, m \in 0 .. MaxSegments }

AllTotals == 0 .. MaxStops * MaxCost

\* A line through the given places, with no distances, with true ones from an offset,
\* with twice the true ones, with half of them, and with one step for each point.
Columns(places) ==
  LET bare == [i \in DOMAIN places |-> [at |-> places[i], km |-> None]]
      cum == HavCum(bare)
  IN  { bare,
        [i \in DOMAIN places |-> [at |-> places[i], km |-> cum[i] + 1]],
        [i \in DOMAIN places |-> [at |-> places[i], km |-> 2 * cum[i]]],
        [i \in DOMAIN places |-> [at |-> places[i], km |-> cum[i] \div 2]],
        [i \in DOMAIN places |-> [at |-> places[i], km |-> i]] }

Lines == UNION {Columns(places) : places \in UNION {[1 .. n -> 0 .. Width] : n \in 0 .. MaxSegments + 1}}
StopLists == UNION {[1 .. n -> 0 .. Width + 1] : n \in 0 .. MaxStops - 1}
              \cup {<<1, 0, 2>>, <<2, 2, 0>>, <<0, 2, 1>>}

\* Every line and every list of stops; and two lines on one route, one id twice, one unknown.
AllCalls ==
  {[route |-> <<a>>, shapes |-> [s \in {a} |-> l], stops |-> t] : l \in Lines, t \in StopLists}
  \cup
  {[route |-> <<a, c, b, a>>, shapes |-> [s \in {a, b} |-> IF s = a THEN l ELSE m], stops |-> t] :
     l \in Columns(<<0, 1>>), m \in Columns(<<2, 0, 2>>), t \in {<<1, 0, 2>>, <<3, 2, 0>>}}
===============================================================================

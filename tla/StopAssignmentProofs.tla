------------------------- MODULE StopAssignmentProofs -------------------------
(***************************************************************************)
(* assign_stops_monotonic places the stops in order and as near as can be, *)
(* for any number of stops and segments and any distances.                 *)
(*                                                                         *)
(* The tables hold, cell by cell, a lower bound of every monotone          *)
(* placement that ends there (Lower) and the way the bound is reached      *)
(* (Bellman).  The walk back follows the way, the walk forward of the      *)
(* clamp adds its distances up (Walked), so the bound is the cost of the   *)
(* placement returned.                                                     *)
(***************************************************************************)
EXTENDS StopAssignment, TLAPS

\* The cell of row r and column c is filled in.
Filled(r, c) == pc # "start" /\ (pc = "fill" => r < k \/ (r = k /\ c < j))

\* Where the indices are in each loop.
Cursor ==
  /\ pc \notin {"start", "done"} => K > 0 /\ M > 0
  /\ pc = "start" => k = 1
  /\ pc = "fill" => k \in 2 .. K /\ j \in 1 .. M
  /\ pc = "last" => k = K + 1 /\ j \in 1 .. M
  /\ pc = "backtrack" => k \in 1 .. K
  /\ pc = "clamp" => k \in 2 .. K + 1

\* prefix_arg is a least entry of the columns passed.
Scan ==
  pc \in {"fill", "last"} =>
    /\ arg \in 0 .. j - 1 /\ (arg = 0 => j = 1)
    /\ \A c \in 1 .. j - 1 : dp[k - 1][arg] <= dp[k - 1][c]

\* A filled cell continues a cell of the row before that is not to its right.
Bellman ==
  \A r \in 1 .. K, c \in 1 .. M : Filled(r, c) =>
    /\ dp[r][c] \in Nat
    /\ r = 1 => dp[r][c] = cost[r][c]
    /\ r > 1 => back[r][c] \in 1 .. c /\ dp[r][c] = cost[r][c] + dp[r - 1][back[r][c]]

\* No monotone placement that ends in a filled cell is cheaper than the cell says.
Lower ==
  \A s \in Monotone : \A t \in Sums(s), r \in 1 .. K :
    Filled(r, s[r]) => dp[r][s[r]] <= t[r]

\* The segments found so far: a least entry of the last row, and the way back from it.
Chosen == pc \in {"backtrack", "clamp"} \/ Placed
From == IF pc = "backtrack" THEN k ELSE 1
Way ==
  Chosen =>
    /\ \A r \in From .. K : segments[r] \in 1 .. M
    /\ \A r \in From + 1 .. K : segments[r - 1] = back[r][segments[r]]
    /\ \A c \in 1 .. M : dp[K][segments[K]] <= dp[K][c]

\* The stops whose clamp is done: their sums are the entries of the table, and they are
\* in order; the others are where their segment puts them.
Till == IF pc = "clamp" THEN k - 1 ELSE K
Walked ==
  pc = "clamp" \/ Placed =>
    /\ \A u \in Sums(segments) : \A r \in 1 .. Till : u[r] = dp[r][segments[r]]
    /\ \A r \in 1 .. Till :
         /\ \A q \in 1 .. r : pos[q][segments[q]] <= progress[r] /\ progress[q] <= progress[r]
         /\ \E q \in 1 .. r : progress[r] = pos[q][segments[q]]
    /\ \A r \in Till + 1 .. K : progress[r] = pos[r][segments[r]]

DPInv == DPTypeOK /\ Cursor /\ Scan /\ Bellman /\ Lower /\ Way /\ Walked

-----------------------------------------------------------------------------
(* The steps *)

\* The entries of the matrices.
LEMMA Entries ==
  ASSUME DPTypeOK
  PROVE  \A r \in 1 .. K, c \in 1 .. M : cost[r][c] \in Nat /\ pos[r][c] \in Nat
  BY DEF DPTypeOK, Matrix

\* A matrix with one entry changed.
Put(A, r, c, x) == [A EXCEPT ![r][c] = x]

LEMMA MatrixUpdate ==
  ASSUME NEW n \in Nat, NEW m \in Nat, NEW S, NEW A \in Matrix(n, m, S),
         NEW r \in 1 .. n, NEW c \in 1 .. m, NEW x \in S
  PROVE  /\ Put(A, r, c, x) \in Matrix(n, m, S)
         /\ Put(A, r, c, x)[r][c] = x
         /\ \A q \in 1 .. n, d \in 1 .. m : q # r \/ d # c => Put(A, r, c, x)[q][d] = A[q][d]
  <1> DEFINE B == Put(A, r, c, x)
  <1>1. A[r] \in [1 .. m -> S] /\ [A[r] EXCEPT ![c] = x] \in [1 .. m -> S]
    BY DEF Matrix
  <1>2. B = [A EXCEPT ![r] = [A[r] EXCEPT ![c] = x]]
    BY DEF Put
  <1>3. B[r] = [A[r] EXCEPT ![c] = x] /\ \A q \in 1 .. n : q # r => B[q] = A[q]
    BY <1>2 DEF Matrix
  <1>4. B \in Matrix(n, m, S)
    BY <1>1, <1>2 DEF Matrix
  <1> QED
    BY <1>1, <1>3, <1>4

LEMMA PutReads ==
  ASSUME NEW n \in Nat, NEW m \in Nat, NEW S, NEW A \in Matrix(n, m, S),
         NEW r \in 1 .. n, NEW c \in 1 .. m, NEW x
  PROVE  /\ Put(A, r, c, x)[r][c] = x
         /\ \A q \in 1 .. n, d \in 1 .. m : q # r \/ d # c => Put(A, r, c, x)[q][d] = A[q][d]
  <1>1. DOMAIN A = 1 .. n /\ \A q \in 1 .. n : DOMAIN A[q] = 1 .. m
    BY DEF Matrix
  <1>2. Put(A, r, c, x) = [A EXCEPT ![r] = [A[r] EXCEPT ![c] = x]]
    BY DEF Put
  <1> QED
    BY <1>1, <1>2

\* What a step that leaves the input alone leaves alone.
LEMMA InputStays ==
  ASSUME UNCHANGED input
  PROVE  /\ K' = K /\ M' = M /\ cost' = cost /\ pos' = pos
         /\ Monotone' = Monotone
         /\ \A s : Sums(s)' = Sums(s)
  BY DEF input, Monotone, Sums

\* The invariant holds where the function begins, on whatever matrices.
LEMMA BeginInv == ASSUME NEW i, IsInstance(i), Begin(i) PROVE DPInv
  <1>1. Begin(i)
    OBVIOUS
  <1>3. DPTypeOK
    BY <1>1 DEF Begin, IsInstance, DPTypeOK, Matrix, Phases
  <1>4. Cursor /\ Scan
    BY <1>1 DEF Begin, Cursor, Scan
  <1>5. Bellman /\ Lower
    BY <1>1 DEF Begin, Bellman, Lower, Filled
  <1>6. Way /\ Walked
    BY <1>1 DEF Begin, Way, Walked, Chosen, Placed
  <1> QED
    BY <1>3, <1>4, <1>5, <1>6 DEF DPInv

LEMMA InitInv == ASSUME DPInit PROVE DPInv
  BY BeginInv, InstanceAssumption DEF DPInit

LEMMA NothingToDoInv == ASSUME DPInv, NothingToDo PROVE DPInv'
  <1> USE DEF DPInv, NothingToDo, input, tables
  <1>1. DPTypeOK' /\ Cursor' /\ Scan'
    BY DEF DPTypeOK, Phases, Cursor, Scan, Matrix
  <1>2. Bellman'
    BY DEF Bellman, DPTypeOK
  <1>3. Lower'
    <2> SUFFICES ASSUME NEW s \in Monotone, NEW r \in 1 .. K PROVE FALSE
      BY InputStays DEF Lower
    <2>1. s[r] \in 1 .. M
      BY DEF Monotone
    <2> QED
      BY <2>1 DEF DPTypeOK
  <1>4. Way' /\ Walked'
    BY DEF Way, Walked, Chosen, Placed
  <1> QED
    BY <1>1, <1>2, <1>3, <1>4

LEMMA FirstRowInv == ASSUME DPInv, FirstRow PROVE DPInv'
  <1> USE DEF DPInv, FirstRow, NextRow, input
  <1>1. /\ K \in Nat /\ M \in Nat /\ k = 1 /\ k' = 2 /\ j' = 1 /\ arg' = 0
        /\ pc' = (IF K = 1 THEN "last" ELSE "fill")
    BY DEF Cursor, DPTypeOK
  <1>2. /\ dp' \in Matrix(K, M, Nat \cup {INF}) /\ back' \in Matrix(K, M, 1 .. M \cup {-1})
        /\ \A c \in 1 .. M : dp'[1][c] = cost[1][c] /\ dp'[1][c] \in Nat
    <2>1. /\ 1 \in 1 .. K /\ dp \in Matrix(K, M, Nat \cup {INF})
          /\ back \in Matrix(K, M, 1 .. M \cup {-1}) /\ cost \in Matrix(K, M, Nat)
      BY <1>1 DEF DPTypeOK
    <2>2. cost[1] \in [1 .. M -> Nat]
      BY <2>1 DEF Matrix
    <2>3. dp' = [dp EXCEPT ![1] = cost[1]] /\ back' = [back EXCEPT ![1] = [c \in 1 .. M |-> c]]
      OBVIOUS
    <2>4. dp' \in Matrix(K, M, Nat \cup {INF}) /\ dp'[1] = cost[1]
      BY <2>1, <2>2, <2>3 DEF Matrix
    <2>5. back' \in Matrix(K, M, 1 .. M \cup {-1})
      BY <2>1, <2>3 DEF Matrix
    <2> QED
      BY <2>2, <2>4, <2>5
  <1>3. DPTypeOK' /\ Cursor' /\ Scan'
    BY <1>1, <1>2 DEF DPTypeOK, Phases, Cursor, Scan
  <1>4. \A r \in 1 .. K, c \in 1 .. M : Filled(r, c)' => r = 1
    BY <1>1 DEF Filled
  <1>5. Bellman'
    BY <1>2, <1>4 DEF Bellman
  <1>6. Lower'
    <2> SUFFICES ASSUME NEW s \in Monotone, NEW t \in Sums(s), NEW r \in 1 .. K,
                        Filled(r, s[r])'
                 PROVE  dp'[r][s[r]] <= t[r]
      BY InputStays DEF Lower
    <2>1. s[r] \in 1 .. M /\ t[1] = cost[1][s[1]]
      BY DEF Monotone, Sums
    <2> QED
      BY <1>2, <1>4, <2>1
  <1>7. Way' /\ Walked'
    BY <1>1 DEF Way, Walked, Chosen, Placed
  <1> QED
    BY <1>3, <1>5, <1>6, <1>7

\* The running minimum includes the current column.
LEMMA PrefixFacts ==
  ASSUME DPInv, pc \in {"fill", "last"}
  PROVE  /\ k - 1 \in 1 .. K /\ j \in 1 .. M
         /\ \A c \in 1 .. M : dp[k - 1][c] \in Nat
         /\ PrefixArg \in 1 .. j
         /\ \A c \in 1 .. j : dp[k - 1][PrefixArg] <= dp[k - 1][c]
  <1> USE DEF DPInv
  <1>1. k - 1 \in 1 .. K /\ j \in 1 .. M /\ K \in Nat /\ M \in Nat /\ k \in Nat
    BY DEF Cursor, DPTypeOK
  <1>2. \A c \in 1 .. M : Filled(k - 1, c)
    BY <1>1 DEF Filled
  <1>3. \A c \in 1 .. M : dp[k - 1][c] \in Nat
    BY <1>1, <1>2 DEF Bellman
  <1>4. /\ arg \in 0 .. j - 1 /\ (arg = 0 => j = 1)
        /\ \A c \in 1 .. j - 1 : dp[k - 1][arg] <= dp[k - 1][c]
    BY DEF Scan
  <1>5. PrefixArg \in 1 .. j
    BY <1>1, <1>4 DEF PrefixArg
  <1>6. ASSUME NEW c \in 1 .. j PROVE dp[k - 1][PrefixArg] <= dp[k - 1][c]
    <2>1. c = j \/ c \in 1 .. j - 1
      BY <1>1
    <2>2. arg = 0 \/ arg \in 1 .. M
      BY <1>1, <1>4
    <2>3. dp[k - 1][j] \in Nat /\ dp[k - 1][c] \in Nat /\ (arg # 0 => dp[k - 1][arg] \in Nat)
      BY <1>1, <1>3, <2>1, <2>2
    <2> QED
      BY <1>1, <1>4, <2>1, <2>3 DEF PrefixArg
  <1> QED
    BY <1>1, <1>3, <1>5, <1>6

LEMMA FillCellInv == ASSUME DPInv, FillCell PROVE DPInv'
  <1> USE DEF DPInv, FillCell, NextRow, input
  <1> DEFINE h == PrefixArg
  <1>1. /\ K \in Nat /\ M \in Nat /\ K > 0 /\ M > 0
        /\ k \in 2 .. K /\ j \in 1 .. M /\ k - 1 \in 1 .. K
    BY DEF Cursor, DPTypeOK
  <1>2. /\ \A c \in 1 .. M : dp[k - 1][c] \in Nat
        /\ h \in 1 .. j /\ h \in 1 .. M
        /\ \A c \in 1 .. j : dp[k - 1][h] <= dp[k - 1][c]
    BY <1>1, PrefixFacts
  <1>3. /\ dp' = [dp EXCEPT ![k][j] = cost[k][j] + dp[k - 1][h]]
        /\ back' = [back EXCEPT ![k][j] = h]
        /\ \/ j = M /\ k' = k + 1 /\ j' = 1 /\ arg' = 0
              /\ pc' = (IF k = K THEN "last" ELSE "fill")
           \/ j # M /\ k' = k /\ j' = j + 1 /\ arg' = h /\ pc' = "fill"
    OBVIOUS
  <1> HIDE DEF h, FillCell, NextRow
  <1>4. UNCHANGED <<input, segments, progress>> /\ pc = "fill"
    BY DEF FillCell
  <1>5. cost[k][j] \in Nat /\ cost[k][j] + dp[k - 1][h] \in Nat
    <2>1. cost[k][j] \in Nat
      BY <1>1, Entries
    <2> QED
      BY <1>2, <2>1
  <1> DEFINE e == cost[k][j] + dp[k - 1][h]
  <1>6. /\ dp' \in Matrix(K, M, Nat \cup {INF}) /\ dp'[k][j] = e
        /\ \A r \in 1 .. K, c \in 1 .. M : r # k \/ c # j => dp'[r][c] = dp[r][c]
    <2>1. /\ dp' = Put(dp, k, j, e) /\ e \in Nat \cup {INF}
          /\ dp \in Matrix(K, M, Nat \cup {INF})
          /\ k \in 1 .. K /\ j \in 1 .. M /\ K \in Nat /\ M \in Nat
      BY <1>1, <1>3, <1>5 DEF DPTypeOK, Put
    <2> HIDE DEF e
    <2> QED
      BY ONLY <2>1, MatrixUpdate
  <1>7. /\ back' \in Matrix(K, M, 1 .. M \cup {-1}) /\ back'[k][j] = h
        /\ \A r \in 1 .. K, c \in 1 .. M : r # k \/ c # j => back'[r][c] = back[r][c]
    <2> DEFINE Columns == 1 .. M \cup {-1}
    <2>1. /\ back' = Put(back, k, j, h) /\ h \in Columns /\ back \in Matrix(K, M, Columns)
          /\ k \in 1 .. K /\ j \in 1 .. M /\ K \in Nat /\ M \in Nat
      BY <1>1, <1>2, <1>3 DEF DPTypeOK, Put
    <2>2. ASSUME NEW S, h \in S, back \in Matrix(K, M, S)
          PROVE  Put(back, k, j, h) \in Matrix(K, M, S)
      BY ONLY <2>1, <2>2, MatrixUpdate
    <2>3. back' \in Matrix(K, M, Columns)
      BY ONLY <2>1, <2>2
    <2>4. /\ Put(back, k, j, h)[k][j] = h
          /\ \A r \in 1 .. K, c \in 1 .. M : r # k \/ c # j => Put(back, k, j, h)[r][c] = back[r][c]
      BY ONLY <2>1, MatrixUpdate
    <2> QED
      BY ONLY <2>1, <2>3, <2>4
  <1>9. \A r \in 1 .. K, c \in 1 .. M : Filled(r, c)' => Filled(r, c) \/ (r = k /\ c = j)
    BY <1>1, <1>3, <1>4 DEF Filled
  <1>10. DPTypeOK'
    <2>1. k' \in 1 .. K + 1 /\ j' \in 1 .. M + 1 /\ arg' \in 0 .. M /\ pc' \in Phases
      BY <1>1, <1>2, <1>3 DEF Phases
    <2> QED
      BY <1>4, <1>6, <1>7, <2>1 DEF DPTypeOK
  <1>11. Cursor'
    BY <1>1, <1>3, <1>4 DEF Cursor
  <1>12. Scan'
    <2>1. \A c \in 1 .. M : dp'[k - 1][c] = dp[k - 1][c]
      BY <1>1, <1>6
    <2> QED
      BY <1>1, <1>2, <1>3, <2>1 DEF Scan
  <1>13. Bellman'
    <2> SUFFICES ASSUME NEW r \in 1 .. K, NEW c \in 1 .. M, Filled(r, c)'
                 PROVE  /\ dp'[r][c] \in Nat
                        /\ r = 1 => dp'[r][c] = cost[r][c]
                        /\ r > 1 => /\ back'[r][c] \in 1 .. c
                                    /\ dp'[r][c] = cost[r][c] + dp'[r - 1][back'[r][c]]
      BY <1>4 DEF Bellman
    <2>1. CASE r = k /\ c = j
      <3>1. dp'[k - 1][h] = dp[k - 1][h]
        BY <1>1, <1>2, <1>6
      <3> QED
        BY <1>1, <1>2, <1>5, <1>6, <1>7, <2>1, <3>1
    <2>2. CASE ~ (r = k /\ c = j)
      <3>1. /\ dp[r][c] \in Nat
            /\ r = 1 => dp[r][c] = cost[r][c]
            /\ r > 1 => back[r][c] \in 1 .. c /\ dp[r][c] = cost[r][c] + dp[r - 1][back[r][c]]
        BY <1>9, <2>2 DEF Bellman
      <3>2. r <= k
        BY <1>1, <1>4, <1>9, <2>2 DEF Filled
      <3>3. r > 1 => dp'[r - 1][back[r][c]] = dp[r - 1][back[r][c]]
        BY <1>1, <1>6, <3>1, <3>2
      <3> QED
        BY <1>6, <1>7, <2>2, <3>1, <3>3
    <2> QED
      BY <2>1, <2>2
  <1>14. Lower'
    <2> SUFFICES ASSUME NEW s \in Monotone, NEW t \in Sums(s), NEW r \in 1 .. K,
                        Filled(r, s[r])'
                 PROVE  dp'[r][s[r]] <= t[r]
      BY <1>4, InputStays DEF Lower
    <2>1. \A q \in 1 .. K : s[q] \in 1 .. M /\ t[q] \in Nat
      BY InstanceAssumption DEF Monotone, Sums
    <2>2. CASE r = k /\ s[r] = j
      <3>1. s[k - 1] \in 1 .. j /\ t[k] = t[k - 1] + cost[k][j]
        BY <1>1, <2>1, <2>2 DEF Monotone, Sums
      <3>2. Filled(k - 1, s[k - 1])
        BY <1>1, <1>4 DEF Filled
      <3>3. dp[k - 1][s[k - 1]] <= t[k - 1]
        BY <1>1, <3>2 DEF Lower
      <3>4. dp[k - 1][h] <= dp[k - 1][s[k - 1]]
        BY <1>2, <3>1
      <3>5. dp[k - 1][h] \in Nat /\ dp[k - 1][s[k - 1]] \in Nat /\ t[k - 1] \in Nat
        BY <1>1, <1>2, <2>1
      <3> QED
        BY <1>5, <1>6, <2>2, <3>1, <3>3, <3>4, <3>5
    <2>3. CASE ~ (r = k /\ s[r] = j)
      BY <1>6, <1>9, <2>1, <2>3 DEF Lower
    <2> QED
      BY <2>2, <2>3
  <1>15. Way' /\ Walked'
    BY <1>3 DEF Way, Walked, Chosen, Placed
  <1> QED
    BY <1>10, <1>11, <1>12, <1>13, <1>14, <1>15

\* Steps after the tables are complete: they stay so.
LEMMA TablesStay ==
  ASSUME DPInv, UNCHANGED <<input, tables>>, pc \in {"last", "backtrack", "clamp"},
         pc' \in {"last", "backtrack", "clamp", "done"}
  PROVE  Bellman' /\ Lower'
  <1> USE DEF DPInv, input, tables
  <1>1. \A r, c : Filled(r, c) /\ Filled(r, c)'
    BY DEF Filled
  <1>2. Bellman'
    BY <1>1 DEF Bellman
  <1>3. Lower'
    BY <1>1, InputStays DEF Lower
  <1> QED
    BY <1>2, <1>3

LEMMA SearchLastInv == ASSUME DPInv, SearchLast PROVE DPInv'
  <1> USE DEF DPInv, SearchLast, input, tables
  <1> DEFINE h == PrefixArg
  <1>1. /\ K \in Nat /\ M \in Nat /\ K > 0 /\ M > 0
        /\ k = K + 1 /\ j \in 1 .. M /\ pc = "last"
    BY DEF Cursor, DPTypeOK
  <1>2. /\ \A c \in 1 .. M : dp[K][c] \in Nat
        /\ h \in 1 .. j /\ h \in 1 .. M
        /\ \A c \in 1 .. j : dp[K][h] <= dp[K][c]
    BY <1>1, PrefixFacts
  <1> HIDE DEF h
  <1>3. CASE j = M
    <2>1. /\ segments' = [segments EXCEPT ![K] = h] /\ pc' = "backtrack" /\ k' = K
          /\ UNCHANGED <<j, arg>>
      BY <1>3 DEF h
    <2>2. DPTypeOK'
      BY <1>1, <1>2, <2>1 DEF DPTypeOK, Phases
    <2>3. Cursor' /\ Scan'
      BY <1>1, <2>1 DEF Cursor, Scan
    <2>4. Bellman' /\ Lower'
      BY <1>1, <2>1, TablesStay
    <2>5. segments'[K] = h
      BY <1>1, <2>1 DEF DPTypeOK
    <2>6. Way'
      BY <1>1, <1>2, <1>3, <2>1, <2>5 DEF Way, From
    <2>7. Walked'
      BY <2>1 DEF Walked, Placed
    <2> QED
      BY <2>2, <2>3, <2>4, <2>6, <2>7
  <1>4. CASE j # M
    <2>1. j' = j + 1 /\ arg' = h /\ UNCHANGED <<segments, pc, k>>
      BY <1>4 DEF h
    <2>2. DPTypeOK'
      BY <1>1, <1>2, <1>4, <2>1 DEF DPTypeOK, Phases
    <2>3. Cursor' /\ Scan'
      BY <1>1, <1>2, <1>4, <2>1 DEF Cursor, Scan
    <2>4. Bellman' /\ Lower'
      BY <1>1, <2>1, TablesStay
    <2>5. Way' /\ Walked'
      BY <1>1, <2>1 DEF Way, Walked, Chosen, Placed
    <2> QED
      BY <2>2, <2>3, <2>4, <2>5
  <1> QED
    BY <1>3, <1>4

LEMMA BacktrackInv == ASSUME DPInv, Backtrack PROVE DPInv'
  <1> USE DEF DPInv, Backtrack, input, tables
  <1>1. /\ K \in Nat /\ M \in Nat /\ K > 0 /\ M > 0
        /\ k \in 2 .. K /\ pc = "backtrack" /\ pc' = "backtrack" /\ k' = k - 1
    BY DEF Cursor, DPTypeOK
  <1>2. segments[k] \in 1 .. M
    BY <1>1 DEF Way, From, Chosen
  <1>3. Predecessor \in 1 .. segments[k] /\ Predecessor \in 1 .. M
    BY <1>1, <1>2 DEF Bellman, Filled, Predecessor
  <1>4. /\ segments' = [segments EXCEPT ![k - 1] = Predecessor]
        /\ segments'[k - 1] = Predecessor
        /\ \A r \in k .. K : segments'[r] = segments[r]
    BY <1>1 DEF DPTypeOK
  <1>5. DPTypeOK'
    BY <1>1, <1>3 DEF DPTypeOK
  <1>6. Cursor' /\ Scan'
    BY <1>1 DEF Cursor, Scan
  <1>7. Bellman' /\ Lower'
    BY <1>1, TablesStay
  <1>8. Way'
    <2>1. \A r \in k - 1 .. K : segments'[r] \in 1 .. M
      BY <1>1, <1>3, <1>4 DEF Way, From, Chosen
    <2>2. ASSUME NEW r \in k .. K PROVE segments'[r - 1] = back[r][segments'[r]]
      <3>1. CASE r = k
        BY <1>1, <1>4, <3>1 DEF Predecessor
      <3>2. CASE r # k
        <4>1. r \in k + 1 .. K /\ r - 1 \in k .. K
          BY <1>1, <3>2
        <4>2. segments[r - 1] = back[r][segments[r]]
          BY <1>1, <4>1 DEF Way, From, Chosen
        <4> QED
          BY <1>4, <4>1, <4>2
      <3> QED
        BY <3>1, <3>2
    <2>3. \A c \in 1 .. M : dp[K][segments'[K]] <= dp[K][c]
      BY <1>1, <1>4 DEF Way, Chosen
    <2> QED
      BY <1>1, <2>1, <2>2, <2>3 DEF Way, From
  <1>9. Walked'
    BY <1>1 DEF Walked, Placed
  <1> QED
    BY <1>5, <1>6, <1>7, <1>8, <1>9

LEMMA ReadOffInv == ASSUME DPInv, ReadOff PROVE DPInv'
  <1> USE DEF DPInv, ReadOff, input, tables
  <1>1. /\ K \in Nat /\ M \in Nat /\ K > 0 /\ M > 0
        /\ k = 1 /\ pc = "backtrack" /\ pc' = "clamp" /\ k' = 2 /\ UNCHANGED segments
    BY DEF Cursor, DPTypeOK
  <1>2. \A r \in 1 .. K : segments[r] \in 1 .. M
    BY <1>1 DEF Way, From, Chosen
  <1>3. \A r \in 1 .. K : progress'[r] = pos[r][segments[r]]
    OBVIOUS
  <1>4. \A r \in 1 .. K : pos[r][segments[r]] \in Nat
    BY <1>1, <1>2, Entries
  <1>5. DPTypeOK'
    BY <1>1, <1>4 DEF DPTypeOK, Phases
  <1>6. Cursor' /\ Scan'
    BY <1>1 DEF Cursor, Scan
  <1>7. Bellman' /\ Lower'
    BY <1>1, TablesStay
  <1>8. Way'
    BY <1>1 DEF Way, From, Chosen
  <1>9. Walked'
    <2>1. Till' = 1
      BY <1>1 DEF Till
    <2>2. \A u \in Sums(segments) : u[1] = dp[1][segments[1]]
      BY <1>1, <1>2 DEF Bellman, Filled, Sums
    <2>3. Sums(segments)' = Sums(segments)
      BY <1>1 DEF Sums
    <2>4. pos[1][segments[1]] <= progress'[1] /\ progress'[1] <= progress'[1]
      BY <1>1, <1>3, <1>4
    <2> QED
      BY <1>1, <1>3, <2>1, <2>2, <2>3, <2>4 DEF Walked
  <1> QED
    BY <1>5, <1>6, <1>7, <1>8, <1>9

LEMMA ClampInv == ASSUME DPInv, Clamp PROVE DPInv'
  <1> USE DEF DPInv, Clamp, input, tables
  <1>1. /\ K \in Nat /\ M \in Nat /\ K > 0 /\ M > 0
        /\ k \in 2 .. K /\ k - 1 \in 1 .. K /\ pc = "clamp" /\ pc' = "clamp" /\ k' = k + 1
        /\ UNCHANGED segments
    BY DEF Cursor, DPTypeOK
  <1>2. /\ \A r \in 1 .. K : segments[r] \in 1 .. M /\ pos[r][segments[r]] \in Nat
        /\ segments[k - 1] = back[k][segments[k]]
    <2>1. \A r \in 1 .. K : segments[r] \in 1 .. M
      BY <1>1 DEF Way, From, Chosen
    <2>2. segments[k - 1] = back[k][segments[k]]
      BY <1>1 DEF Way, From, Chosen
    <2>3. \A r \in 1 .. K : pos[r][segments[r]] \in Nat
      BY <1>1, <2>1, Entries
    <2> QED
      BY <2>1, <2>2, <2>3
  <1>3. \A r \in 1 .. K : progress[r] \in Nat
    BY DEF DPTypeOK
  <1>4. Clamped \in Nat
    BY <1>1, <1>3 DEF Clamped
  <1>5. progress'[k] = Clamped /\ \A r \in 1 .. K : r # k => progress'[r] = progress[r]
    BY <1>1 DEF DPTypeOK
  <1>6. DPTypeOK'
    BY <1>1, <1>4 DEF DPTypeOK
  <1>7. Cursor' /\ Scan'
    BY <1>1 DEF Cursor, Scan
  <1>8. Bellman' /\ Lower'
    BY <1>1, TablesStay
  <1>9. Way'
    BY <1>1 DEF Way, From, Chosen
  <1>10. Walked'
    <2>1. /\ Till = k - 1 /\ Till' = k
      BY <1>1 DEF Till
    <2>2. Sums(segments)' = Sums(segments)
      BY <1>1 DEF Sums
    <2>3. ASSUME NEW u \in Sums(segments), NEW r \in 1 .. k PROVE u[r] = dp[r][segments[r]]
      <3>1. CASE r = k
        <4>1. u[k] = u[k - 1] + cost[k][segments[k]]
          BY <1>1 DEF Sums
        <4>2. u[k - 1] = dp[k - 1][segments[k - 1]]
          BY <1>1, <2>1 DEF Walked
        <4>3. dp[k][segments[k]] = cost[k][segments[k]] + dp[k - 1][segments[k - 1]]
          BY <1>1, <1>2 DEF Bellman, Filled
        <4>4. dp[k - 1][segments[k - 1]] \in Nat
          BY <1>1, <1>2 DEF Bellman, Filled
        <4>5. cost[k][segments[k]] \in Nat
          BY <1>1, <1>2, Entries
        <4> QED
          BY <3>1, <4>1, <4>2, <4>3, <4>4, <4>5
      <3>2. CASE r # k
        BY <1>1, <2>1, <3>2 DEF Walked
      <3> QED
        BY <3>1, <3>2
    <2>4. ASSUME NEW r \in 1 .. k
          PROVE  /\ \A q \in 1 .. r : /\ pos[q][segments[q]] <= progress'[r]
                                      /\ progress'[q] <= progress'[r]
                 /\ \E q \in 1 .. r : progress'[r] = pos[q][segments[q]]
      <3>1. CASE r # k
        BY <1>1, <1>5, <2>1, <3>1 DEF Walked
      <3>2. CASE r = k
        <4>1. progress[k] = pos[k][segments[k]]
          BY <1>1, <2>1 DEF Walked
        <4>2. /\ progress[k] <= Clamped /\ progress[k - 1] <= Clamped
              /\ Clamped = progress[k] \/ Clamped = progress[k - 1]
          BY <1>1, <1>3 DEF Clamped
        <4>3. /\ \A q \in 1 .. k - 1 : /\ pos[q][segments[q]] <= progress[k - 1]
                                        /\ progress[q] <= progress[k - 1]
              /\ \E q \in 1 .. k - 1 : progress[k - 1] = pos[q][segments[q]]
          BY <1>1, <2>1 DEF Walked
        <4>4. ASSUME NEW q \in 1 .. k
              PROVE  pos[q][segments[q]] <= Clamped /\ progress'[q] <= Clamped
          <5>1. CASE q = k
            BY <1>4, <1>5, <4>1, <4>2, <5>1
          <5>2. CASE q # k
            <6>1. q \in 1 .. k - 1 /\ q \in 1 .. K
              BY <1>1, <5>2
            <6>2. /\ pos[q][segments[q]] <= progress[k - 1] /\ progress[q] <= progress[k - 1]
                  /\ pos[q][segments[q]] \in Nat /\ progress[q] \in Nat
                  /\ progress[k - 1] \in Nat /\ progress'[q] = progress[q]
              BY <1>1, <1>2, <1>3, <1>5, <4>3, <5>2, <6>1
            <6> QED
              BY <1>4, <4>2, <6>2
          <5> QED
            BY <5>1, <5>2
        <4>5. \E q \in 1 .. k : Clamped = pos[q][segments[q]]
          <5>1. CASE Clamped = progress[k]
            BY <1>1, <4>1, <5>1
          <5>2. CASE Clamped = progress[k - 1]
            <6>1. PICK q \in 1 .. k - 1 : progress[k - 1] = pos[q][segments[q]]
              BY <4>3
            <6>2. q \in 1 .. k
              BY <1>1
            <6> QED
              BY <5>2, <6>1, <6>2
          <5> QED
            BY <4>2, <5>1, <5>2
        <4> QED
          BY <1>5, <3>2, <4>4, <4>5
      <3> QED
        BY <3>1, <3>2
    <2>5. \A r \in k + 1 .. K : progress'[r] = pos[r][segments[r]]
      BY <1>1, <1>5, <2>1 DEF Walked
    <2> QED
      BY <1>1, <2>1, <2>2, <2>3, <2>4, <2>5 DEF Walked
  <1> QED
    BY <1>6, <1>7, <1>8, <1>9, <1>10

LEMMA ReturnInv == ASSUME DPInv, Return PROVE DPInv'
  <1> USE DEF DPInv, Return, input, tables
  <1>1. K \in Nat /\ k = K + 1 /\ pc = "clamp" /\ pc' = "done" /\ Till = K /\ Till' = K
    BY DEF DPTypeOK, Till
  <1>2. DPTypeOK' /\ Cursor' /\ Scan'
    BY DEF DPTypeOK, Phases, Cursor, Scan
  <1>3. Bellman' /\ Lower'
    BY <1>1, TablesStay
  <1>4. Way'
    BY <1>1 DEF Way, From, Chosen
  <1>5. Walked'
    <2>1. Sums(segments)' = Sums(segments)
      BY DEF Sums
    <2> QED
      BY <1>1, <2>1 DEF Walked
  <1> QED
    BY <1>2, <1>3, <1>4, <1>5

-----------------------------------------------------------------------------
(* The theorems *)

\* The invariant is inductive.
LEMMA NextInv == ASSUME DPInv, DPNext PROVE DPInv'
  BY NothingToDoInv, FirstRowInv, FillCellInv, SearchLastInv, BacktrackInv, ReadOffInv, ClampInv,
     ReturnInv DEF DPNext

LEMMA StutterInv == ASSUME DPInv, UNCHANGED dpVars PROVE DPInv'
  <1> USE DEF DPInv, dpVars
  <1>1. DPTypeOK' /\ Cursor' /\ Scan'
    BY DEF DPTypeOK, Cursor, Scan
  <1>2. UNCHANGED input /\ \A r, c : Filled(r, c)' = Filled(r, c)
    BY DEF input, Filled
  <1>3. Bellman' /\ Lower'
    <2>1. Bellman'
      BY <1>2 DEF Bellman
    <2>2. Lower'
      BY <1>2, InputStays DEF Lower
    <2> QED
      BY <2>1, <2>2
  <1>4. Way' /\ Walked'
    BY DEF Way, Walked, Chosen, Placed, From, Till, Sums
  <1> QED
    BY <1>1, <1>3, <1>4

THEOREM AssignmentInvariant == DPSpec => []DPInv
  <1>1. DPInit => DPInv
    BY InitInv
  <1>2. DPInv /\ [DPNext]_dpVars => DPInv'
    BY NextInv, StutterInv
  <1> QED
    BY <1>1, <1>2, PTL DEF DPSpec

\* assign_stops_monotonic keeps to the types of its tables: no segment index is ever out
\* of range (shapes.py:185-221).
THEOREM AssignmentTypes == DPSpec => []DPTypeOK
  <1>1. DPInv => DPTypeOK
    BY DEF DPInv
  <1> QED
    BY <1>1, AssignmentInvariant, PTL

LEMMA InvCheapest == ASSUME DPInv PROVE Cheapest
  <1> USE DEF DPInv
  <1> SUFFICES ASSUME Placed
               PROVE  /\ segments \in Monotone
                      /\ \A s \in Monotone : \A t \in Sums(s), u \in Sums(segments) : u[K] <= t[K]
    BY DEF Cheapest
  <1>1. K \in Nat /\ M \in Nat /\ K > 0 /\ M > 0 /\ pc = "done" /\ K \in 1 .. K
    BY DEF DPTypeOK, Placed
  <1>2. \A r \in 1 .. K : segments[r] \in 1 .. M
    BY <1>1 DEF Way, From, Chosen
  <1>3. ASSUME NEW r \in 2 .. K PROVE segments[r - 1] <= segments[r]
    <2>1. segments[r - 1] = back[r][segments[r]] /\ segments[r] \in 1 .. M
      BY <1>1, <1>2 DEF Way, From, Chosen
    <2>2. back[r][segments[r]] \in 1 .. segments[r]
      BY <1>1, <2>1 DEF Bellman, Filled
    <2> QED
      BY <2>1, <2>2
  <1>4. segments \in Monotone
    BY <1>2, <1>3 DEF Monotone, DPTypeOK
  <1>5. ASSUME NEW s \in Monotone, NEW t \in Sums(s), NEW u \in Sums(segments)
        PROVE  u[K] <= t[K]
    <2>1. u[K] = dp[K][segments[K]]
      BY <1>1 DEF Walked, Till
    <2>2. s[K] \in 1 .. M /\ t[K] \in Nat
      BY <1>1, InstanceAssumption DEF Monotone, Sums
    <2>3. dp[K][s[K]] <= t[K]
      BY <1>1, <2>2 DEF Lower, Filled
    <2>4. dp[K][segments[K]] <= dp[K][s[K]]
      BY <1>1, <2>2 DEF Way, Chosen
    <2>5. dp[K][s[K]] \in Nat /\ dp[K][segments[K]] \in Nat
      BY <1>1, <1>2, <2>2 DEF Bellman, Filled
    <2> QED
      BY <2>1, <2>2, <2>3, <2>4, <2>5
  <1> QED
    BY <1>4, <1>5

\* The placement returned is monotone, and no monotone placement has a smaller sum of
\* distances (shapes.py:128-145).
THEOREM AssignmentIsCheapest == DPSpec => []Cheapest
  <1>1. DPInv => Cheapest
    BY InvCheapest
  <1> QED
    BY <1>1, AssignmentInvariant, PTL

\* The progress returned never decreases, and the clamp moves a stop no further than it
\* has to (shapes.py:215-221).
THEOREM AssignmentInOrder == DPSpec => []InOrder
  <1>1. DPInv => InOrder
    BY DEF DPInv, Walked, Till, InOrder, Placed
  <1> QED
    BY <1>1, AssignmentInvariant, PTL

-----------------------------------------------------------------------------
(* Stops whose nearest segments are in order already *)

\* prefix_arg is the first of the least entries.
ScanFirst ==
  pc \in {"fill", "last"} => \A c \in 1 .. arg - 1 : dp[k - 1][arg] < dp[k - 1][c]

\* A cell is never cheaper than a step from the nearest segment of the stop before, and
\* takes that step once it is to the right of it.
NearRow ==
  \A f \in Nearest : \A r \in 2 .. K, c \in 1 .. M : Filled(r, c) =>
    /\ cost[r][c] + dp[r - 1][f[r - 1]] <= dp[r][c]
    /\ f[r - 1] <= c => back[r][c] = f[r - 1]

\* The walk back meets the nearest segments.
NearWay == Chosen => \A f \in Nearest : \A r \in From .. K : segments[r] = f[r]

NearInv == ScanFirst /\ NearRow /\ NearWay

\* The nearest segment of a stop has the first least entry of its row.
LEMMA NearestIsLeast ==
  ASSUME DPInv, NearRow, NEW f \in Nearest, NEW r \in 1 .. K, NEW c \in 1 .. M,
         \A d \in 1 .. M : Filled(r, d) /\ (r > 1 => Filled(r - 1, d))
  PROVE  /\ f[r] \in 1 .. M /\ dp[r][f[r]] \in Nat /\ dp[r][c] \in Nat
         /\ dp[r][f[r]] <= dp[r][c]
         /\ c < f[r] => dp[r][f[r]] < dp[r][c]
  <1> USE DEF DPInv
  <1>1. K \in Nat /\ M \in Nat /\ \A q \in 1 .. K : f[q] \in 1 .. M
    BY DEF DPTypeOK, Nearest, Monotone
  <1>2. /\ cost[r][f[r]] \in Nat /\ cost[r][c] \in Nat
        /\ dp[r][f[r]] \in Nat /\ dp[r][c] \in Nat
    BY <1>1, Entries DEF Bellman
  <1>3. cost[r][f[r]] < cost[r][c] \/ (cost[r][f[r]] = cost[r][c] /\ f[r] <= c)
    BY DEF Nearest
  <1>4. CASE r = 1
    BY <1>1, <1>2, <1>3, <1>4 DEF Bellman
  <1>5. CASE r > 1
    <2>1. r \in 2 .. K /\ r - 1 \in 1 .. K /\ f[r - 1] <= f[r]
      BY <1>1, <1>5 DEF Nearest, Monotone
    <2>2. back[r][f[r]] = f[r - 1]
      BY <1>1, <2>1 DEF NearRow
    <2>3. dp[r][f[r]] = cost[r][f[r]] + dp[r - 1][f[r - 1]]
      BY <1>1, <1>5, <2>2 DEF Bellman
    <2>4. cost[r][c] + dp[r - 1][f[r - 1]] <= dp[r][c]
      BY <2>1 DEF NearRow
    <2>5. dp[r - 1][f[r - 1]] \in Nat
      BY <1>1, <1>5, <2>1 DEF Bellman
    <2> QED
      BY <1>1, <1>2, <1>3, <2>3, <2>4, <2>5
  <1> QED
    BY <1>1, <1>4, <1>5

\* So the running minimum stops there.
LEMMA PrefixFirst ==
  ASSUME DPInv, ScanFirst, pc \in {"fill", "last"}
  PROVE  /\ \A c \in 1 .. PrefixArg - 1 : dp[k - 1][PrefixArg] < dp[k - 1][c]
         /\ NearRow => \A f \in Nearest :
              /\ dp[k - 1][f[k - 1]] <= dp[k - 1][PrefixArg]
              /\ f[k - 1] <= j => PrefixArg = f[k - 1]
  <1> DEFINE h == PrefixArg
  <1>1. /\ k - 1 \in 1 .. K /\ j \in 1 .. M /\ K \in Nat /\ M \in Nat /\ k \in Nat
        /\ \A c \in 1 .. M : dp[k - 1][c] \in Nat
        /\ h \in 1 .. j
        /\ \A c \in 1 .. j : dp[k - 1][h] <= dp[k - 1][c]
    BY PrefixFacts DEF DPInv, DPTypeOK
  <1>2. ASSUME NEW c \in 1 .. h - 1 PROVE dp[k - 1][h] < dp[k - 1][c]
    <2>1. /\ arg \in 0 .. j - 1 /\ (arg = 0 => j = 1)
          /\ \A d \in 1 .. j - 1 : dp[k - 1][arg] <= dp[k - 1][d]
          /\ \A d \in 1 .. arg - 1 : dp[k - 1][arg] < dp[k - 1][d]
      BY DEF DPInv, Scan, ScanFirst
    <2>2. c \in 1 .. j - 1 /\ c \in 1 .. M /\ dp[k - 1][c] \in Nat
      BY <1>1
    <2>3. CASE h = j /\ arg # 0 /\ dp[k - 1][j] < dp[k - 1][arg]
      <3>1. dp[k - 1][arg] <= dp[k - 1][c] /\ dp[k - 1][arg] \in Nat /\ dp[k - 1][j] \in Nat
        BY <1>1, <2>1, <2>2, <2>3
      <3> QED
        BY <2>2, <2>3, <3>1
    <2>4. CASE h = arg
      BY <2>1, <2>4
    <2>5. CASE arg = 0
      BY <1>1, <2>1, <2>2, <2>5
    <2> QED
      BY <2>3, <2>4, <2>5 DEF PrefixArg
  <1>3. ASSUME NearRow, NEW f \in Nearest
        PROVE  /\ dp[k - 1][f[k - 1]] <= dp[k - 1][h]
               /\ f[k - 1] <= j => h = f[k - 1]
    <2>1. \A d \in 1 .. M : Filled(k - 1, d) /\ (k - 1 > 1 => Filled(k - 2, d))
      BY <1>1 DEF Filled
    <2>2. ASSUME NEW c \in 1 .. M
          PROVE  /\ f[k - 1] \in 1 .. M /\ dp[k - 1][f[k - 1]] <= dp[k - 1][c]
                 /\ c < f[k - 1] => dp[k - 1][f[k - 1]] < dp[k - 1][c]
      BY <1>1, <1>3, <2>1, NearestIsLeast
    <2>3. h \in 1 .. M
      BY <1>1
    <2> HIDE DEF h
    <2>4. ASSUME f[k - 1] <= j PROVE h = f[k - 1]
      <3>1. f[k - 1] \in 1 .. j /\ f[k - 1] \in 1 .. M
        BY <1>1, <2>2, <2>3, <2>4
      <3>2. /\ dp[k - 1][h] <= dp[k - 1][f[k - 1]] /\ dp[k - 1][h] \in Nat
            /\ dp[k - 1][f[k - 1]] \in Nat
        BY <1>1, <2>3, <3>1
      <3>3. ~ (h < f[k - 1])
        BY <2>2, <2>3, <3>2
      <3>4. ~ (f[k - 1] < h)
        <4> SUFFICES ASSUME f[k - 1] < h PROVE FALSE
          OBVIOUS
        <4>1. f[k - 1] \in 1 .. h - 1
          BY <1>1, <2>3, <3>1
        <4>2. dp[k - 1][h] < dp[k - 1][f[k - 1]]
          BY <1>2, <4>1
        <4> QED
          BY <2>2, <2>3, <3>2, <4>2
      <3> QED
        BY <1>1, <2>3, <3>1, <3>3, <3>4
    <2> QED
      BY <2>2, <2>3, <2>4
  <1> QED
    BY <1>2, <1>3

\* A step that leaves the input alone leaves the nearest segments alone.
LEMMA NearestStays == ASSUME UNCHANGED input PROVE Nearest' = Nearest
  BY InputStays DEF Nearest

\* The steps that neither fill in the tables nor choose a segment.
LEMMA ElsewhereNear ==
  ASSUME DPInv, NearInv, UNCHANGED <<input, tables>>, pc' \notin {"fill", "last"},
         \A r, c : Filled(r, c)' => Filled(r, c) \/ M = 0,
         Chosen' => Chosen /\ segments' = segments /\ From' = From
  PROVE  NearInv'
  <1> USE DEF NearInv, tables
  <1>1. ScanFirst'
    BY DEF ScanFirst
  <1>2. NearRow'
    <2>1. Nearest' = Nearest
      BY NearestStays
    <2>2. UNCHANGED <<K, M, cost, dp, back>>
      BY DEF input
    <2>3. ASSUME NEW f \in Nearest, NEW r \in 2 .. K, NEW c \in 1 .. M, Filled(r, c)'
          PROVE  Filled(r, c)
      BY <2>3 DEF DPInv, DPTypeOK
    <2> QED
      BY <2>1, <2>2, <2>3 DEF NearRow
  <1>3. NearWay'
    BY NearestStays DEF NearWay, input
  <1> QED
    BY <1>1, <1>2, <1>3

LEMMA NothingToDoNear == ASSUME DPInv, NearInv, NothingToDo PROVE NearInv'
  <1> USE DEF NothingToDo
  <1>1. pc' = "done" /\ UNCHANGED <<input, tables, k, j, segments>> /\ (K = 0 \/ M = 0)
    OBVIOUS
  <1>2. ~ Chosen'
    BY DEF Chosen, Placed, DPInv, DPTypeOK, input
  <1>3. NearInv'
    <2>1. ScanFirst' /\ NearWay'
      BY <1>1, <1>2 DEF ScanFirst, NearWay
    <2>2. NearRow'
      BY <1>1 DEF NearRow, input, DPInv, DPTypeOK
    <2> QED
      BY <2>1, <2>2 DEF NearInv
  <1> QED
    BY <1>3

LEMMA FirstRowNear == ASSUME DPInv, NearInv, FirstRow PROVE NearInv'
  <1> USE DEF FirstRow, NextRow, input
  <1>1. /\ K \in Nat /\ M \in Nat /\ k = 1 /\ k' = 2 /\ j' = 1 /\ arg' = 0
        /\ pc' = (IF K = 1 THEN "last" ELSE "fill")
    BY DEF Cursor, DPTypeOK, DPInv
  <1>2. \A r \in 2 .. K, c \in 1 .. M : ~ Filled(r, c)'
    BY <1>1 DEF Filled
  <1>3. NearRow'
    BY <1>2 DEF NearRow
  <1>4. ScanFirst' /\ NearWay'
    BY <1>1 DEF ScanFirst, NearWay, Chosen, Placed
  <1> QED
    BY <1>3, <1>4 DEF NearInv

LEMMA FillCellNear == ASSUME DPInv, NearInv, FillCell PROVE NearInv'
  <1> USE DEF FillCell, NextRow, input
  <1> DEFINE h == PrefixArg
  <1>1. /\ K \in Nat /\ M \in Nat /\ K > 0 /\ M > 0
        /\ k \in 2 .. K /\ j \in 1 .. M /\ k - 1 \in 1 .. K /\ pc = "fill"
    BY DEF Cursor, DPTypeOK, DPInv
  <1>2. /\ \A c \in 1 .. M : dp[k - 1][c] \in Nat
        /\ h \in 1 .. j /\ h \in 1 .. M
        /\ \A c \in 1 .. h - 1 : dp[k - 1][h] < dp[k - 1][c]
        /\ \A f \in Nearest :
             /\ dp[k - 1][f[k - 1]] <= dp[k - 1][h]
             /\ f[k - 1] <= j => h = f[k - 1]
    BY <1>1, PrefixFacts, PrefixFirst DEF NearInv
  <1>3. /\ dp' = [dp EXCEPT ![k][j] = cost[k][j] + dp[k - 1][h]]
        /\ back' = [back EXCEPT ![k][j] = h]
        /\ \/ j = M /\ k' = k + 1 /\ j' = 1 /\ arg' = 0
              /\ pc' = (IF k = K THEN "last" ELSE "fill")
           \/ j # M /\ k' = k /\ j' = j + 1 /\ arg' = h /\ pc' = "fill"
        /\ UNCHANGED <<K, M, cost, pos, segments>>
    OBVIOUS
  <1> HIDE DEF h, FillCell, NextRow
  <1>4. cost[k][j] \in Nat /\ dp[k - 1][h] \in Nat
    BY <1>1, <1>2, Entries DEF DPInv
  <1>5. /\ dp'[k][j] = cost[k][j] + dp[k - 1][h] /\ back'[k][j] = h
        /\ \A r \in 1 .. K, c \in 1 .. M : r # k \/ c # j =>
             dp'[r][c] = dp[r][c] /\ back'[r][c] = back[r][c]
    <2> DEFINE x == cost[k][j] + dp[k - 1][h]
    <2>1. /\ dp' = Put(dp, k, j, x) /\ back' = Put(back, k, j, h)
          /\ dp \in Matrix(K, M, Nat \cup {INF}) /\ back \in Matrix(K, M, 1 .. M \cup {-1})
      BY <1>3 DEF Put, DPInv, DPTypeOK
    <2> HIDE DEF x
    <2>2. /\ dp'[k][j] = x
          /\ \A r \in 1 .. K, c \in 1 .. M : r # k \/ c # j => dp'[r][c] = dp[r][c]
      <3>1. k \in 1 .. K /\ j \in 1 .. M /\ K \in Nat /\ M \in Nat
        BY <1>1
      <3>2. PICK S : S = Nat \cup {INF}
        OBVIOUS
      <3>3. dp' = Put(dp, k, j, x) /\ dp \in Matrix(K, M, S)
        BY <2>1, <3>2
      <3> QED
        BY <3>1, <3>3, PutReads
    <2>3. /\ back'[k][j] = h
          /\ \A r \in 1 .. K, c \in 1 .. M : r # k \/ c # j => back'[r][c] = back[r][c]
      <3>1. k \in 1 .. K /\ j \in 1 .. M /\ K \in Nat /\ M \in Nat
        BY <1>1
      <3>2. PICK S : S = 1 .. M \cup {-1}
        OBVIOUS
      <3>3. back' = Put(back, k, j, h) /\ back \in Matrix(K, M, S)
        BY <2>1, <3>2
      <3> QED
        BY <3>1, <3>3, PutReads
    <2> QED
      BY <2>2, <2>3 DEF x
  <1>6. \A r \in 1 .. K, c \in 1 .. M : Filled(r, c)' => Filled(r, c) \/ (r = k /\ c = j)
    BY <1>1, <1>3 DEF Filled
  <1>7. \A c \in 1 .. M : dp'[k - 1][c] = dp[k - 1][c]
    <2> SUFFICES ASSUME NEW c \in 1 .. M PROVE dp'[k - 1][c] = dp[k - 1][c]
      OBVIOUS
    <2>1. k - 1 \in 1 .. K /\ k - 1 # k
      BY <1>1
    <2> QED
      BY <1>5, <2>1
  <1>8. ScanFirst'
    BY <1>1, <1>2, <1>3, <1>7 DEF ScanFirst
  <1>9. NearRow'
    <2> SUFFICES ASSUME NEW f \in Nearest, NEW r \in 2 .. K, NEW c \in 1 .. M, Filled(r, c)'
                 PROVE  /\ cost[r][c] + dp'[r - 1][f[r - 1]] <= dp'[r][c]
                        /\ f[r - 1] <= c => back'[r][c] = f[r - 1]
      BY <1>3, NearestStays DEF NearRow, input
    <2>1. \A q \in 1 .. K : f[q] \in 1 .. M
      BY DEF Nearest, Monotone
    <2>2. CASE r = k /\ c = j
      <3>1. dp'[k - 1][f[k - 1]] = dp[k - 1][f[k - 1]] /\ dp[k - 1][f[k - 1]] \in Nat
        BY <1>1, <1>2, <1>7, <2>1
      <3>2. dp[k - 1][f[k - 1]] <= dp[k - 1][h] /\ (f[k - 1] <= j => h = f[k - 1])
        BY <1>2
      <3>3. cost[k][j] + dp'[k - 1][f[k - 1]] <= dp'[k][j]
        BY <1>4, <1>5, <3>1, <3>2
      <3> QED
        BY <1>5, <2>2, <3>2, <3>3
    <2>3. CASE ~ (r = k /\ c = j)
      <3>1. /\ cost[r][c] + dp[r - 1][f[r - 1]] <= dp[r][c]
            /\ f[r - 1] <= c => back[r][c] = f[r - 1]
        BY <1>1, <1>6, <2>3 DEF NearInv, NearRow
      <3>2. r <= k
        BY <1>1, <1>6, <2>3 DEF Filled
      <3>3. dp'[r - 1][f[r - 1]] = dp[r - 1][f[r - 1]]
        BY <1>1, <1>5, <2>1, <3>2
      <3> QED
        BY <1>1, <1>5, <2>3, <3>1, <3>3
    <2> QED
      BY <2>2, <2>3
  <1>10. NearWay'
    BY <1>3 DEF NearWay, Chosen, Placed
  <1> QED
    BY <1>8, <1>9, <1>10 DEF NearInv

LEMMA SearchLastNear == ASSUME DPInv, NearInv, SearchLast PROVE NearInv'
  <1> USE DEF SearchLast, input, tables
  <1>1. /\ K \in Nat /\ M \in Nat /\ K > 0 /\ M > 0
        /\ k = K + 1 /\ j \in 1 .. M /\ pc = "last" /\ UNCHANGED <<input, tables>>
    BY DEF Cursor, DPTypeOK, DPInv
  <1>2. /\ \A c \in 1 .. PrefixArg - 1 : dp[K][PrefixArg] < dp[K][c]
        /\ \A f \in Nearest : f[K] <= j => PrefixArg = f[K]
    BY <1>1, PrefixFirst DEF NearInv
  <1>3. NearRow'
    <2>1. Nearest' = Nearest
      BY <1>1, NearestStays
    <2>2. \A r, c : Filled(r, c)
      BY <1>1 DEF Filled
    <2> QED
      BY <1>1, <2>1, <2>2 DEF NearInv, NearRow
  <1>4. CASE j = M
    <2>1. /\ segments' = [segments EXCEPT ![K] = PrefixArg] /\ pc' = "backtrack" /\ k' = K
      BY <1>4
    <2>2. segments'[K] = PrefixArg
      BY <1>1, <2>1 DEF DPTypeOK, DPInv
    <2>3. \A f \in Nearest : segments'[K] = f[K]
      <3> SUFFICES ASSUME NEW f \in Nearest PROVE PrefixArg = f[K]
        BY <2>2
      <3>1. K \in 1 .. K /\ f[K] \in 1 .. M
        BY <1>1 DEF Nearest, Monotone
      <3> QED
        BY <1>1, <1>2, <1>4, <3>1
    <2>4. NearWay'
      BY <1>1, <2>1, <2>3, NearestStays DEF NearWay, From
    <2> QED
      BY <1>3, <2>1, <2>4 DEF NearInv, ScanFirst
  <1>5. CASE j # M
    <2>1. j' = j + 1 /\ arg' = PrefixArg /\ UNCHANGED <<segments, pc, k, dp>>
      BY <1>5
    <2>2. ScanFirst'
      BY <1>1, <1>2, <2>1 DEF ScanFirst
    <2>3. NearWay'
      BY <1>1, <2>1 DEF NearWay, Chosen, Placed
    <2> QED
      BY <1>3, <2>2, <2>3 DEF NearInv
  <1> QED
    BY <1>4, <1>5

LEMMA BacktrackNear == ASSUME DPInv, NearInv, Backtrack PROVE NearInv'
  <1> USE DEF Backtrack, input, tables
  <1>1. /\ K \in Nat /\ M \in Nat /\ K > 0 /\ M > 0 /\ UNCHANGED <<input, tables>>
        /\ k \in 2 .. K /\ pc = "backtrack" /\ pc' = "backtrack" /\ k' = k - 1
    BY DEF Cursor, DPTypeOK, DPInv
  <1>2. /\ segments'[k - 1] = back[k][segments[k]]
        /\ \A r \in k .. K : segments'[r] = segments[r]
    BY <1>1 DEF DPTypeOK, DPInv, Predecessor
  <1>3. NearRow' /\ ScanFirst'
    <2>1. Nearest' = Nearest
      BY <1>1, NearestStays
    <2>2. \A r, c : Filled(r, c)
      BY <1>1 DEF Filled
    <2> QED
      BY <1>1, <2>1, <2>2 DEF NearInv, NearRow, ScanFirst
  <1>4. NearWay'
    <2> SUFFICES ASSUME NEW f \in Nearest, NEW r \in k - 1 .. K PROVE segments'[r] = f[r]
      BY <1>1, NearestStays DEF NearWay, From
    <2>1. \A q \in k .. K : segments[q] = f[q]
      BY <1>1 DEF NearInv, NearWay, Chosen, From
    <2>2. CASE r = k - 1
      <3>1. f[k - 1] <= f[k] /\ f[k] \in 1 .. M /\ Filled(k, f[k])
        BY <1>1 DEF Nearest, Monotone, Filled
      <3>2. back[k][f[k]] = f[k - 1]
        BY <1>1, <3>1 DEF NearInv, NearRow
      <3> QED
        BY <1>1, <1>2, <2>1, <2>2, <3>2
    <2>3. CASE r # k - 1
      BY <1>1, <1>2, <2>1, <2>3
    <2> QED
      BY <2>2, <2>3
  <1> QED
    BY <1>3, <1>4 DEF NearInv

LEMMA ReadOffNear == ASSUME DPInv, NearInv, ReadOff PROVE NearInv'
  BY ElsewhereNear DEF ReadOff, Filled, Chosen, From, Placed

LEMMA ClampNear == ASSUME DPInv, NearInv, Clamp PROVE NearInv'
  BY ElsewhereNear DEF Clamp, Filled, Chosen, From, Placed

LEMMA ReturnNear == ASSUME DPInv, NearInv, Return PROVE NearInv'
  BY ElsewhereNear DEF Return, Filled, Chosen, From, Placed

LEMMA BeginNear == ASSUME NEW i, IsInstance(i), Begin(i) PROVE NearInv
  <1>1. ScanFirst /\ NearWay
    BY DEF Begin, ScanFirst, NearWay, Chosen, Placed
  <1>2. NearRow
    BY DEF Begin, NearRow, Filled
  <1> QED
    BY <1>1, <1>2 DEF NearInv

LEMMA StutterNear == ASSUME DPInv, NearInv, UNCHANGED dpVars PROVE NearInv'
  <1> USE DEF dpVars
  <1>1. UNCHANGED input /\ \A r, c : Filled(r, c)' = Filled(r, c)
    BY DEF input, Filled
  <1>2. ScanFirst' /\ NearRow'
    BY <1>1, NearestStays DEF NearInv, ScanFirst, NearRow
  <1>3. NearWay'
    BY <1>1, NearestStays DEF NearInv, NearWay, Chosen, Placed, From
  <1> QED
    BY <1>2, <1>3 DEF NearInv

LEMMA NextNear == ASSUME DPInv, NearInv, DPNext PROVE NearInv'
  BY NothingToDoNear, FirstRowNear, FillCellNear, SearchLastNear, BacktrackNear, ReadOffNear,
     ClampNear, ReturnNear DEF DPNext

LEMMA InvNearestKept == ASSUME DPInv, NearInv PROVE NearestKept
  <1> SUFFICES ASSUME Placed, NEW f \in Nearest PROVE segments = f
    BY DEF NearestKept
  <1>1. \A r \in 1 .. K : segments[r] = f[r]
    BY DEF NearInv, NearWay, Chosen, From, Placed
  <1> QED
    BY <1>1 DEF DPInv, DPTypeOK, Nearest, Monotone

\* Stops whose own nearest segments are in order stay on them, the first ones where several
\* are as near: the cheapest placement is not only as good, it is this one.
THEOREM AssignmentKeepsNearest == DPSpec => []NearestKept
  <1>1. DPInit => DPInv /\ NearInv
    BY InitInv, BeginNear, InstanceAssumption DEF DPInit
  <1>2. DPInv /\ NearInv /\ [DPNext]_dpVars => (DPInv /\ NearInv)'
    BY NextInv, StutterInv, NextNear, StutterNear
  <1>3. DPInv /\ NearInv => NearestKept
    BY InvNearestKept
  <1> QED
    BY <1>1, <1>2, <1>3, PTL DEF DPSpec
-----------------------------------------------------------------------------
(* The loops end *)

\* The iterations the function still makes: the rest of the table, the search of the last
\* row, the way back and the way forward.
CellsLeft == (K - k + 1) * M - (j - 1)
Left ==
  CASE pc = "start" -> IF K = 0 \/ M = 0 THEN 1 ELSE K * M + 2 * K + 1
    [] pc = "fill" -> CellsLeft + M + 2 * K
    [] pc = "last" -> M - j + 1 + 2 * K
    [] pc = "backtrack" -> K + k
    [] pc = "clamp" -> K - k + 2
    [] OTHER -> 0

\* The parts of DPInv that place the indices.
LEMMA Indices ==
  ASSUME DPInv
  PROVE  /\ K \in Nat /\ M \in Nat /\ k \in Nat /\ j \in Nat /\ pc \in Phases
         /\ pc \notin {"start", "done"} => K > 0 /\ M > 0
         /\ pc = "start" => k = 1
         /\ pc = "fill" => k <= K /\ j >= 1 /\ j <= M
         /\ pc = "last" => j >= 1 /\ j <= M
         /\ pc = "backtrack" => k >= 1 /\ k <= K
         /\ pc = "clamp" => k <= K + 1
  BY DEF DPInv, DPTypeOK, Cursor, Phases

LEMMA LeftIsNumber == ASSUME DPInv PROVE Left \in Nat
  <1>1. CASE pc = "fill"
    <2>1. /\ k \in Nat /\ K \in Nat /\ M \in Nat /\ j \in Nat /\ k <= K /\ j >= 1 /\ j <= M
      BY <1>1, Indices
    <2>2. PICK d \in Nat : d = K - k
      BY <2>1
    <2>3. (K - k + 1) * M = d * M + M /\ d * M \in Nat
      BY <2>1, <2>2
    <2>4. CellsLeft \in Nat
      BY <2>1, <2>3 DEF CellsLeft
    <2> QED
      BY <1>1, <2>1, <2>4 DEF Left
  <1>2. CASE pc = "start"
    <2>1. K * M \in Nat /\ 2 * K \in Nat
      BY Indices
    <2> QED
      BY <1>2, <2>1 DEF Left
  <1>3. CASE pc \in {"last", "backtrack", "clamp", "done"}
    BY <1>3, Indices DEF Left
  <1> QED
    BY <1>1, <1>2, <1>3, Indices DEF Phases

\* The next row is one row less; after the last comes the search.
LEMMA RowDone ==
  ASSUME DPInv, UNCHANGED input, NextRow, k <= K, k > 0, K > 0, M > 0
  PROVE  Left' = (K - k) * M + M + 2 * K
  <1>1. K' = K /\ M' = M /\ k' = k + 1 /\ j' = 1
    BY DEF NextRow, input
  <1>2. K \in Nat /\ M \in Nat /\ k \in Nat
    BY Indices
  <1>3. CASE k = K
    <2>1. pc' = "last"
      BY <1>3 DEF NextRow
    <2>2. Left' = M - 1 + 1 + 2 * K
      BY <1>1, <2>1 DEF Left
    <2>3. (K - k) * M = 0
      BY <1>2, <1>3
    <2> QED
      BY <1>2, <2>2, <2>3
  <1>4. CASE k # K
    <2>1. pc' = "fill"
      BY <1>4 DEF NextRow
    <2>2. Left' = ((K - (k + 1) + 1) * M - (1 - 1)) + M + 2 * K
      BY <1>1, <2>1 DEF Left, CellsLeft
    <2>3. K - (k + 1) + 1 = K - k
      BY <1>2
    <2>4. (K - k) * M \in Int
      BY <1>2
    <2> QED
      BY <1>2, <2>2, <2>3, <2>4
  <1> QED
    BY <1>3, <1>4

LEMMA OneLess == ASSUME DPInv, DPNext PROVE Left' = Left - 1
  <1>1. K \in Nat /\ M \in Nat /\ k \in Nat /\ j \in Nat
    BY Indices
  <1>2. CASE NothingToDo
    BY <1>1, <1>2 DEF NothingToDo, Left
  <1>3. CASE FirstRow
    <2>1. pc = "start" /\ K > 0 /\ M > 0 /\ NextRow /\ UNCHANGED input /\ k = 1
      BY <1>3, Indices DEF FirstRow
    <2>2. Left' = (K - 1) * M + M + 2 * K
      BY <1>1, <2>1, RowDone
    <2>3. (K - 1) * M + M = K * M /\ K * M \in Nat
      BY <1>1
    <2>4. Left = K * M + 2 * K + 1
      BY <1>1, <2>1 DEF Left
    <2> QED
      BY <1>1, <2>2, <2>3, <2>4
  <1>4. CASE FillCell
    <2>1. pc = "fill" /\ K > 0 /\ M > 0 /\ k <= K /\ j <= M /\ UNCHANGED input
      BY <1>4, Indices DEF FillCell
    <2>2. Left = CellsLeft + M + 2 * K
      BY <2>1 DEF Left
    <2>3. (K - k + 1) * M = (K - k) * M + M /\ (K - k) * M \in Int
      BY <1>1
    <2>4. CASE j = M
      <3>1. NextRow /\ k > 0
        BY <1>4, <2>1, <2>4 DEF FillCell, DPInv, Cursor
      <3>2. Left' = (K - k) * M + M + 2 * K
        BY <2>1, <3>1, RowDone
      <3> DEFINE rest == (K - k) * M
      <3>3. CellsLeft = rest + M - (j - 1) /\ rest \in Int
        BY <1>1, <2>3 DEF CellsLeft
      <3> HIDE DEF rest
      <3>4. CellsLeft = rest + 1
        BY <1>1, <2>4, <3>3
      <3>5. Left' = rest + M + 2 * K
        BY <3>2 DEF rest
      <3> QED
        BY <1>1, <2>2, <3>3, <3>4, <3>5
    <2>5. CASE j # M
      <3>1. pc' = "fill" /\ k' = k /\ j' = j + 1 /\ K' = K /\ M' = M
        BY <1>4, <2>1, <2>5 DEF FillCell, input
      <3> DEFINE rest == (K - k + 1) * M
      <3>2. Left' = CellsLeft' + M + 2 * K
        BY <3>1 DEF Left
      <3>3. CellsLeft = rest - (j - 1) /\ CellsLeft' = rest - (j + 1 - 1)
        <4>1. CellsLeft = rest - (j - 1)
          BY Zenon DEF CellsLeft
        <4>2. CellsLeft' = (K' - k' + 1) * M' - (j' - 1)
          BY Zenon DEF CellsLeft
        <4>3. K' - k' + 1 = K - k + 1 /\ M' = M /\ j' - 1 = j + 1 - 1
          BY <1>1, <3>1
        <4>4. (K' - k' + 1) * M' = rest
          BY <4>3
        <4> HIDE DEF rest
        <4>5. CellsLeft' = rest - (j' - 1)
          BY <4>2, <4>4
        <4> QED
          BY <4>1, <4>3, <4>5
      <3>4. rest \in Int
        BY <1>1, <2>3
      <3> HIDE DEF rest
      <3> QED
        BY <1>1, <2>2, <3>2, <3>3, <3>4
    <2> QED
      BY <2>4, <2>5
  <1>5. CASE SearchLast
    <2>1. pc = "last" /\ K' = K /\ M' = M
      BY <1>5 DEF SearchLast, input
    <2>2. CASE j = M
      BY <1>1, <1>5, <2>1, <2>2 DEF SearchLast, Left
    <2>3. CASE j # M
      BY <1>1, <1>5, <2>1, <2>3 DEF SearchLast, Left
    <2> QED
      BY <2>2, <2>3
  <1>6. CASE Backtrack \/ ReadOff
    BY <1>1, <1>6 DEF Backtrack, ReadOff, Left, input
  <1>7. CASE Clamp \/ Return
    BY <1>1, <1>7 DEF Clamp, Return, Left, input
  <1> QED
    BY <1>2, <1>3, <1>4, <1>5, <1>6, <1>7 DEF DPNext

\* assign_stops_monotonic returns: for any stops and segments every iteration of its loops
\* is one of K * M + 2 * K + 1, however long the line and wherever the minima are
\* (shapes.py:185-221).
THEOREM AssignmentReturns == DPSpec => [](Left \in Nat) /\ [][Left' = Left - 1]_dpVars
  <1>1. DPInv => Left \in Nat
    BY LeftIsNumber
  <1>2. DPInv /\ [DPNext]_dpVars => [Left' = Left - 1]_dpVars
    BY OneLess
  <1> QED
    BY <1>1, <1>2, AssignmentInvariant, PTL DEF DPSpec
===============================================================================

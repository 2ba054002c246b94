---------------------------- MODULE PolygonStrip ----------------------------
(***************************************************************************)
(* The search for a single triangle strip in a polygon                     *)
(* (geometry/polygon.hpp): FindSingleStrip, its parallel form, and         *)
(* MakeSingleStripFromIndex.  The geometry is abstracted to the set of     *)
(* visible diagonals; an edge is always visible.                           *)
(***************************************************************************)
EXTENDS Naturals, FiniteSets, SeqOps

CONSTANTS
  Sizes,         \* the numbers of vertices
  WorkPerTask,   \* 100'000'000 in the code
  Worker         \* the threads of PerformParallelWorks

ASSUME StripAssumption ==
  /\ Sizes \subseteq {k \in Nat : k >= 3}
  /\ WorkPerTask \in Nat \ {0}
  /\ IsFiniteSet(Worker) /\ Worker # {}

VARIABLES
  n,         \* the number of vertices
  visible,   \* the visible diagonals
  pc, result,
  foundIndex, unprocessedIndex,   \* the shared atomics
  at         \* at[w]: whether the work of thread w runs

vars == <<n, visible, pc, result, foundIndex, unprocessedIndex, at>>

Vertex == 0..(n - 1)
NextModN(x) == IF x + 1 = n THEN 0 ELSE x + 1
PrevModN(x) == IF x = 0 THEN n - 1 ELSE x - 1

Diagonals(size) ==
  {d \in SUBSET (0..(size - 1)) :
     Cardinality(d) = 2 /\ \A x \in d : (x + 1) % size \notin d}

\* Neighbours in C, when its members are passed in the order of the boundary.
Consecutive(C) ==
  {{x, y} : <<x, y>> \in {p \in C \X C : p[1] < p[2] /\
     (\/ \A z \in C : ~(p[1] < z /\ z < p[2])
      \/ \A z \in C : p[1] <= z /\ z <= p[2])}}

(***************************************************************************)
(* What the visible diagonals of a simple polygon have in common: vertices *)
(* that form a cycle of visible segments bound a polygon themselves, and a *)
(* polygon with k vertices has k - 3 diagonals or more.                    *)
(***************************************************************************)
Visibilities(size) ==
  {V \in SUBSET Diagonals(size) :
     \A C \in SUBSET (0..(size - 1)) :
       Cardinality(C) > 3 /\ Consecutive(C) \cap Diagonals(size) \subseteq V =>
         Cardinality({d \in V : d \subseteq C} \ Consecutive(C)) >= Cardinality(C) - 3}

IsDiagonalVisible(a, b) == {a, b} \in visible \/ NextModN(a) = b \/ PrevModN(a) = b

\* Ends one pair early.
PairsShort(i) ==
  LET from[a \in Vertex, b \in Vertex, j \in 2..n] ==
        IF j >= n - 1 THEN <<>>
        ELSE <<<<a, b>>>> \o
             (IF j % 2 = 1 THEN from[PrevModN(a), b, j + 1] ELSE from[a, NextModN(b), j + 1])
  IN  from[PrevModN(i), NextModN(i), 2]

\* Moves on one side only.
PairsFan(i) ==
  LET from[a \in Vertex, b \in Vertex, j \in 2..n] ==
        IF j = n THEN <<>> ELSE <<<<a, b>>>> \o from[a, NextModN(b), j + 1]
  IN  from[PrevModN(i), NextModN(i), 2]

\* The pairs the loop of FindSingleStripForIndex looks at, from j on.
Pairs(i) ==
  LET from[a \in Vertex, b \in Vertex, j \in 2..n] ==
        IF j = n THEN <<>>
        ELSE <<<<a, b>>>> \o
             (IF j % 2 = 1 THEN from[PrevModN(a), b, j + 1] ELSE from[a, NextModN(b), j + 1])
  IN  from[PrevModN(i), NextModN(i), 2]

\* Looks at the first pair only.
FindSingleStripForIndexFirst(i) == IsDiagonalVisible(PrevModN(i), NextModN(i))

FindSingleStripForIndex(i) ==
  \A k \in 1..Len(Pairs(i)) : IsDiagonalVisible(Pairs(i)[k][1], Pairs(i)[k][2])

\* Starts at the second vertex.
FindSingleStripLate ==
  LET from[i \in 0..n] == IF i = n \/ FindSingleStripForIndex(i) THEN i ELSE from[i + 1]
  IN  from[1]

\* The sequential FindSingleStrip.
FindSingleStrip ==
  LET from[i \in 0..n] == IF i = n \/ FindSingleStripForIndex(i) THEN i ELSE from[i + 1]
  IN  from[0]

\* MakeSingleStripFromIndex with StripEmitter: of the first pair both vertices,
\* then in turn the second and the first one of a pair.
MakeSingleStripFromIndex(i) ==
  LET p == Pairs(i)
  IN  IF p = <<>> THEN <<i>>
      ELSE <<i, p[1][2], p[1][1]>>
             \o [k \in 1..(Len(p) - 1) |-> IF k % 2 = 1 THEN p[k + 1][2] ELSE p[k + 1][1]]

----------------------------------------------------------------------------
(* FindSingleStrip with a thread pool *)

tasksCount == (n * n * n) \div WorkPerTask

Init ==
  /\ n \in Sizes
  /\ visible \in Visibilities(n)
  /\ pc = "call" /\ result = n
  /\ foundIndex = 0 /\ unprocessedIndex = 1
  /\ at = [w \in Worker |-> "idle"]

Return(value) ==
  /\ pc' = "done" /\ result' = value
  /\ UNCHANGED <<n, visible, foundIndex, unprocessedIndex, at>>

FindSequentially ==
  /\ pc = "call" /\ tasksCount <= 1
  /\ Return(FindSingleStrip)

FindInstantly ==
  /\ pc = "call" /\ tasksCount > 1
  /\ FindSingleStripForIndex(0)
  /\ Return(0)

\* threadPool.PerformParallelWorks(find, ...) starts some of the threads.
FindInParallel ==
  /\ pc = "call" /\ tasksCount > 1
  /\ ~FindSingleStripForIndex(0)
  /\ \E W \in SUBSET Worker \ {{}} : at' = [w \in Worker |-> IF w \in W THEN "find" ELSE "idle"]
  /\ pc' = "wait"
  /\ UNCHANGED <<n, visible, result, foundIndex, unprocessedIndex>>

(***************************************************************************)
(* One round of find.  "while (foundIndex)" lets no round in, because      *)
(* foundIndex starts at 0; the rest is what the round would do.            *)
(***************************************************************************)
Find(w) ==
  /\ at[w] = "find"
  /\ IF foundIndex = 0 \/ unprocessedIndex >= n
     THEN at' = [at EXCEPT ![w] = "idle"] /\ UNCHANGED <<foundIndex, unprocessedIndex>>
     ELSE /\ unprocessedIndex' = unprocessedIndex + 1
          /\ foundIndex' = IF FindSingleStripForIndex(unprocessedIndex)
                           THEN unprocessedIndex ELSE foundIndex
          /\ UNCHANGED at
  /\ UNCHANGED <<n, visible, pc, result>>

ReturnFound ==
  /\ pc = "wait" /\ \A w \in Worker : at[w] = "idle"
  /\ Return(IF foundIndex # 0 THEN foundIndex ELSE n)

Ended == pc = "done" /\ UNCHANGED vars

Next ==
  \/ FindSequentially \/ FindInstantly \/ FindInParallel
  \/ \E w \in Worker : Find(w)
  \/ ReturnFound \/ Ended

Spec == Init /\ [][Next]_vars

----------------------------------------------------------------------------
(* Properties *)

\* The edges and visible diagonals that a strip of triangles uses.
IsStrip(s) ==
  /\ Len(s) = n /\ Elements(s) = Vertex
  /\ \A k \in 1..(n - 1) : IsDiagonalVisible(s[k], s[k + 1])
  /\ \A k \in 1..(n - 2) : IsDiagonalVisible(s[k], s[k + 2])

\* An index that FindSingleStripForIndex accepts starts a strip:
\* MakeSingleStripFromIndex emits every vertex once, and each triple of
\* successive vertices is a triangle inside of the polygon.
AcceptedIndexMakesStrip ==
  \A i \in Vertex : FindSingleStripForIndex(i) => IsStrip(MakeSingleStripFromIndex(i))

\* An index that FindSingleStrip returns starts a strip, for both forms.
ReturnedIndexMakesStrip ==
  pc = "done" /\ result # n => IsStrip(MakeSingleStripFromIndex(result))

\* The sequential form finds the first index from which the search succeeds.
SequentialFindsFirst ==
  pc = "done" /\ tasksCount <= 1 =>
    \A i \in Vertex : FindSingleStripForIndex(i) => result <= i

\* The strip from vertex i in the opposite direction: the first step is to the
\* previous vertex.
OppositePairs(i) ==
  LET from[a \in Vertex, b \in Vertex, j \in 2..n] ==
        IF j = n THEN <<>>
        ELSE <<<<a, b>>>> \o
             (IF j % 2 = 0 THEN from[PrevModN(a), b, j + 1] ELSE from[a, NextModN(b), j + 1])
  IN  from[PrevModN(i), NextModN(i), 2]

IsOppositeStrip(i) ==
  \A k \in 1..Len(OppositePairs(i)) :
    IsDiagonalVisible(OppositePairs(i)[k][1], OppositePairs(i)[k][2])

\* "Searching for a strip only in a single direction, because the opposite
\* direction is traversed from the last vertex of the possible strip."
\* (polygon.hpp:18)
OppositeIsTraversed ==
  \A i \in Vertex : IsOppositeStrip(i) => \E k \in Vertex : FindSingleStripForIndex(k)

\* The comment holds of polygons with an odd number of vertices: reversed, a
\* strip of the opposite direction is one of the searched direction.
OppositeIsTraversedWhenOdd == n % 2 = 1 => OppositeIsTraversed

\* "If polygon with n vertices is a single strip, return the start index of the
\* strip or n otherwise." (polygon.hpp:49), with strips of the direction that
\* is searched.
StripIsFound ==
  pc = "done" /\ (\E i \in Vertex : FindSingleStripForIndex(i)) => result # n
=============================================================================

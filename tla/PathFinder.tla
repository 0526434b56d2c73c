----------------------------- MODULE PathFinder -----------------------------
(***************************************************************************)
(* zn::PathFinder::findPath, called any number of times on one grid.       *)
(*                                                                         *)
(* What a search leaves in m_calcGrid is not cleared: each search marks    *)
(* the nodes it opens and closes with values of its own, one byte wide.    *)
(* The heap keeps the locations only, and compares them by the cost that   *)
(* m_calcGrid has for them at the time.                                    *)
(*                                                                         *)
(* A location is a pair of coordinates; its encoding in one number is left *)
(* out.                                                                    *)
(***************************************************************************)
EXTENDS Integers, Sequences, SequencesExt, FiniteSets, PriorityQueueB

CONSTANTS
  SizeX, SizeY,        \* m_gridSizeX, m_gridSizeY
  CellCosts,           \* the values of the cells; 0 cannot be crossed
  Diagonals,           \* m_diagonals
  HeavyDiagonals,      \* m_heavyDiagonals
  AvoidDiagonalCross,  \* m_avoidDiagonalCross
  SearchLimit,         \* m_searchLimit
  MarkValues,          \* how many values a mark can have: 256 in the program
  Ends,                \* bound: the cells that searches start from or lead to
  MaxSearches          \* bound: the calls of findPath

Cells == (0..(SizeX - 1)) \X (0..(SizeY - 1))

ASSUME ConstantsAssumption ==
  /\ SizeX \in Nat \ {0} /\ SizeY \in Nat \ {0}
  /\ CellCosts \subseteq 0..127
  /\ Ends \subseteq Cells
  /\ {Diagonals, HeavyDiagonals, AvoidDiagonalCross} \subseteq BOOLEAN
  /\ SearchLimit \in Nat /\ MaxSearches \in Nat
  /\ MarkValues \in Nat \ {0}

VARIABLES
  grid,        \* m_grid
  calc,        \* m_calcGrid
  searches,    \* the calls so far, which give m_openNodeValue, m_closeNodeValue
  open,        \* m_open
  path,        \* m_close, what findPath returns
  closeCount,  \* closeNodeCounter
  location,    \* the node that is being processed
  turn,        \* the index of the direction in which it is, i
  start, end,  \* the arguments
  lowered,     \* history: the cost of a node in the heap has changed
  pc           \* the part of findPath that runs, or how the last call ended

vars == <<grid, calc, searches, open, path, closeCount, location, turn,
          start, end, lowered, pc>>
call == <<grid, searches, start, end>>

Init ==
  /\ grid \in [Cells -> CellCosts]
  /\ calc = [c \in Cells |-> [gone |-> 0, cost |-> 0, parent |-> <<0, 0>>,
                              state |-> 0]]
  /\ searches = 0
  /\ open = <<>> /\ path = <<>> /\ closeCount = 0
  /\ location = <<0, 0>> /\ turn = 1
  /\ start = <<0, 0>> /\ end = <<0, 0>>
  /\ lowered = FALSE
  /\ pc = "notFound"

-----------------------------------------------------------------------------
Running == pc \in {"search", "expand", "trace"}

\* Slip: the value of the open nodes is not changed.
OpenValueSame == 1 % MarkValues

OpenValue == (1 + 2 * searches) % MarkValues
CloseValue == (2 + 2 * searches) % MarkValues

Estimate == 2

Directions == << <<0, -1>>, <<1, 0>>, <<0, 1>>, <<-1, 0>>,
                 <<1, -1>>, <<1, 1>>, <<-1, 1>>, <<-1, -1>> >>

DirectionCount == IF Diagonals THEN 8 ELSE 4

\* The cell beyond in a direction.  Left of the grid or above it the u16 indices of the
\* code wrap, to a cell that no grid has either.
Beyond(c, i) == <<c[1] + Directions[i][1], c[2] + Directions[i][2]>>

\* Slip: only one of the cells beside the diagonal is looked at.
CanCrossHalf(c, i) ==
  /\ Beyond(c, i) \in Cells
  /\ grid[Beyond(c, i)] # 0
  /\ AvoidDiagonalCross /\ i > 4 => grid[<<Beyond(c, i)[1], c[2]>>] # 0

\* The direction leads from c to a cell that can be crossed, and not past the
\* corner of one that cannot.
CanCross(c, i) ==
  /\ Beyond(c, i) \in Cells
  /\ grid[Beyond(c, i)] # 0
  /\ AvoidDiagonalCross /\ i > 4 =>
       grid[<<Beyond(c, i)[1], c[2]>>] # 0 /\ grid[<<c[1], Beyond(c, i)[2]>>] # 0

\* The cost of that step, 2.41 times heavier along a diagonal.
StepCost(c, i) ==
  LET cost == grid[Beyond(c, i)]
  IN  IF HeavyDiagonals /\ i > 4 THEN (cost * 241) \div 100 ELSE cost

Manhattan(a, b) ==
  LET abs(x) == IF x < 0 THEN -x ELSE x
  IN  abs(a[1] - b[1]) + abs(a[2] - b[2])

\* A call begins: the start is opened.
FindPath(from, to) ==
  /\ ~Running
  /\ searches < MaxSearches
  /\ searches' = searches + 1
  /\ calc' = [calc EXCEPT ![from] = [gone |-> 0, cost |-> Estimate,
                                     parent |-> from, state |-> OpenValue']]
  /\ open' = <<from>>
  /\ path' = <<>> /\ closeCount' = 0
  /\ start' = from /\ end' = to
  /\ lowered' = FALSE
  /\ pc' = "search"
  /\ UNCHANGED <<grid, location, turn>>

\* The location that pop returns.
First == open[1]

\* Slip: the location that was already processed is not removed.
IgnorePeeking ==
  /\ pc = "search" /\ open # <<>>
  /\ calc[First].state = CloseValue
  /\ UNCHANGED vars

\* The location was already processed.
Ignore ==
  /\ pc = "search" /\ open # <<>>
  /\ calc[First].state = CloseValue
  /\ open' = Pop(open, calc)
  /\ UNCHANGED <<call, lowered, calc, path, closeCount, location, turn, pc>>

Reach ==
  /\ pc = "search" /\ open # <<>>
  /\ calc[First].state # CloseValue
  /\ First = end
  /\ open' = Pop(open, calc)
  /\ calc' = [calc EXCEPT ![end].state = CloseValue]
  /\ path' = <<end>>
  /\ pc' = IF calc[end].parent = end THEN "found" ELSE "trace"
  /\ UNCHANGED <<call, lowered, closeCount, location, turn>>

GiveUp ==
  /\ pc = "search" /\ open # <<>>
  /\ calc[First].state # CloseValue
  /\ First # end
  /\ closeCount > SearchLimit
  /\ open' = Pop(open, calc)
  /\ pc' = "limit"
  /\ UNCHANGED <<call, lowered, calc, path, closeCount, location, turn>>

Expand ==
  /\ pc = "search" /\ open # <<>>
  /\ calc[First].state # CloseValue
  /\ First # end
  /\ closeCount <= SearchLimit
  /\ open' = Pop(open, calc)
  /\ location' = First /\ turn' = 1
  /\ pc' = "expand"
  /\ UNCHANGED <<call, lowered, calc, path, closeCount>>

\* What going from location in the direction turn costs from the start.
GoneBeyond == calc[location].gone + StepCost(location, turn)

\* This search has reached the successor already, at no higher cost.
Known(n) == calc[n].state \in {OpenValue, CloseValue} /\ calc[n].gone <= GoneBeyond

Turn ==
  /\ pc = "expand" /\ turn <= DirectionCount
  /\ turn' = turn + 1
  /\ UNCHANGED <<call, path, closeCount, location, pc>>

SkipSuccessor ==
  /\ Turn
  /\ CanCross(location, turn) => Known(Beyond(location, turn))
  /\ UNCHANGED <<calc, open, lowered>>

OpenSuccessor ==
  /\ Turn
  /\ CanCross(location, turn)
  /\ LET n == Beyond(location, turn)
     IN  /\ ~Known(n)
         /\ calc' = [calc EXCEPT ![n] =
              [gone   |-> GoneBeyond,
               cost   |-> GoneBeyond + Estimate * Manhattan(n, end),
               parent |-> location,
               state  |-> OpenValue]]
         /\ open' = Push(open, n, calc')
         /\ lowered' = (lowered \/ n \in ToSet(open))

CloseLocation ==
  /\ pc = "expand" /\ turn > DirectionCount
  /\ calc' = [calc EXCEPT ![location].state = CloseValue]
  /\ closeCount' = closeCount + 1
  /\ pc' = "search"
  /\ UNCHANGED <<call, lowered, open, path, location, turn>>

NotFound ==
  /\ pc = "search" /\ open = <<>>
  /\ pc' = "notFound"
  /\ UNCHANGED <<call, lowered, calc, open, path, closeCount, location, turn>>

\* The parent of the last node of the path is added to it; the node that is its
\* own parent is the last.
Trace ==
  /\ pc = "trace"
  /\ LET node == calc[Last(path)].parent
     IN  /\ path' = Append(path, node)
         /\ pc' = IF calc[node].parent = node THEN "found" ELSE "trace"
  /\ UNCHANGED <<call, lowered, calc, open, closeCount, location, turn>>

Step ==
  \/ Ignore \/ Reach \/ GiveUp \/ Expand
  \/ SkipSuccessor \/ OpenSuccessor \/ CloseLocation
  \/ NotFound \/ Trace

Next == Step \/ \E from, to \in Ends : FindPath(from, to)

Spec == Init /\ [][Next]_vars /\ WF_vars(Step)

-----------------------------------------------------------------------------
(***************************************************************************)
(* Properties.                                                             *)
(***************************************************************************)

CanStep(a, b) ==
  \E i \in 1..DirectionCount : Beyond(a, i) = b /\ CanCross(a, i)

\* A path that is found leads from the end back to the start through cells
\* that can be crossed, one step apart, and never past the corner of a cell
\* that cannot (PathFinder.cpp:100-104).
PathIsWalkable ==
  pc = "found" =>
    /\ path[1] = end /\ Last(path) = start
    /\ \A k \in 1..(Len(path) - 1) :
         LET a == path[k + 1]
             b == path[k]
             free(c) == grid[c] # 0
         IN  /\ b # a /\ free(b)
             /\ b[1] - a[1] \in -1..1 /\ b[2] - a[2] \in -1..1
             /\ AvoidDiagonalCross => free(<<b[1], a[2]>>) \/ a = <<b[1], a[2]>>
             /\ AvoidDiagonalCross => free(<<a[1], b[2]>>) \/ a = <<a[1], b[2]>>

\* Cells that can be reached from c: those of the smallest set with c that no
\* step leaves.
ReachableFrom(c) ==
  LET kept(S) == c \in S /\ \A a \in S, b \in Cells : CanStep(a, b) => b \in S
  IN  CHOOSE S \in SUBSET Cells :
        kept(S) /\ \A T \in SUBSET S : kept(T) => T = S

\* A search that ends without a path, not for having exceeded the limit, ends so
\* because there is none: marks of earlier searches are ignored
\* (PathFinder.cpp:29).  That is so for the first 126 searches: the value of the
\* closed nodes is then that of the nodes never reached, which are skipped.
FindsIfThereIs ==
  pc = "notFound" /\ searches > 0 /\ 2 * searches + 2 < MarkValues =>
    end \notin ReachableFrom(start)

\* The heap gives the node with the smallest cost: "Get the smallest object and
\* remove it" (PriorityQueueB.hpp:70), as long as no node in it was reached at a
\* lower cost: it compares costs that findPath changes under it.
GivesTheSmallest ==
  pc = "search" /\ ~lowered =>
    \A k \in DOMAIN open : calc[First].cost <= calc[open[k]].cost

\* Every search ends.
SearchEnds == pc = "search" ~> ~Running
=============================================================================

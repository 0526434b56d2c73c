---------------------------- MODULE MazeGenerator ----------------------------
(***************************************************************************)
(* zn::MazeGenerator: corridors dug from start nodes chosen at random, and *)
(* the joining of dead ends that should make loops.                        *)
(*                                                                         *)
(* The mask of a cell is the set of the numbers of its bits.  The vector   *)
(* of start nodes is a bag, since its elements are drawn at random.        *)
(***************************************************************************)
EXTENDS Integers, FiniteSets, Bags, SequencesExt

CONSTANTS
  Width, Height,    \* the size of the grid
  CorridorLengths,  \* corridorLengthMin..corridorLengthMax
  MaxIterations,    \* maxIterations
  MaxGenerations    \* bound: the calls of generate

Cells == (0..(Width - 1)) \X (0..(Height - 1))

ASSUME MazeAssumption ==
  /\ Width \in Nat \ {0} /\ Height \in Nat \ {0}
  /\ CorridorLengths \subseteq Nat \ {0} /\ CorridorLengths # {}
  /\ MaxIterations \in Nat \ {0} /\ MaxGenerations \in Nat

VARIABLES
  grid,         \* the masks
  seed,         \* the point given to the last generate
  loops,        \* whether its loopChance was above 0.0001
  startNodes,   \* startNodes
  pos,          \* pos
  left,         \* what is left of corridorLength
  iterations,   \* iterations
  scan,         \* the cells that connectRandomNodes has still to look at
  gen,          \* gen, in connectRandomNodes
  generations,  \* history: the calls of generate
  pc            \* the loop that runs

mazeVars == <<grid, seed, loops, startNodes, pos, left, iterations, scan, gen,
          generations, pc>>

Right == 0
Left == 1
Up == 2
Down == 3
None == 4
Unvisited == 6
Disabled == 7

Directions == {Right, Left, Up, Down}

\* Only some cells are disabled before the first generation.
MazeInit ==
  /\ grid \in [Cells -> {{}, {Disabled}}]
  /\ seed \in Cells /\ pos = seed /\ loops = FALSE
  /\ startNodes = EmptyBag
  /\ left = 0 /\ iterations = 0 /\ generations = 0
  /\ scan = <<>> /\ gen = FALSE
  /\ pc = "done"

-----------------------------------------------------------------------------
Opposite(d) == CASE d = Right -> Left [] d = Left -> Right
                 [] d = Up -> Down [] d = Down -> Up [] OTHER -> None

Beyond(c, d) == CASE d = Right -> <<c[1] + 1, c[2]>> [] d = Left -> <<c[1] - 1, c[2]>>
                  [] d = Up -> <<c[1], c[2] - 1>> [] d = Down -> <<c[1], c[2] + 1>>
                  [] OTHER -> c

\* Slip: cells that were visited are not told apart.
EnabledDirections(c) ==
  {d \in Directions : Beyond(c, d) \in Cells /\ Disabled \notin grid[Beyond(c, d)]}

UnvisitedDirections(c) ==
  {d \in Directions : /\ Beyond(c, d) \in Cells
                      /\ Unvisited \in grid[Beyond(c, d)]
                      /\ Disabled \notin grid[Beyond(c, d)]}

\* The rows from top to bottom.
Scan == [k \in 1..(Width * Height) |-> <<(k - 1) % Width, (k - 1) \div Width>>]

Generate(c, withLoops) ==
  /\ pc = "done" /\ generations < MaxGenerations
  /\ generations' = generations + 1
  /\ grid' = [x \in Cells |-> (grid[x] \ Directions) \union {Unvisited}]
  /\ seed' = c /\ pos' = c /\ loops' = withLoops
  /\ startNodes' = SetToBag({c})
  /\ iterations' = 0
  /\ pc' = "choose"
  /\ UNCHANGED <<left, scan, gen>>

\* A corridor of a random length begins at a random start node.
StartCorridor(c, length) ==
  /\ pc = "choose" /\ BagIn(c, startNodes)
  /\ startNodes' = startNodes (-) SetToBag({c})
  /\ pos' = c /\ left' = length
  /\ pc' = "corridor"
  /\ UNCHANGED <<grid, seed, loops, iterations, scan, gen, generations>>

\* The mask of a cell once a passage in the direction d is dug into it.
Dug(mask, d) == (IF Unvisited \in mask THEN {} ELSE mask) \union {d}

\* Slip: the end of a corridor is not a start node.
DigAndForget(d) ==
  LET to == Beyond(pos, d)
  IN  /\ pc = "corridor" /\ left > 0
      /\ d \in UnvisitedDirections(pos)
      /\ grid' = [grid EXCEPT ![pos] = Dug(@, d), ![to] = Dug(@, Opposite(d))]
      /\ startNodes' =
           LET from == IF Cardinality(UnvisitedDirections(pos)) > 1 THEN {pos} ELSE {}
           IN  startNodes (+) SetToBag(from)
      /\ pos' = to /\ left' = left - 1
      /\ UNCHANGED <<seed, loops, iterations, scan, gen, generations, pc>>

\* The corridor advances in the direction d.  Where it could have gone another
\* way, and where it ends, there will be start nodes.
Dig(d) ==
  LET to == Beyond(pos, d)
  IN  /\ pc = "corridor" /\ left > 0
      /\ d \in UnvisitedDirections(pos)
      /\ grid' = [grid EXCEPT ![pos] = Dug(@, d), ![to] = Dug(@, Opposite(d))]
      /\ startNodes' =
           LET from == IF Cardinality(UnvisitedDirections(pos)) > 1 THEN {pos} ELSE {}
               last == IF left = 1 THEN {to} ELSE {}
           IN  startNodes (+) SetToBag(from) (+) SetToBag(last)
      /\ pos' = to /\ left' = left - 1
      /\ UNCHANGED <<seed, loops, iterations, scan, gen, generations, pc>>

\* What comes after the last corridor.
After == IF loops THEN "loops" ELSE "done"

EndCorridor ==
  /\ pc = "corridor"
  /\ left = 0 \/ UnvisitedDirections(pos) = {}
  /\ iterations' = iterations + 1
  /\ pc' = IF iterations' >= MaxIterations THEN After ELSE "choose"
  /\ scan' = IF pc' = "loops" THEN Scan ELSE scan
  /\ gen' = FALSE
  /\ UNCHANGED <<grid, seed, loops, startNodes, pos, left, generations>>

EndCorridors ==
  /\ pc = "choose" /\ startNodes = EmptyBag
  /\ pc' = After
  /\ scan' = IF pc' = "loops" THEN Scan ELSE scan
  /\ gen' = FALSE
  /\ UNCHANGED <<grid, seed, loops, startNodes, pos, left, iterations, generations>>

IsDeadEnd(mask) == \E d \in Directions : mask = {d}

\* The direction that connectRandomNodes takes for the one facing the only
\* passage of the mask: RIGHT_BIT is the bit of LEFT and LEFT_BIT that of RIGHT,
\* and the value pushed for UP_BIT is the bit, not the direction.
Facing(mask) == IF mask = {Up} THEN None ELSE CHOOSE d \in Directions : mask = {d}

\* The next cell is looked at; lucky says whether the random number is below
\* loopChance.
Connect(lucky) ==
  /\ pc = "loops" /\ scan # <<>>
  /\ LET c  == Head(scan)
         d  == Facing(grid[c])
         to == Beyond(c, d)
     IN  IF IsDeadEnd(grid[c]) /\ (gen \/ lucky) /\ to \in Cells
           THEN /\ grid' = [x \in Cells |->
                     grid[x] \union (IF x = c THEN {d} ELSE {})
                             \union (IF x = to THEN {Opposite(d)} ELSE {})]
                /\ gen' = FALSE
           ELSE /\ gen' = (gen \/ (IsDeadEnd(grid[c]) /\ lucky))
                /\ UNCHANGED grid
  /\ scan' = Tail(scan)
  /\ UNCHANGED <<seed, loops, startNodes, pos, left, iterations, generations, pc>>

EndLoops ==
  /\ pc = "loops" /\ scan = <<>>
  /\ pc' = "done"
  /\ UNCHANGED <<grid, seed, loops, startNodes, pos, left, iterations, scan, gen,
                 generations>>

Step ==
  \/ \E c \in Cells, length \in CorridorLengths : StartCorridor(c, length)
  \/ \E d \in Directions : Dig(d)
  \/ EndCorridor \/ EndCorridors
  \/ \E lucky \in BOOLEAN : Connect(lucky)
  \/ EndLoops

MazeNext == Step \/ \E c \in Cells, withLoops \in BOOLEAN : Generate(c, withLoops)

MazeSpec == MazeInit /\ [][MazeNext]_mazeVars

-----------------------------------------------------------------------------
(***************************************************************************)
(* Properties.                                                             *)
(***************************************************************************)

\* Types of the state.  A mask has the bits of the directions and flags only.  The
\* loop that is protected by maxIterations needs no more than two iterations per
\* cell, so that the limit cuts no maze short unless it has over half as many cells.
MazeTypeOK ==
  /\ grid \in [Cells -> SUBSET (Directions \union {None, Unvisited, Disabled})]
  /\ seed \in Cells /\ pos \in Cells
  /\ IsABag(startNodes) /\ BagToSet(startNodes) \subseteq Cells
  /\ left \in Nat /\ iterations \in 0..(2 * Cardinality(Cells))
  /\ Range(scan) \subseteq Cells /\ gen \in BOOLEAN
  /\ loops \in BOOLEAN /\ generations \in 0..MaxGenerations
  /\ pc \in {"choose", "corridor", "loops", "done"}

Generated == generations > 0

Visited == {c \in Cells : Unvisited \notin grid[c]} \union {seed}

Passages == {p \in Cells \X Directions : p[2] \in grid[p[1]]}

\* Cells that are reached from c by the steps that Leads allows: those of the
\* smallest set with c that such steps do not leave.
ReachedFrom(c, Leads(_, _)) ==
  LET kept(S) == c \in S /\ \A a \in S, d \in Directions : Leads(a, d) => Beyond(a, d) \in S
  IN  CHOOSE S \in SUBSET Cells :
        kept(S) /\ \A T \in SUBSET S : kept(T) => T = S

\* A passage can be taken both ways, and never leads out of the grid or into a
\* cell that was not visited.  "All corridors will be connected to this point, and no
\* one will make any loop" (MazeGenerator.hpp:40-41): the passages make a tree that
\* spans the visited cells, unless loops are asked for.
CorridorsAreATree ==
  Generated =>
    /\ \A p \in Passages :
         LET to == Beyond(p[1], p[2])
         IN  to \in Cells /\ Opposite(p[2]) \in grid[to] /\ Unvisited \notin grid[to]
    /\ ~loops =>
         /\ ReachedFrom(seed, LAMBDA a, d : d \in grid[a]) = Visited
         /\ Cardinality(Passages) = 2 * (Cardinality(Visited) - 1)

\* Every cell that is not cut off from the seed by disabled cells is in the
\* maze, and no disabled cell but the seed is.
MazeIsWhole ==
  Generated /\ pc = "done" =>
    Visited = ReachedFrom(seed, LAMBDA a, d :
                          Beyond(a, d) \in Cells /\ Disabled \notin grid[Beyond(a, d)])

=============================================================================

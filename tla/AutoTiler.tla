------------------------------ MODULE AutoTiler ------------------------------
(***************************************************************************)
(* zn::AutoTiler: patterns, with neighbors that do not matter, are turned  *)
(* into cases that say for each neighboring exactly which tile to use, and *)
(* a grid of types is turned into a grid of tiles by these cases.          *)
(*                                                                         *)
(* A connection mask is the set of the neighbors that connect, numbered as *)
(* in the program: 0 1 2 above the cell, 3 and 4 beside it, 5 6 7 below.   *)
(* Neighbor 0 is the highest bit and neighbor 7 the lowest.  The vector of *)
(* the variants of a tile is left out: only the first one is used.         *)
(***************************************************************************)
EXTENDS Integers, Sequences, FiniteSetsExt

CONSTANTS
  Width, Height,  \* the size of the grids
  Types,          \* the types of the cells, from 0
  RuledTypes,     \* those whose rule set is given rules; the others have tile 0
  DefaultInput,   \* the type of what is out of the grid
  Patterns,       \* [con, care]: neighbors that connect, neighbors that matter
  Tiles,          \* the tiles that rules can give, from 0
  MaxRules        \* bound: the calls of addCase

Cells == (0..(Width - 1)) \X (0..(Height - 1))
Neighbors == 0..7

ASSUME ConstantsAssumption ==
  /\ Width \in Nat \ {0} /\ Height \in Nat \ {0}
  /\ Types \subseteq Nat /\ RuledTypes \subseteq Types /\ DefaultInput \in Types
  /\ Patterns \subseteq [con : SUBSET Neighbors, care : SUBSET Neighbors]
  /\ 0 \in Tiles /\ Tiles \subseteq Nat
  /\ MaxRules \in Nat

NoTile == -1

VARIABLES
  cases,          \* cases of each rule set, NoTile where there is none
  defaultOf,      \* defaultOutput of each rule set
  connections,    \* connections of each rule set
  given,          \* history: the patterns given to each rule set, in order
  input, output,  \* the grids of the last call of process
  stale           \* history: a rule was added since that call

vars == <<cases, defaultOf, connections, given, input, output, stale>>

Init ==
  /\ cases = [t \in RuledTypes |-> [n \in SUBSET Neighbors |-> NoTile]]
  /\ defaultOf = [t \in RuledTypes |-> 0]
  /\ connections \in [RuledTypes -> SUBSET Types]
  /\ given = [t \in RuledTypes |-> <<>>]
  /\ input = [c \in Cells |-> DefaultInput]
  /\ output = [c \in Cells |-> 0]
  /\ stale = TRUE

-----------------------------------------------------------------------------
\* The mask that the code takes for full is 0xf, the four lowest bits.
TakenForFull(care) == care = 4..7

Matches(n, pattern) == n \intersect pattern.care = pattern.con \intersect pattern.care

\* The cases for one pattern.
Generated(pattern) ==
  IF TakenForFull(pattern.care)
    THEN {pattern.con}
    ELSE {n \in SUBSET Neighbors : Matches(n, pattern)}

\* Slip: a later rule replaces an earlier one.
AddCaseOver(t, pattern, tile) ==
  /\ Len(given[t]) < MaxRules
  /\ given' = [given EXCEPT ![t] = Append(@, [pattern |-> pattern, tile |-> tile])]
  /\ stale' = TRUE
  /\ cases' = [cases EXCEPT ![t] = [n \in SUBSET Neighbors |->
         IF n \in Generated(pattern) THEN tile ELSE @[n]]]
  /\ UNCHANGED <<defaultOf, connections, input, output>>

AddCase(t, pattern, tile) ==
  /\ Len(given[t]) < MaxRules
  /\ given' = [given EXCEPT ![t] = Append(@, [pattern |-> pattern, tile |-> tile])]
  /\ stale' = TRUE
  /\ IF pattern.care = {}
       THEN defaultOf' = [defaultOf EXCEPT ![t] = tile] /\ UNCHANGED cases
       ELSE /\ cases' = [cases EXCEPT ![t] = [n \in SUBSET Neighbors |->
                  IF @[n] = NoTile /\ n \in Generated(pattern) THEN tile ELSE @[n]]]
            /\ UNCHANGED defaultOf
  /\ UNCHANGED <<connections, input, output>>

Vectors == << <<-1, -1>>, <<0, -1>>, <<1, -1>>, <<-1, 0>>,
              <<1, 0>>, <<-1, 1>>, <<0, 1>>, <<1, 1>> >>

TypeAt(grid, c) == IF c \in Cells THEN grid[c] ELSE DefaultInput

\* The neighbors of c that connect, for the rule set of the type t.
Neighboring(grid, c, t) ==
  {i \in Neighbors :
     LET v == Vectors[i + 1]
     IN  TypeAt(grid, <<c[1] + v[1], c[2] + v[2]>>) \in connections[t]}

\* The tile of a cell of the grid; a type without a rule set has tile 0.
ProcessTile(grid, c) ==
  LET t == grid[c]
      n == Neighboring(grid, c, t)
  IN  IF t \notin RuledTypes THEN 0
      ELSE IF cases[t][n] # NoTile THEN cases[t][n]
      ELSE defaultOf[t]

Process(grid) ==
  /\ input' = grid
  /\ output' = [c \in Cells |-> ProcessTile(grid, c)]
  /\ stale' = FALSE
  /\ UNCHANGED <<cases, defaultOf, connections, given>>

Next ==
  \/ \E t \in RuledTypes, p \in Patterns, tile \in Tiles : AddCase(t, p, tile)
  \/ \E grid \in [Cells -> Types] : Process(grid)

Spec == Init /\ [][Next]_vars

-----------------------------------------------------------------------------
(***************************************************************************)
(* Properties.                                                             *)
(***************************************************************************)

\* The neighbors are those of the picture at AutoTiler.hpp:31-33, row by row.
PictureNeighbor(c, i) ==
  LET place == IF i < 4 THEN i ELSE i + 1
  IN  <<c[1] + (place % 3) - 1, c[2] + (place \div 3) - 1>>

\* The places in the list of rules of those that say something about n.
Deciding(t, n) ==
  {k \in DOMAIN given[t] :
     LET p == given[t][k].pattern
     IN  p.care # {} /\ \A i \in p.care : i \in n <=> i \in p.con}

Catchalls(t) == {k \in DOMAIN given[t] : given[t][k].pattern.care = {}}

\* The tile of a cell is that of the first rule that agrees with it on all the
\* neighbors that matter, "1 means take into account and 0 means don't care"
\* (AutoTiler.hpp:66-67), or else of the last rule in which none matters.
FirstRuleDecides ==
  \A c \in Cells :
    LET t == input[c]
        n == {i \in Neighbors : TypeAt(input, PictureNeighbor(c, i)) \in connections[t]}
        d == Deciding(t, n)
    IN  ~stale /\ t \in RuledTypes =>
          output[c] = IF d # {} THEN given[t][Min(d)].tile
                      ELSE IF Catchalls(t) # {} THEN given[t][Max(Catchalls(t))].tile
                      ELSE 0
=============================================================================

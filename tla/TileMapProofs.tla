---------------------------- MODULE TileMapProofs ----------------------------
(***************************************************************************)
(* Theorems about the tiles of a level, the mesh that shows them and the   *)
(* cells that stop what moves on it, for grids, maps and textures of any   *)
(* size and for any rules.                                                 *)
(***************************************************************************)
EXTENDS TileMap, WellFoundedInduction, TLAPS

-----------------------------------------------------------------------------
(***************************************************************************)
(* Numbers.                                                                *)
(***************************************************************************)

Less == {pair \in Nat \X Nat : pair[1] < pair[2]}

\* A set of natural numbers has a least element.
LEMMA LeastElement ==
  ASSUME NEW T, T \subseteq Nat, T # {}
  PROVE  \E x \in T : \A y \in T : x <= y
<1>1. IsWellFoundedOn(Less, Nat)
  BY NatLessThanWellFounded DEF OpToRel, Less
<1>2. PICK x \in T : \A y \in T : <<y, x>> \notin Less
  BY <1>1, WFMin
<1>3. ASSUME NEW y \in T PROVE x <= y
  <2>1. ~(y < x)
    BY <1>2 DEF Less
  <2> QED BY <2>1
<1> QED BY <1>3

LEMMA MinIs ==
  ASSUME NEW T, T \subseteq Nat, NEW x \in T, \A y \in T : x <= y
  PROVE  Min(T) = x
<1> DEFINE m == Min(T)
<1>1. m \in T /\ \A y \in T : m <= y
  BY DEF Min
<1>2. m \in Nat /\ x \in Nat /\ m <= x /\ x <= m
  BY <1>1
<1> HIDE DEF m
<1>3. m = x
  BY <1>2
<1> QED BY <1>3 DEF m

LEMMA MaxIs ==
  ASSUME NEW T, T \subseteq Nat, NEW x \in T, \A y \in T : x >= y
  PROVE  Max(T) = x
<1> DEFINE m == Max(T)
<1>1. m \in T /\ \A y \in T : m >= y
  BY DEF Max
<1>2. m \in Nat /\ x \in Nat /\ m <= x /\ x <= m
  BY <1>1
<1> HIDE DEF m
<1>3. m = x
  BY <1>2
<1> QED BY <1>3 DEF m

\* Min() of the places in a list: a place after all of them does not change it.
LEMMA MinOfPlaces ==
  ASSUME NEW T, NEW k \in Nat, T \subseteq 1..k
  PROVE  /\ T # {} => Min(T) \in T /\ Min(T \union {k + 1}) = Min(T)
         /\ T = {} => Min(T \union {k + 1}) = k + 1
<1>0. T \subseteq Nat /\ \A y \in T : y <= k
  OBVIOUS
<1> DEFINE U == T \union {k + 1}
<1>u. U \subseteq Nat /\ k + 1 \in U /\ \A y \in U : y \in T \/ y = k + 1
  BY <1>0
<1>1. CASE T # {}
  <2>1. PICK x \in T : \A y \in T : x <= y
    BY <1>0, <1>1, LeastElement
  <2>2. Min(T) = x
    BY <1>0, <2>1, MinIs
  <2>3. x \in U /\ \A y \in U : x <= y
    BY <1>0, <1>u, <2>1
  <2> HIDE DEF U
  <2>4. Min(U) = x
    BY <1>u, <2>3, MinIs
  <2> QED BY <1>1, <2>2, <2>4 DEF U
<1>2. CASE T = {}
  <2>1. \A y \in U : k + 1 <= y
    BY <1>2
  <2> HIDE DEF U
  <2>2. Min(U) = k + 1
    BY <1>u, <2>1, MinIs
  <2> QED BY <1>2, <2>2 DEF U
<1> QED BY <1>1, <1>2

\* Max() of the places in a list: a place after all of them takes over.
LEMMA MaxOfPlaces ==
  ASSUME NEW T, NEW k \in Nat, T \subseteq 1..k
  PROVE  /\ T # {} => Max(T) \in T
         /\ Max(T \union {k + 1}) = k + 1
<1>1. ASSUME T # {} PROVE Max(T) \in T
  <2> DEFINE B == {b \in Nat : k - b \in T}
  <2>1. PICK z \in T : TRUE
    BY <1>1
  <2>2. z \in 1..k /\ k - z \in Nat /\ k - (k - z) = z
    OBVIOUS
  <2>3. B \subseteq Nat /\ B # {}
    BY <2>1, <2>2
  <2>4. PICK b \in B : \A y \in B : b <= y
    <3> HIDE DEF B
    <3> QED BY <2>3, LeastElement
  <2>5. b \in Nat /\ k - b \in T
    BY <2>4
  <2>6. ASSUME NEW y \in T PROVE k - b >= y
    <3>1. y \in 1..k /\ k - y \in Nat /\ k - (k - y) = y
      OBVIOUS
    <3>2. k - y \in B
      BY <3>1
    <3>3. b <= k - y
      BY <2>4, <3>2
    <3> QED BY <2>5, <3>1, <3>3
  <2>7. T \subseteq Nat
    OBVIOUS
  <2>8. Max(T) = k - b
    BY <2>5, <2>6, <2>7, MaxIs
  <2> QED BY <2>5, <2>8
<1> DEFINE U == T \union {k + 1}
<1>2. U \subseteq Nat /\ k + 1 \in U /\ \A y \in U : k + 1 >= y
  OBVIOUS
<1> HIDE DEF U
<1>3. Max(U) = k + 1
  BY <1>2, MaxIs
<1> QED BY <1>1, <1>3 DEF U

-----------------------------------------------------------------------------
(***************************************************************************)
(* The tiler.                                                              *)
(***************************************************************************)

Rules == [pattern : Patterns, tile : Tiles]

TilerTypeOK ==
  /\ cases \in [RuledTypes -> [SUBSET Neighbors -> Tiles \union {NoTile}]]
  /\ defaultOf \in [RuledTypes -> Tiles]
  /\ connections \in [RuledTypes -> SUBSET Types]
  /\ given \in [RuledTypes -> Seq(Rules)]
  /\ input \in [Cells -> Types] /\ output \in [Cells -> Tiles]
  /\ stale \in BOOLEAN

\* What each neighboring and the default have been given: of the rules that agree with a
\* neighboring the first, of those in which none matters the last.
CasesAreDecided ==
  \A t \in RuledTypes :
    /\ \A n \in SUBSET Neighbors :
         cases[t][n] = IF Deciding(t, n) # {} THEN given[t][Min(Deciding(t, n))].tile ELSE NoTile
    /\ defaultOf[t] = IF Catchalls(t) # {} THEN given[t][Max(Catchalls(t))].tile ELSE 0

\* The output is that of the rules there are.
OutputIsProcessed == ~stale => output = [c \in Cells |-> ProcessTile(input, c)]

TilerInv == TilerTypeOK /\ CasesAreDecided /\ OutputIsProcessed

\* No pattern is taken for one in which every neighbor matters.
NoneTakenForFull == \A p \in Patterns : ~TakenForFull(p.care)

\* The types of the tiler need nothing of the patterns.
LEMMA FirstTypes ==
  ASSUME cases = [t \in RuledTypes |-> [n \in SUBSET Neighbors |-> NoTile]],
         defaultOf = [t \in RuledTypes |-> 0],
         connections \in [RuledTypes -> SUBSET Types],
         given = [t \in RuledTypes |-> <<>>],
         input = [c \in Cells |-> DefaultInput],
         output = [c \in Cells |-> 0],
         stale = TRUE
  PROVE  TilerTypeOK
<1>1. 0 \in Tiles /\ DefaultInput \in Types
  BY ConstantsAssumption
<1>2. <<>> \in Seq(Rules)
  OBVIOUS
<1> QED BY <1>1, <1>2 DEF TilerTypeOK

LEMMA RuleTypes ==
  ASSUME TilerTypeOK, NEW t \in RuledTypes, NEW p \in Patterns, NEW tile \in Tiles,
         AddCase(t, p, tile)
  PROVE  TilerTypeOK'
<1> DEFINE rule == [pattern |-> p, tile |-> tile]
<1>1. /\ given' = [given EXCEPT ![t] = Append(given[t], rule)] /\ stale' = TRUE
      /\ UNCHANGED <<connections, input, output>>
  BY DEF AddCase
<1>2. given[t] \in Seq(Rules) /\ rule \in Rules
  BY DEF TilerTypeOK, Rules
<1> HIDE DEF rule
<1>3. given' \in [RuledTypes -> Seq(Rules)]
  BY <1>1, <1>2 DEF TilerTypeOK
<1>4. [n \in SUBSET Neighbors |->
         IF cases[t][n] = NoTile /\ n \in Generated(p) THEN tile ELSE cases[t][n]]
        \in [SUBSET Neighbors -> Tiles \union {NoTile}]
  BY DEF TilerTypeOK
<1>5. /\ cases' \in [RuledTypes -> [SUBSET Neighbors -> Tiles \union {NoTile}]]
      /\ defaultOf' \in [RuledTypes -> Tiles]
  BY <1>4 DEF AddCase, TilerTypeOK
<1> QED BY <1>1, <1>3, <1>5 DEF TilerTypeOK

LEMMA GridTypes ==
  ASSUME TilerTypeOK, NEW grid \in [Cells -> Types], Process(grid)
  PROVE  TilerTypeOK'
<1>1. UNCHANGED <<cases, defaultOf, connections, given>> /\ input' = grid
  BY DEF Process
<1>2. ASSUME NEW c \in Cells PROVE ProcessTile(grid, c) \in Tiles
  <2>1. grid[c] \in RuledTypes =>
          /\ defaultOf[grid[c]] \in Tiles
          /\ \A n \in SUBSET Neighbors : cases[grid[c]][n] \in Tiles \union {NoTile}
    BY DEF TilerTypeOK
  <2>2. Neighboring(grid, c, grid[c]) \in SUBSET Neighbors
    BY DEF Neighboring
  <2> QED BY <2>1, <2>2, ConstantsAssumption DEF ProcessTile
<1>3. output' \in [Cells -> Tiles] /\ stale' = FALSE
  BY <1>2 DEF Process
<1> QED BY <1>1, <1>3 DEF TilerTypeOK

LEMMA DoneTypes ==
  ASSUME TilerDone
  PROVE  TilerTypeOK'
<1>1. {} \in SUBSET Types
  OBVIOUS
<1>2. connections' \in [RuledTypes -> SUBSET Types]
  BY <1>1 DEF TilerDone
<1>3. 0 \in Tiles /\ DefaultInput \in Types /\ <<>> \in Seq(Rules)
  BY ConstantsAssumption
<1> QED BY <1>2, <1>3 DEF TilerDone, TilerTypeOK

LEMMA TypesKept ==
  ASSUME TilerTypeOK, [TileMapNext]_tileMapVars
  PROVE  TilerTypeOK'
<1>1. CASE Tiling
  BY <1>1, RuleTypes, GridTypes DEF Tiling, Next
<1>2. CASE (\E t \in Texture : ShowTiling(t)) \/ NoTiling
  BY <1>2, DoneTypes DEF ShowTiling, NoTiling
<1>3. ASSUME CallRenderer \/ CallCollider \/ Save \/ Load \/ UNCHANGED tileMapVars
      PROVE  TilerTypeOK'
  <2>1. UNCHANGED tilerVars
    BY <1>3 DEF CallRenderer, CallCollider, Save, Load, Call, tileMapVars
  <2> QED BY <2>1 DEF tilerVars, vars, TilerTypeOK
<1> QED BY <1>1, <1>2, <1>3 DEF TileMapNext

(***************************************************************************)
(* The cases, the grids and the lists of rules have their types, whatever  *)
(* the rules and whatever is done with the level made of the tiles.        *)
(***************************************************************************)
THEOREM TypeCorrect == TileMapSpec => []TilerTypeOK
<1>1. TileMapInit => TilerTypeOK
  BY FirstTypes DEF TileMapInit, Init
<1>2. TilerTypeOK /\ [TileMapNext]_tileMapVars => TilerTypeOK'
  BY TypesKept
<1> QED BY <1>1, <1>2, PTL DEF TileMapSpec

LEMMA NoRules ==
  ASSUME cases = [t \in RuledTypes |-> [n \in SUBSET Neighbors |-> NoTile]],
         defaultOf = [t \in RuledTypes |-> 0],
         connections \in [RuledTypes -> SUBSET Types],
         given = [t \in RuledTypes |-> <<>>],
         input = [c \in Cells |-> DefaultInput],
         output = [c \in Cells |-> 0],
         stale = TRUE
  PROVE  TilerInv
<1>3. TilerTypeOK
  BY FirstTypes
<1>4. \A t \in RuledTypes : Catchalls(t) = {} /\ \A n \in SUBSET Neighbors : Deciding(t, n) = {}
  BY DEF Catchalls, Deciding
<1>5. CasesAreDecided
  BY <1>4 DEF CasesAreDecided
<1> QED BY <1>3, <1>5 DEF TilerInv, OutputIsProcessed

LEMMA RulesAreDecided ==
  ASSUME NoneTakenForFull, TilerInv, NEW t \in RuledTypes, NEW p \in Patterns,
         NEW tile \in Tiles, AddCase(t, p, tile)
  PROVE  TilerInv'
<1> DEFINE rule == [pattern |-> p, tile |-> tile]
           k == Len(given[t])
<1>1. /\ given' = [given EXCEPT ![t] = Append(given[t], rule)] /\ stale' = TRUE
      /\ UNCHANGED <<connections, input, output>>
  BY DEF AddCase
<1>2. /\ given[t] \in Seq(Rules) /\ rule \in Rules /\ k \in Nat
      /\ p.con \in SUBSET Neighbors /\ p.care \in SUBSET Neighbors /\ tile # NoTile
  <2>1. given[t] \in Seq(Rules)
    BY DEF TilerInv, TilerTypeOK
  <2>2. rule \in Rules
    BY DEF Rules
  <2>3. Len(given[t]) \in Nat
    BY <2>1
  <2>4. p \in [con : SUBSET Neighbors, care : SUBSET Neighbors]
    BY ConstantsAssumption
  <2>5. tile # NoTile
    BY ConstantsAssumption DEF NoTile
  <2> QED BY <2>1, <2>2, <2>3, <2>4, <2>5
<1> HIDE DEF rule
<1>3. /\ given'[t] = Append(given[t], rule) /\ DOMAIN given[t] = 1..k
      /\ \A u \in RuledTypes \ {t} : given'[u] = given[u]
      /\ given' \in [RuledTypes -> Seq(Rules)]
  BY <1>1, <1>2 DEF TilerInv, TilerTypeOK
<1>4. /\ DOMAIN given'[t] = 1..(k + 1) /\ given'[t][k + 1] = rule
      /\ \A j \in 1..k : given'[t][j] = given[t][j]
  BY <1>2, <1>3
<1> HIDE DEF k
<1> DEFINE says(n) == p.care # {} /\ \A i \in p.care : i \in n <=> i \in p.con
<1>5. /\ \A u \in RuledTypes \ {t} :
           Catchalls(u)' = Catchalls(u) /\ \A n \in SUBSET Neighbors : Deciding(u, n)' = Deciding(u, n)
      /\ Catchalls(t) \subseteq 1..k /\ \A n \in SUBSET Neighbors : Deciding(t, n) \subseteq 1..k
  BY <1>3 DEF Catchalls, Deciding
<1>6. Catchalls(t)' = IF p.care = {} THEN Catchalls(t) \union {k + 1} ELSE Catchalls(t)
  <2>1. \A j : j \in 1..(k + 1) <=> (j \in 1..k \/ j = k + 1)
    BY <1>2
  <2>2. ~(k + 1 \in 1..k)
    BY <1>2
  <2>3. rule.pattern = p
    BY DEF rule
  <2> QED BY <1>3, <1>4, <2>1, <2>2, <2>3 DEF Catchalls
<1>7. \A n \in SUBSET Neighbors :
        Deciding(t, n)' = IF says(n) THEN Deciding(t, n) \union {k + 1} ELSE Deciding(t, n)
  <2>1. \A j : j \in 1..(k + 1) <=> (j \in 1..k \/ j = k + 1)
    BY <1>2
  <2>2. ~(k + 1 \in 1..k)
    BY <1>2
  <2>3. rule.pattern = p
    BY DEF rule
  <2> QED BY <1>3, <1>4, <2>1, <2>2, <2>3 DEF Deciding
<1>8. \A n \in SUBSET Neighbors : p.care # {} => (n \in Generated(p) <=> says(n))
  <2>1. ~TakenForFull(p.care)
    BY DEF NoneTakenForFull
  <2> QED BY <1>2, <2>1 DEF Generated, Matches
<1>9. \A u \in RuledTypes \ {t} : cases'[u] = cases[u] /\ defaultOf'[u] = defaultOf[u]
  BY DEF AddCase, TilerInv, TilerTypeOK
<1>11. /\ p.care = {} => cases'[t] = cases[t] /\ defaultOf'[t] = tile
       /\ p.care # {} =>
            /\ defaultOf'[t] = defaultOf[t]
            /\ \A n \in SUBSET Neighbors :
                 cases'[t][n] = IF cases[t][n] = NoTile /\ n \in Generated(p) THEN tile ELSE cases[t][n]
  BY DEF AddCase, TilerInv, TilerTypeOK
<1>12. TilerTypeOK'
  BY RuleTypes DEF TilerInv
<1>13. rule.tile = tile
  BY DEF rule
<1>14. \A n \in SUBSET Neighbors :
         cases[t][n] = IF Deciding(t, n) # {} THEN given[t][Min(Deciding(t, n))].tile ELSE NoTile
  BY DEF TilerInv, CasesAreDecided
<1>15. ASSUME NEW n \in SUBSET Neighbors
       PROVE  cases'[t][n] = IF Deciding(t, n)' # {} THEN given'[t][Min(Deciding(t, n)')].tile ELSE NoTile
  <2> DEFINE D == Deciding(t, n)
             E == Deciding(t, n)'
  <2>1. D \subseteq 1..k /\ E = IF says(n) THEN D \union {k + 1} ELSE D
    BY <1>5, <1>7
  <2>2. cases[t][n] = IF D # {} THEN given[t][Min(D)].tile ELSE NoTile
    BY <1>14
  <2>3. /\ p.care = {} => cases'[t][n] = cases[t][n] /\ ~says(n)
        /\ p.care # {} => cases'[t][n] = IF cases[t][n] = NoTile /\ says(n) THEN tile ELSE cases[t][n]
    BY <1>8, <1>11
  <2> HIDE DEF D, E, says
  <2>4. CASE D # {}
    <3>1. Min(D) \in 1..k /\ E # {} /\ Min(E) = Min(D)
      BY <1>2, <2>1, <2>4, MinOfPlaces
    <3>2. given'[t][Min(E)] = given[t][Min(D)] /\ given[t][Min(D)] \in Rules
      BY <1>2, <1>3, <1>4, <3>1
    <3>3. cases[t][n] # NoTile
      BY <2>2, <2>4, <3>2, ConstantsAssumption DEF Rules, NoTile
    <3> QED BY <2>2, <2>3, <2>4, <3>1, <3>2, <3>3 DEF E
  <2>5. CASE D = {} /\ says(n)
    <3>1. E # {} /\ Min(E) = k + 1
      BY <1>2, <2>1, <2>5, MinOfPlaces
    <3> QED BY <1>4, <1>13, <2>2, <2>3, <2>5, <3>1 DEF E
  <2>6. CASE D = {} /\ ~says(n)
    BY <2>1, <2>2, <2>3, <2>6 DEF E
  <2> QED BY <2>4, <2>5, <2>6
<1>16. defaultOf'[t] = IF Catchalls(t)' # {} THEN given'[t][Max(Catchalls(t)')].tile ELSE 0
  <2> DEFINE C == Catchalls(t)
  <2>1. C \subseteq 1..k /\ defaultOf[t] = IF C # {} THEN given[t][Max(C)].tile ELSE 0
    BY <1>5 DEF TilerInv, CasesAreDecided
  <2>2. Catchalls(t)' = IF p.care = {} THEN C \union {k + 1} ELSE C
    BY <1>6
  <2> HIDE DEF C
  <2>3. Max(C \union {k + 1}) = k + 1 /\ (C # {} => Max(C) \in 1..k)
    BY <1>2, <2>1, MaxOfPlaces
  <2>4. CASE p.care = {}
    BY <1>4, <1>11, <1>13, <2>2, <2>3, <2>4
  <2>5. CASE p.care # {}
    BY <1>4, <1>11, <2>1, <2>2, <2>3, <2>5
  <2> QED BY <2>4, <2>5
<1>17. ASSUME NEW u \in RuledTypes, u # t
       PROVE  /\ \A n \in SUBSET Neighbors :
                   cases'[u][n] = IF Deciding(u, n)' # {}
                                    THEN given'[u][Min(Deciding(u, n)')].tile ELSE NoTile
              /\ defaultOf'[u] = IF Catchalls(u)' # {}
                                   THEN given'[u][Max(Catchalls(u)')].tile ELSE 0
  <2>1. /\ Catchalls(u)' = Catchalls(u) /\ given'[u] = given[u]
        /\ cases'[u] = cases[u] /\ defaultOf'[u] = defaultOf[u]
    BY <1>3, <1>5, <1>9, <1>17
  <2>2. \A n \in SUBSET Neighbors : Deciding(u, n)' = Deciding(u, n)
    BY <1>5, <1>17
  <2>3. /\ \A n \in SUBSET Neighbors :
             cases[u][n] = IF Deciding(u, n) # {} THEN given[u][Min(Deciding(u, n))].tile ELSE NoTile
        /\ defaultOf[u] = IF Catchalls(u) # {} THEN given[u][Max(Catchalls(u))].tile ELSE 0
    BY DEF TilerInv, CasesAreDecided
  <2> QED BY <2>1, <2>2, <2>3
<1>18. CasesAreDecided'
  BY <1>15, <1>16, <1>17 DEF CasesAreDecided
<1> QED BY <1>1, <1>12, <1>18 DEF TilerInv, OutputIsProcessed

LEMMA GridIsProcessed ==
  ASSUME TilerInv, NEW grid \in [Cells -> Types], Process(grid)
  PROVE  TilerInv'
<1>1. UNCHANGED <<cases, defaultOf, connections, given>> /\ input' = grid
  BY DEF Process
<1>4. TilerTypeOK'
  BY GridTypes DEF TilerInv
<1>5. CasesAreDecided'
  <2>1. \A t \in RuledTypes : Catchalls(t)' = Catchalls(t)
    BY <1>1 DEF Catchalls
  <2>2. \A t \in RuledTypes : \A n \in SUBSET Neighbors : Deciding(t, n)' = Deciding(t, n)
    BY <1>1 DEF Deciding
  <2> QED BY <1>1, <2>1, <2>2 DEF TilerInv, CasesAreDecided
<1>6. \A c \in Cells : ProcessTile(input, c)' = ProcessTile(grid, c)
  BY <1>1 DEF ProcessTile, Neighboring, TypeAt
<1>7. OutputIsProcessed'
  BY <1>6 DEF Process, OutputIsProcessed
<1> QED BY <1>4, <1>5, <1>7 DEF TilerInv

\* What keeps the tiler's variables keeps what is known of them.
LEMMA TilerUnchanged ==
  ASSUME TilerInv, UNCHANGED tilerVars
  PROVE  TilerInv'
<1>1. UNCHANGED <<cases, defaultOf, connections, given, input, output, stale>>
  BY DEF tilerVars, vars
<1>2. TilerTypeOK'
  BY <1>1 DEF TilerInv, TilerTypeOK
<1>3. CasesAreDecided'
  <2>1. \A t \in RuledTypes : Catchalls(t)' = Catchalls(t)
    BY <1>1 DEF Catchalls
  <2>2. \A t \in RuledTypes : \A n \in SUBSET Neighbors : Deciding(t, n)' = Deciding(t, n)
    BY <1>1 DEF Deciding
  <2> QED BY <1>1, <2>1, <2>2 DEF TilerInv, CasesAreDecided
<1>4. OutputIsProcessed'
  <2>1. \A c \in Cells : ProcessTile(input, c)' = ProcessTile(input, c)
    BY <1>1 DEF ProcessTile, Neighboring, TypeAt
  <2> QED BY <1>1, <2>1 DEF TilerInv, OutputIsProcessed
<1> QED BY <1>2, <1>3, <1>4 DEF TilerInv

LEMMA TilerKept ==
  ASSUME NoneTakenForFull, TilerInv, [TileMapNext]_tileMapVars
  PROVE  TilerInv'
<1>1. CASE Tiling
  <2>1. CASE \E t \in RuledTypes, p \in Patterns, tile \in Tiles : AddCase(t, p, tile)
    BY <2>1, RulesAreDecided
  <2>2. CASE \E grid \in [Cells -> Types] : Process(grid)
    BY <2>2, GridIsProcessed
  <2> QED BY <1>1, <2>1, <2>2 DEF Tiling, Next
<1>2. ASSUME TilerDone PROVE TilerInv'
  <2>4. TilerTypeOK'
    BY <1>2, DoneTypes
  <2>5. \A t \in RuledTypes :
          Catchalls(t)' = {} /\ \A n \in SUBSET Neighbors : Deciding(t, n)' = {}
    BY <1>2 DEF TilerDone, Catchalls, Deciding
  <2>6. CasesAreDecided'
    BY <1>2, <2>5 DEF TilerDone, CasesAreDecided
  <2> QED BY <1>2, <2>4, <2>6 DEF TilerDone, TilerInv, OutputIsProcessed
<1>3. ASSUME NEW t \in Texture, ShowTiling(t) PROVE TilerInv'
  BY <1>2, <1>3 DEF ShowTiling
<1>4. CASE NoTiling
  BY <1>2, <1>4 DEF NoTiling
<1>5. ASSUME CallRenderer \/ CallCollider \/ Save \/ Load \/ UNCHANGED tileMapVars
      PROVE  TilerInv'
  <2>1. UNCHANGED tilerVars
    BY <1>5 DEF CallRenderer, CallCollider, Save, Load, Call, tileMapVars
  <2> QED BY <2>1, TilerUnchanged
<1> QED BY <1>1, <1>3, <1>4, <1>5 DEF TileMapNext

(***************************************************************************)
(* AutoTiler::addCase: for each neighboring there is the tile of the first *)
(* rule that agrees with it, and the default is that of the last rule in   *)
(* which nothing matters.                                                  *)
(***************************************************************************)
THEOREM TilerInvariant ==
  ASSUME NoneTakenForFull
  PROVE  TileMapSpec => []TilerInv
<1>1. TileMapInit => TilerInv
  BY NoRules DEF TileMapInit, Init
<1>2. TilerInv /\ [TileMapNext]_tileMapVars => TilerInv'
  BY TilerKept
<1> QED BY <1>1, <1>2, PTL DEF TileMapSpec

\* The neighbors that the code looks at are those of the picture.
LEMMA VectorsAreThePicture ==
  ASSUME NEW c \in Cells, NEW i \in Neighbors
  PROVE  PictureNeighbor(c, i) = <<c[1] + Vectors[i + 1][1], c[2] + Vectors[i + 1][2]>>
<1>1. c[1] \in Int /\ c[2] \in Int
  BY DEF Cells
<1>2. i = 0 \/ i = 1 \/ i = 2 \/ i = 3 \/ i = 4 \/ i = 5 \/ i = 6 \/ i = 7
  BY DEF Neighbors
<1>3. CASE i = 0
  BY <1>1, <1>3 DEF PictureNeighbor, Vectors
<1>4. CASE i = 1
  BY <1>1, <1>4 DEF PictureNeighbor, Vectors
<1>5. CASE i = 2
  BY <1>1, <1>5 DEF PictureNeighbor, Vectors
<1>6. CASE i = 3
  BY <1>1, <1>6 DEF PictureNeighbor, Vectors
<1>7. CASE i = 4
  BY <1>1, <1>7 DEF PictureNeighbor, Vectors
<1>8. CASE i = 5
  BY <1>1, <1>8 DEF PictureNeighbor, Vectors
<1>9. CASE i = 6
  BY <1>1, <1>9 DEF PictureNeighbor, Vectors
<1>10. CASE i = 7
  BY <1>1, <1>10 DEF PictureNeighbor, Vectors
<1> QED BY <1>2, <1>3, <1>4, <1>5, <1>6, <1>7, <1>8, <1>9, <1>10

(***************************************************************************)
(* Each cell of what AutoTiler::process gives has the tile of the first    *)
(* rule, in the order of addCase, that agrees with its neighbors, or of    *)
(* the last in which none matters: for every grid, list of rules and       *)
(* connections, if no pattern has the mask that the code takes for full.   *)
(***************************************************************************)
THEOREM FirstRuleWins ==
  ASSUME NoneTakenForFull
  PROVE  TileMapSpec => []FirstRuleDecides
<1>1. ASSUME TilerInv PROVE FirstRuleDecides
  <2> SUFFICES ASSUME NEW c \in Cells, ~stale, input[c] \in RuledTypes
               PROVE  LET t == input[c]
                          n == {i \in Neighbors : TypeAt(input, PictureNeighbor(c, i)) \in connections[t]}
                          d == Deciding(t, n)
                      IN  output[c] = IF d # {} THEN given[t][Min(d)].tile
                                      ELSE IF Catchalls(t) # {} THEN given[t][Max(Catchalls(t))].tile
                                      ELSE 0
    BY DEF FirstRuleDecides
  <2> DEFINE t == input[c]
             n == {i \in Neighbors : TypeAt(input, PictureNeighbor(c, i)) \in connections[t]}
             d == Deciding(t, n)
  <2>1. Neighboring(input, c, t) = n
    BY VectorsAreThePicture DEF Neighboring
  <2>2. output[c] = ProcessTile(input, c)
    BY <1>1 DEF TilerInv, OutputIsProcessed
  <2>3. n \in SUBSET Neighbors /\ t \in RuledTypes
    OBVIOUS
  <2> HIDE DEF n
  <2>4. output[c] = IF cases[t][n] # NoTile THEN cases[t][n] ELSE defaultOf[t]
    BY <2>1, <2>2, <2>3 DEF ProcessTile
  <2> HIDE DEF t
  <2>5. /\ cases[t][n] = IF d # {} THEN given[t][Min(d)].tile ELSE NoTile
        /\ defaultOf[t] = IF Catchalls(t) # {} THEN given[t][Max(Catchalls(t))].tile ELSE 0
    BY <1>1, <2>3 DEF TilerInv, CasesAreDecided
  <2>6. d # {} => given[t][Min(d)].tile # NoTile
    <3>1. given[t] \in Seq(Rules) /\ d \subseteq 1..Len(given[t]) /\ Len(given[t]) \in Nat
      BY <1>1, <2>3 DEF TilerInv, TilerTypeOK, Deciding
    <3>2. d # {} => Min(d) \in d
      BY <3>1, MinOfPlaces
    <3>3. d # {} => given[t][Min(d)] \in Rules
      BY <3>1, <3>2
    <3> QED BY <3>3, ConstantsAssumption DEF Rules, NoTile
  <2>7. output[c] = IF d # {} THEN given[t][Min(d)].tile
                    ELSE IF Catchalls(t) # {} THEN given[t][Max(Catchalls(t))].tile
                    ELSE 0
    BY <2>4, <2>5, <2>6
  <2> QED BY <2>7 DEF t, n
<1> QED BY <1>1, TilerInvariant, PTL

-----------------------------------------------------------------------------
(***************************************************************************)
(* The cells of a collider.                                                *)
(***************************************************************************)

\* Cells that have not departed from their Tiled map are those that the map gives, with
\* the types that there are now.
SourceIsRead ==
  source # Null /\ ~departed => cells = CellsOf(source, types) /\ extent = SizeOf[source]

\* The same of what was saved, and where there was no Tiled map the cells were.
FileIsRead ==
  file # Null =>
    LET saved == file.collider
    IN  /\ saved.source = Null => saved.data = saved.was
        /\ saved.source # Null /\ ~saved.departed =>
             saved.was = CellsOf(saved.source, saved.types) /\ saved.size = SizeOf[saved.source]

CellsInv == SourceIsRead /\ FileIsRead

LEMMA SourceKept ==
  ASSUME CellsInv, CallCollider
  PROVE  CellsInv'
<1>1. FileIsRead'
  BY DEF CellsInv, FileIsRead, CallCollider
<1>2. ASSUME NEW m \in TiledMap, BuildCellsOf(m, types) PROVE SourceIsRead'
  <2>1. m # Null /\ types' = types
    BY <1>2, MapRendererAssumption DEF BuildCellsOf
  <2>2. CASE CollisionLayer[m] = Null
    BY <1>2, <2>1, <2>2 DEF BuildCellsOf, CellsInv, SourceIsRead, CellsOf, TypeOf
  <2>3. CASE CollisionLayer[m] # Null /\ (~Fits(m) \/ CollisionGid[m] = Null)
    BY <1>2, <2>3 DEF BuildCellsOf, SourceIsRead
  <2>4. CASE CollisionLayer[m] # Null /\ ~(~Fits(m) \/ CollisionGid[m] = Null)
    <3>1. cells' = CellsOf(m, types) /\ extent' = SizeOf[m] /\ source' = m
      BY <1>2, <2>4 DEF BuildCellsOf
    <3> QED BY <2>1, <3>1 DEF SourceIsRead, CellsOf, TypeOf
  <2> QED BY <2>2, <2>3, <2>4
<1>3. ASSUME NEW s, NEW n, BuildCells(s, n) PROVE SourceIsRead'
  BY <1>3 DEF BuildCells, SourceIsRead
<1>4. ASSUME NEW c, NEW n, SetCell(c, n) PROVE SourceIsRead'
  BY <1>4 DEF SetCell, SourceIsRead
<1>5. ASSUME NEW n \in 0..(MaxTypes - 1), SetColliderType(n) PROVE SourceIsRead'
  BY <1>5 DEF SetColliderType, CellsInv, SourceIsRead, CellsOf, TypeOf
<1> QED BY <1>1, <1>2, <1>3, <1>4, <1>5 DEF CellsInv, CallCollider

LEMMA CellsKept ==
  ASSUME CellsInv, [TileMapNext]_tileMapVars
  PROVE  CellsInv'
<1>1. ASSUME UNCHANGED <<colliderVars, file>> PROVE CellsInv'
  BY <1>1 DEF colliderVars, CellsInv, SourceIsRead, FileIsRead, CellsOf, TypeOf
<1>2. ASSUME Tiling \/ (\E t \in Texture : ShowTiling(t)) \/ NoTiling \/ CallRenderer
               \/ UNCHANGED tileMapVars
      PROVE  UNCHANGED <<colliderVars, file>>
  BY <1>2 DEF Tiling, ShowTiling, NoTiling, CallRenderer, levelVars, tileMapVars
<1>3. CASE CallCollider
  BY <1>3, SourceKept
<1>4. CASE Save
  <2>1. SourceIsRead'
    BY <1>4 DEF Save, colliderVars, CellsInv, SourceIsRead, CellsOf, TypeOf
  <2>2. file'.collider = ColliderRecord
    BY <1>4 DEF Save
  <2>3. FileIsRead'
    BY <2>2 DEF ColliderRecord, CellsInv, SourceIsRead, FileIsRead, CellsOf, TypeOf
  <2> QED BY <2>1, <2>3 DEF CellsInv
<1>5. CASE Load
  <2> DEFINE saved == file.collider
  <2>1. ColliderLoaded(saved) /\ file' = file
    BY <1>5 DEF Load
  <2>2. FileIsRead'
    BY <2>1 DEF CellsInv, FileIsRead, CellsOf, TypeOf
  <2> HIDE DEF saved
  <2>3. SourceIsRead'
    BY <2>1 DEF ColliderLoaded, SourceIsRead, CellsOf, TypeOf
  <2> QED BY <2>2, <2>3 DEF CellsInv
<1> QED BY <1>1, <1>2, <1>3, <1>4, <1>5 DEF TileMapNext

(***************************************************************************)
(* A load gives back the cells that were saved, from the Tiled map or from *)
(* the file, if they had not departed from the map that the file names:    *)
(* for every map, every number of types and every list of calls before the *)
(* save and between the save and the load.                                 *)
(***************************************************************************)
THEOREM CellsAreRestored == TileMapSpec => CellsSurvive
<1>1. TileMapInit => CellsInv
  <2>1. ASSUME TileMapInit PROVE source = Null /\ file = Null
    BY <2>1 DEF TileMapInit, CellsInit
  <2> QED BY <2>1 DEF CellsInv, SourceIsRead, FileIsRead
<1>2. CellsInv /\ [TileMapNext]_tileMapVars => CellsInv'
  BY CellsKept
<1>3. ASSUME CellsInv, Load, ~file.collider.departed
      PROVE  cells' = file.collider.was /\ extent' = file.collider.size
  BY <1>3 DEF Load, ColliderLoaded, CellsInv, FileIsRead
<1>4. CellsInv /\ [TileMapNext]_tileMapVars =>
        [Load /\ ~file.collider.departed =>
           cells' = file.collider.was /\ extent' = file.collider.size]_tileMapVars
  BY <1>3
<1> QED BY <1>1, <1>2, <1>4, PTL DEF TileMapSpec, CellsSurvive

-----------------------------------------------------------------------------
(***************************************************************************)
(* The mesh of a renderer.                                                 *)
(***************************************************************************)

LEMMA ProductKeepsOrder ==
  ASSUME NEW a \in Int, NEW b \in Int, NEW w \in Nat, a <= b
  PROVE  a * w <= b * w
  OBVIOUS

LEMMA Divides ==
  ASSUME NEW k \in Nat, NEW w \in Nat \ {0}
  PROVE  /\ k \div w \in Nat /\ k % w \in 0..(w - 1)
         /\ k = (k % w) + (k \div w) * w
  OBVIOUS

LEMMA DivOf ==
  ASSUME NEW x \in Nat, NEW y \in Nat, NEW w \in Nat, x < w
  PROVE  (x + y * w) \div w = y /\ (x + y * w) % w = x
<1>1. w \in Nat \ {0}
  OBVIOUS
<1> DEFINE k == x + y * w
<1>2. k \in Nat
  OBVIOUS
<1> DEFINE q == k \div w
           r == k % w
<1>3. q \in Nat /\ r \in 0..(w - 1) /\ k = r + q * w
  BY <1>1, <1>2, Divides
<1> HIDE DEF q, r
<1>4. q = y
  <2>1. CASE q < y
    <3>1. (q + 1) * w <= y * w
      BY <1>3, <2>1, ProductKeepsOrder
    <3>2. (q + 1) * w = q * w + w
      BY <1>3
    <3>3. q * w \in Int /\ y * w \in Int
      BY <1>3
    <3> QED BY <1>3, <3>1, <3>2, <3>3
  <2>2. CASE y < q
    <3>1. (y + 1) * w <= q * w
      BY <1>3, <2>2, ProductKeepsOrder
    <3>2. (y + 1) * w = y * w + w
      BY <1>3
    <3>3. q * w \in Int /\ y * w \in Int
      BY <1>3
    <3> QED BY <1>3, <3>1, <3>2, <3>3
  <2> QED BY <1>3, <2>1, <2>2
<1>5. r = x
  <2>1. y * w \in Int /\ q * w = y * w
    BY <1>4
  <2> QED BY <1>3, <2>1
<1> QED BY <1>4, <1>5 DEF q, r

\* The places of the quads in the mesh.
Places(s) == 0..(s[1] * s[2] - 1)

\* A cell has one place, and a place one cell.
LEMMA PlaceOfCell ==
  ASSUME NEW s \in Sizes, NEW c \in Grid(s)
  PROVE  Index(c, s) \in Places(s) /\ CellAt(Index(c, s), s) = c
<1> DEFINE w == s[1]
           x == c[1]
           y == c[2]
<1>1. w \in Nat /\ s[2] \in Nat /\ x \in Nat /\ y \in Nat /\ x < w /\ y < s[2] /\ c = <<x, y>>
  BY DEF Sizes, Grid
<1>2. Index(c, s) = x + y * w /\ CellAt(Index(c, s), s) = <<(x + y * w) % w, (x + y * w) \div w>>
  BY DEF Index, CellAt
<1>3. y * w \in Nat /\ (y + 1) * w = y * w + w /\ s[2] * w \in Nat /\ s[2] * w = w * s[2]
  BY <1>1
<1> HIDE DEF w, x, y
<1>4. (y + 1) * w <= s[2] * w
  <2>1. y + 1 \in Int /\ s[2] \in Int /\ y + 1 <= s[2]
    BY <1>1
  <2> QED BY <1>1, <2>1, ProductKeepsOrder
<1>5. Index(c, s) \in Places(s)
  <2>1. Places(s) = 0..(w * s[2] - 1)
    BY DEF Places, w
  <2>2. w * s[2] \in Nat /\ x + y * w < w * s[2] /\ x + y * w \in Nat
    BY <1>1, <1>3, <1>4
  <2> QED BY <1>2, <2>1, <2>2
<1>6. (x + y * w) % w = x /\ (x + y * w) \div w = y
  BY <1>1, DivOf
<1> QED BY <1>1, <1>2, <1>5, <1>6

LEMMA CellOfPlace ==
  ASSUME NEW s \in Sizes, NEW k \in Places(s)
  PROVE  CellAt(k, s) \in Grid(s) /\ Index(CellAt(k, s), s) = k
<1> DEFINE w == s[1]
           h == s[2]
<1>1. w \in Nat /\ h \in Nat /\ w * h \in Nat
  BY DEF Sizes
<1>2. k \in Nat /\ k < w * h
  BY <1>1 DEF Places
<1>3. w # 0
  BY <1>1, <1>2
<1> DEFINE q == k \div w
           r == k % w
<1>4. q \in Nat /\ r \in 0..(w - 1) /\ k = r + q * w
  BY <1>1, <1>2, <1>3, Divides
<1>5. CellAt(k, s) = <<r, q>>
  BY DEF CellAt
<1> HIDE DEF q, r
<1>6. q < h
  <2>1. CASE h <= q
    <3>1. h * w <= q * w
      BY <1>1, <1>4, <2>1, ProductKeepsOrder
    <3>2. q * w \in Int /\ h * w = w * h
      BY <1>1, <1>4
    <3> QED BY <1>1, <1>2, <1>4, <3>1, <3>2
  <2> QED BY <1>1, <1>4, <2>1
<1>7. CellAt(k, s) \in Grid(s)
  BY <1>1, <1>4, <1>5, <1>6 DEF Grid
<1>8. Index(CellAt(k, s), s) = k
  BY <1>4, <1>5 DEF Index
<1> QED BY <1>7, <1>8

RendererTypeOK ==
  /\ size \in Sizes /\ tiles \in [Grid(size) -> Int]
  /\ texture \in Texture \union {Null} /\ tileSize \in TileSizes
  /\ behind \subseteq Grid(size)

\* The mesh has a quad for each place, or none yet; each is blank or covers the cell of
\* its place, and but for the cells that are behind it is the quad of the tile there.
MeshFollows ==
  /\ \/ DOMAIN mesh = Places(size)
     \/ DOMAIN mesh = {} /\ behind = Grid(size)
  /\ \A k \in DOMAIN mesh : mesh[k] = Blank \/ mesh[k].cell = CellAt(k, size)
  /\ \A c \in Grid(size) \ behind : mesh[Index(c, size)] = QuadOf(c, tiles[c], texture, tileSize)

Ready == texture # Null /\ Showable(0, texture, tileSize)

\* As long as the renderer finds all that it needs its mesh follows; where it does not,
\* there was something to be updated or no texture for a tile.
RendererInv ==
  /\ ~broken => RendererTypeOK /\ MeshFollows
  /\ broken /\ Ready => behind # {}

\* A quad is blank or on its cell.
LEMMA QuadCovers ==
  ASSUME NEW c, NEW n \in Int, NEW t, NEW px
  PROVE  /\ n < 0 => QuadOf(c, n, t, px) = Blank
         /\ n >= 0 => QuadOf(c, n, t, px).cell = c
  BY DEF QuadOf

LEMMA MeshRemade ==
  ASSUME NEW s \in Sizes, NEW ts \in [Grid(s) -> Int], NEW t \in Texture \union {Null},
         NEW px \in TileSizes, ~broken, MeshUpdated(s, ts, t, px),
         size' = s, tiles' = ts, texture' = t, tileSize' = px
  PROVE  RendererInv'
<1>1. CASE \A c \in Grid(s) : Showable(ts[c], t, px)
  <2>1. /\ mesh' = [k \in Places(s) |-> QuadOf(CellAt(k, s), ts[CellAt(k, s)], t, px)]
        /\ behind' = {} /\ broken' = FALSE
    BY <1>1 DEF MeshUpdated, Places
  <2>2. RendererTypeOK'
    BY <2>1 DEF RendererTypeOK
  <2>3. DOMAIN mesh' = Places(s)
    BY <2>1
  <2>4. ASSUME NEW k \in Places(s) PROVE mesh'[k] = Blank \/ mesh'[k].cell = CellAt(k, s)
    <3>1. ts[CellAt(k, s)] \in Int
      BY CellOfPlace
    <3> QED BY <2>1, <3>1, QuadCovers
  <2>5. ASSUME NEW c \in Grid(s) PROVE mesh'[Index(c, s)] = QuadOf(c, ts[c], t, px)
    BY <2>1, PlaceOfCell
  <2>6. MeshFollows'
    BY <2>3, <2>4, <2>5 DEF MeshFollows
  <2> QED BY <2>1, <2>2, <2>6 DEF RendererInv
<1>2. CASE ~(\A c \in Grid(s) : Showable(ts[c], t, px))
  <2>1. broken' = TRUE
    BY <1>2 DEF MeshUpdated
  <2>2. ~(t # Null /\ Showable(0, t, px))
    BY <1>2 DEF Showable
  <2>3. ~Ready'
    BY <2>2 DEF Ready
  <2> QED BY <2>1, <2>3 DEF RendererInv
<1> QED BY <1>1, <1>2

LEMMA TileRemade ==
  ASSUME RendererTypeOK, MeshFollows, ~broken, NEW c \in Grid(size), NEW n \in Int,
         tiles' = [tiles EXCEPT ![c] = n] , TileUpdated(c, tiles'),
         UNCHANGED <<size, texture, tileSize>>
  PROVE  RendererInv'
<1>1. tiles' \in [Grid(size) -> Int] /\ tiles'[c] = n /\ \A d \in Grid(size) \ {c} : tiles'[d] = tiles[d]
  BY DEF RendererTypeOK
<1> DEFINE i == Index(c, size)
<1>2. size \in Sizes /\ i \in Places(size) /\ CellAt(i, size) = c
  BY PlaceOfCell DEF RendererTypeOK
<1>3. \A d \in Grid(size) : Index(d, size) = i => d = c
  BY <1>2, PlaceOfCell
<1> HIDE DEF i
<1>4. CASE Showable(n, texture, tileSize) /\ i \in DOMAIN mesh
  <2>1. /\ mesh' = [mesh EXCEPT ![i] = QuadOf(c, n, texture, tileSize)]
        /\ behind' = behind \ {c} /\ broken' = FALSE
    BY <1>1, <1>4 DEF TileUpdated, i
  <2>2. /\ DOMAIN mesh' = DOMAIN mesh /\ mesh'[i] = QuadOf(c, n, texture, tileSize)
        /\ \A k \in DOMAIN mesh \ {i} : mesh'[k] = mesh[k]
    BY <1>4, <2>1
  <2>3. DOMAIN mesh = Places(size)
    BY <1>4 DEF MeshFollows
  <2>4. \A k \in DOMAIN mesh : mesh'[k] = Blank \/ mesh'[k].cell = CellAt(k, size)
    BY <1>2, <2>2, QuadCovers DEF MeshFollows
  <2>5. ASSUME NEW d \in Grid(size) \ behind'
        PROVE  mesh'[Index(d, size)] = QuadOf(d, tiles'[d], texture, tileSize)
    <3>1. CASE d = c
      BY <1>1, <2>2, <3>1 DEF i
    <3>2. CASE d # c
      <4>1. Index(d, size) # i /\ Index(d, size) \in DOMAIN mesh
        BY <1>2, <1>3, <2>3, <3>2, PlaceOfCell
      <4>2. d \in Grid(size) \ behind
        BY <2>1, <3>2
      <4> QED BY <1>1, <2>2, <3>2, <4>1, <4>2 DEF MeshFollows
    <3> QED BY <3>1, <3>2
  <2>6. MeshFollows'
    BY <2>2, <2>3, <2>4, <2>5 DEF MeshFollows
  <2>7. RendererTypeOK'
    BY <1>1, <2>1 DEF RendererTypeOK
  <2> QED BY <2>1, <2>6, <2>7 DEF RendererInv
<1>5. CASE ~(Showable(n, texture, tileSize) /\ i \in DOMAIN mesh)
  <2>1. broken' = TRUE /\ behind' = behind
    BY <1>1, <1>5 DEF TileUpdated, i
  <2>2. CASE ~Showable(n, texture, tileSize)
    <3>1. ~Ready'
      BY <2>2 DEF Showable, Ready
    <3> QED BY <2>1, <3>1 DEF RendererInv
  <2>3. CASE i \notin DOMAIN mesh
    <3>1. behind = Grid(size)
      BY <1>2, <2>3 DEF MeshFollows
    <3> QED BY <2>1, <3>1 DEF RendererInv
  <2> QED BY <1>5, <2>2, <2>3
<1> QED BY <1>4, <1>5

\* What becomes behind leaves the mesh where it is.
LEMMA MoreBehind ==
  ASSUME RendererTypeOK, MeshFollows, ~broken, UNCHANGED <<size, mesh, broken>>,
         tiles' \in [Grid(size) -> Int], texture' \in Texture \union {Null},
         tileSize' \in TileSizes, behind \subseteq behind', behind' \subseteq Grid(size),
         \A c \in Grid(size) \ behind' :
           tiles'[c] = tiles[c] /\ texture' = texture /\ tileSize' = tileSize
  PROVE  RendererInv'
<1>1. RendererTypeOK'
  BY DEF RendererTypeOK
<1>2. MeshFollows'
  BY DEF MeshFollows
<1> QED BY <1>1, <1>2 DEF RendererInv

LEMMA RendererUnchanged ==
  ASSUME RendererInv, UNCHANGED rendererVars
  PROVE  RendererInv'
<1>1. UNCHANGED <<size, tiles, mesh, texture, tileSize, behind, broken>>
  BY DEF rendererVars
<1>2. RendererTypeOK' <=> RendererTypeOK
  BY <1>1 DEF RendererTypeOK
<1>3. MeshFollows' <=> MeshFollows
  BY <1>1 DEF MeshFollows
<1>4. Ready' <=> Ready
  BY <1>1 DEF Ready, Showable
<1> QED BY <1>1, <1>2, <1>3, <1>4 DEF RendererInv

\* The tiles of a Tiled map are numbers.
LEMMA MapTiles ==
  ASSUME NEW m \in TiledMap, Layer[m] # Null
  PROVE  TilesOf(m) \in [Grid(SizeOf[m]) -> Int]
<1> DEFINE layer == Layer[m]
<1>1. layer.at \in [Grid(layer.size) -> Nat] /\ FirstGid[m] \in Nat
  BY MapRendererAssumption
<1> HIDE DEF layer
<1>2. \A c \in Grid(layer.size) : layer.at[c] - FirstGid[m] \in Int
  BY <1>1
<1> QED BY <1>2 DEF TilesOf, layer

LEMMA MapBuilt ==
  ASSUME RendererTypeOK, MeshFollows, ~broken,
         NEW m \in TiledMap, NEW t \in Texture \union {Null}, BuildMap(m, t)
  PROVE  RendererInv'
<1> DEFINE used == IF t # Null THEN t ELSE texture
<1>1. used \in Texture \union {Null} /\ texture' = used
  BY DEF RendererTypeOK, BuildMap
<1>2. CASE Layer[m] = Null
  <2>1. /\ UNCHANGED <<size, tiles, mesh, tileSize, broken>>
        /\ behind' = IF t # Null THEN Grid(size) ELSE behind
    BY <1>2 DEF BuildMap
  <2>2. /\ tiles' \in [Grid(size) -> Int] /\ tileSize' \in TileSizes
        /\ behind \subseteq behind' /\ behind' \subseteq Grid(size)
    BY <2>1 DEF RendererTypeOK
  <2>3. \A c \in Grid(size) \ behind' :
          tiles'[c] = tiles[c] /\ texture' = texture /\ tileSize' = tileSize
    BY <1>1, <2>1
  <2> HIDE DEF used
  <2> QED BY <1>1, <2>1, <2>2, <2>3, MoreBehind
<1>3. CASE Layer[m] # Null
  <2>1. /\ size' = SizeOf[m] /\ tiles' = TilesOf(m) /\ tileSize' = TileSizeOf[m]
        /\ MeshUpdated(SizeOf[m], TilesOf(m), used, TileSizeOf[m])
    BY <1>3 DEF BuildMap
  <2>2. SizeOf[m] \in Sizes /\ TileSizeOf[m] \in TileSizes
    BY MapRendererAssumption
  <2>3. TilesOf(m) \in [Grid(SizeOf[m]) -> Int]
    BY <1>3, MapTiles
  <2> HIDE DEF used
  <2> QED BY <1>1, <2>1, <2>2, <2>3, MeshRemade
<1> QED BY <1>2, <1>3

LEMMA RendererCalled ==
  ASSUME RendererInv, CallRenderer
  PROVE  RendererInv'
<1>1. ~broken /\ RendererTypeOK /\ MeshFollows
  BY DEF RendererInv, CallRenderer, Call
<1>2. size \in Sizes /\ tiles \in [Grid(size) -> Int] /\ texture \in Texture \union {Null}
      /\ tileSize \in TileSizes /\ behind \subseteq Grid(size)
  BY <1>1 DEF RendererTypeOK
<1>3. ASSUME NEW t \in Texture, SetTexture(t) PROVE RendererInv'
  BY <1>1, <1>2, <1>3, MoreBehind DEF SetTexture
<1>4. ASSUME NEW px \in TileSizes, SetTextureTileSize(px) PROVE RendererInv'
  BY <1>1, <1>2, <1>4, MoreBehind DEF SetTextureTileSize
<1>5. ASSUME NEW m \in TiledMap, NEW t \in Texture \union {Null}, BuildMap(m, t)
      PROVE  RendererInv'
  BY <1>1, <1>5, MapBuilt
<1>6. ASSUME NEW n \in Fills, Build(<<1, 2>>, n) PROVE RendererInv'
  <2>1. n \in Int /\ <<1, 2>> \in Sizes
    BY TileMapAssumption DEF Sizes
  <2>2. [c \in Grid(<<1, 2>>) |-> n] \in [Grid(<<1, 2>>) -> Int]
    BY <2>1
  <2> QED BY <1>1, <1>2, <1>6, <2>1, <2>2, MeshRemade DEF Build
<1>7. ASSUME NEW c \in Grid(size), NEW n \in Fills, SetTile(c, n) PROVE RendererInv'
  <2>1. n \in Int
    BY TileMapAssumption
  <2> QED BY <1>1, <1>7, <2>1, TileRemade DEF SetTile
<1>8. ASSUME NEW c \in Grid(size), NEW n \in Fills, EditTile(c, n) PROVE RendererInv'
  <2>1. n \in Int
    BY TileMapAssumption
  <2>2. /\ tiles' = [tiles EXCEPT ![c] = n] /\ behind' = behind \union {c}
        /\ UNCHANGED <<size, mesh, texture, tileSize, broken>>
    BY <1>8 DEF EditTile
  <2>3. tiles' \in [Grid(size) -> Int] /\ \A d \in Grid(size) \ behind' : tiles'[d] = tiles[d]
    BY <1>2, <2>1, <2>2
  <2> QED BY <1>1, <1>2, <2>2, <2>3, MoreBehind
<1>9. ASSUME NEW c \in Grid(size), UpdateTile(c) PROVE RendererInv'
  <2>1. /\ tiles[c] \in Int /\ tiles' = tiles /\ tiles = [tiles EXCEPT ![c] = tiles[c]]
        /\ TileUpdated(c, tiles) /\ UNCHANGED <<size, texture, tileSize>>
    BY <1>2, <1>9 DEF UpdateTile
  <2> QED BY <1>1, <2>1, TileRemade
<1>10. ASSUME UpdateMesh PROVE RendererInv'
  BY <1>1, <1>2, <1>10, MeshRemade DEF UpdateMesh
<1> QED BY <1>3, <1>4, <1>5, <1>6, <1>7, <1>8, <1>9, <1>10 DEF CallRenderer

\* What was saved of a renderer has its types.
SavedTypes ==
  file # Null =>
    LET saved == file.renderer
    IN  /\ saved.size \in Sizes /\ saved.tiles \in [Grid(saved.size) -> Int]
        /\ saved.texture \in Texture \union {Null} /\ saved.tileSize \in TileSizes

MeshInv == RendererInv /\ SavedTypes /\ (stage = "tiling" => ~broken)

LEMMA RendererLoads ==
  ASSUME MeshInv, Load
  PROVE  MeshInv'
<1> DEFINE saved == file.renderer
<1>1. ~broken /\ stage = "level" /\ stage' = "level" /\ file' = file /\ RendererLoaded(saved)
  BY DEF Load, Call
<1>2. /\ saved.size \in Sizes /\ saved.tiles \in [Grid(saved.size) -> Int]
      /\ saved.texture \in Texture \union {Null} /\ saved.tileSize \in TileSizes
  BY DEF MeshInv, SavedTypes, Load
<1>3. SavedTypes'
  BY <1>1 DEF MeshInv, SavedTypes
<1> HIDE DEF saved
<1>4. RendererTypeOK' /\ broken' = FALSE
  BY <1>1, <1>2 DEF RendererLoaded, RendererTypeOK
<1>5. DOMAIN mesh' = {} /\ behind' = Grid(size')
  BY <1>1 DEF RendererLoaded
<1>6. MeshFollows'
  BY <1>5 DEF MeshFollows
<1> QED BY <1>1, <1>3, <1>4, <1>6 DEF MeshInv, RendererInv

LEMMA TilingShown ==
  ASSUME TilerTypeOK, MeshInv, NEW t \in Texture, ShowTiling(t)
  PROVE  MeshInv'
<1> DEFINE s == <<Width, Height>>
<1>1. /\ s \in Sizes /\ Grid(s) = Cells
  BY ConstantsAssumption DEF Sizes, Grid, Cells
<1>2. output \in [Grid(s) -> Int]
  <2>1. Tiles \subseteq Int
    BY ConstantsAssumption
  <2> QED BY <1>1, <2>1 DEF TilerTypeOK
<1>3. /\ ~broken /\ texture' = t /\ tileSize' = tileSize /\ size' = s /\ tiles' = output
      /\ MeshUpdated(s, output, t, tileSize) /\ file' = file /\ stage' = "level"
  BY DEF ShowTiling, MeshInv
<1>4. tileSize \in TileSizes
  BY <1>3 DEF MeshInv, RendererInv, RendererTypeOK
<1> HIDE DEF s
<1>5. RendererInv'
  BY <1>1, <1>2, <1>3, <1>4, MeshRemade
<1> QED BY <1>3, <1>5 DEF MeshInv, SavedTypes

LEMMA MeshKept ==
  ASSUME TilerTypeOK, MeshInv, [TileMapNext]_tileMapVars
  PROVE  MeshInv'
<1>1. ASSUME Tiling \/ NoTiling \/ CallCollider \/ UNCHANGED tileMapVars PROVE MeshInv'
  <2>1. UNCHANGED <<rendererVars, file>> /\ (stage' = "tiling" => stage = "tiling")
    BY <1>1 DEF Tiling, NoTiling, CallCollider, Call, levelVars, tileMapVars
  <2>2. broken' = broken
    BY <2>1 DEF rendererVars
  <2> QED BY <2>1, <2>2, RendererUnchanged DEF MeshInv, SavedTypes
<1>2. CASE \E t \in Texture : ShowTiling(t)
  BY <1>2, TilingShown
<1>3. CASE CallRenderer
  <2>1. file' = file /\ stage' = "level"
    BY <1>3 DEF CallRenderer, Call
  <2> QED BY <1>3, <2>1, RendererCalled DEF MeshInv, SavedTypes
<1>4. CASE Save
  <2>1. /\ UNCHANGED rendererVars /\ ~broken /\ stage' = "level"
        /\ file'.renderer = RendererRecord
    BY <1>4 DEF Save, Call
  <2>2. RendererInv'
    BY <2>1, RendererUnchanged DEF MeshInv
  <2>3. RendererTypeOK
    BY <2>1 DEF MeshInv, RendererInv
  <2>4. SavedTypes'
    BY <2>1, <2>3 DEF SavedTypes, RendererRecord, RendererTypeOK
  <2> QED BY <2>1, <2>2, <2>4 DEF MeshInv
<1>5. CASE Load
  BY <1>5, RendererLoads
<1> QED BY <1>1, <1>2, <1>3, <1>4, <1>5 DEF TileMapNext

(***************************************************************************)
(* MapRenderer: as long as no call has missed what it needs, the mesh has  *)
(* the quads of the tiles in the order of the cells, but for those behind; *)
(* and only a missing texture or an update that is due makes a call miss.  *)
(***************************************************************************)
THEOREM MeshInvariant == TileMapSpec => []MeshInv
<1>1. TileMapInit => MeshInv
  <2> SUFFICES ASSUME TileMapInit PROVE MeshInv
    OBVIOUS
  <2>1. /\ size = <<0, 0>> /\ tiles = <<>> /\ mesh = <<>> /\ texture = Null
        /\ tileSize = DefaultTileSize /\ behind = {} /\ broken = FALSE /\ file = Null
    BY DEF TileMapInit, RendererInit
  <2>2. Grid(<<0, 0>>) = {} /\ <<0, 0>> \in Sizes
    BY DEF Grid, Sizes
  <2>3. tiles \in [{} -> Int]
    BY <2>1
  <2>4. RendererTypeOK
    BY <2>1, <2>2, <2>3, MapRendererAssumption DEF RendererTypeOK
  <2>5. MeshFollows
    BY <2>1, <2>2 DEF MeshFollows
  <2> QED BY <2>1, <2>4, <2>5 DEF MeshInv, RendererInv, SavedTypes
<1>2. TilerTypeOK /\ MeshInv /\ [TileMapNext]_tileMapVars => MeshInv'
  BY MeshKept
<1> QED BY <1>1, <1>2, TypeCorrect, PTL DEF TileMapSpec

(***************************************************************************)
(* The mesh shows the tiles of the map, each with one quad on its cell and *)
(* with its picture in the texture, but for the cells that the program has *)
(* still to update: after any calls of setTile, updateTile, build and the  *)
(* others, saves and loads, for maps and textures of any size.             *)
(***************************************************************************)
THEOREM MeshShowsTheTiles == TileMapSpec => []ShowsTheTiles
<1>1. ASSUME MeshInv PROVE ShowsTheTiles
  <2> DEFINE columns == TextureSize[texture][1] \div tileSize[1]
             lines == TextureSize[texture][2] \div tileSize[2]
  <2>1. broken /\ Ready => behind # {}
    BY <1>1 DEF MeshInv, RendererInv
  <2>2. ASSUME ~broken, Ready, columns = lines, NEW c \in Grid(size) \ behind
        PROVE  {mesh[k] : k \in {j \in DOMAIN mesh : mesh[j].cell = c}} =
                 IF tiles[c] < 0 THEN {}
                 ELSE {[cell |-> c, px |-> tileSize,
                        left |-> (tiles[c] % columns) * tileSize[1],
                        top |-> (tiles[c] \div columns) * tileSize[2]]}
    <3> DEFINE i == Index(c, size)
               shown == QuadOf(c, tiles[c], texture, tileSize)
    <3>1. RendererTypeOK /\ MeshFollows
      BY <1>1, <2>2 DEF MeshInv, RendererInv
    <3>2. size \in Sizes /\ tiles[c] \in Int /\ c # Null
      <4>1. size \in Sizes /\ tiles[c] \in Int
        BY <3>1 DEF RendererTypeOK
      <4>2. c \in Sizes
        BY <4>1 DEF Grid, Sizes
      <4> QED BY <4>1, <4>2, MapRendererAssumption
    <3>3. DOMAIN mesh = Places(size) /\ i \in Places(size) /\ mesh[i] = shown
      BY <3>1, <3>2, PlaceOfCell DEF MeshFollows
    <3>4. ASSUME NEW k \in DOMAIN mesh, mesh[k].cell = c PROVE k = i
      <4>1. mesh[k] # Blank
        BY <3>2, <3>4 DEF Blank
      <4>2. CellAt(k, size) = c
        BY <3>1, <3>4, <4>1 DEF MeshFollows
      <4> QED BY <3>2, <3>3, <4>2, CellOfPlace
    <3> HIDE DEF i
    <3>5. CASE tiles[c] < 0
      <4>1. mesh[i].cell # c
        BY <3>2, <3>3, <3>5 DEF QuadOf, Blank
      <4> QED BY <3>4, <3>5, <4>1
    <3>6. CASE ~(tiles[c] < 0)
      <4>1. shown = [cell |-> c, px |-> tileSize,
                     left |-> (tiles[c] % columns) * tileSize[1],
                     top |-> (tiles[c] \div columns) * tileSize[2]]
        BY <2>2, <3>6 DEF QuadOf
      <4>2. shown.cell = c
        BY <4>1
      <4> HIDE DEF shown
      <4>3. {mesh[k] : k \in {j \in DOMAIN mesh : mesh[j].cell = c}} = {shown}
        BY <3>3, <3>4, <4>2
      <4> QED BY <3>6, <4>1, <4>3
    <3> QED BY <3>5, <3>6
  <2> QED BY <2>1, <2>2 DEF ShowsTheTiles, Ready
<1> QED BY <1>1, MeshInvariant, PTL
=============================================================================

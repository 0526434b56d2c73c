------------------------------ MODULE TileMap ------------------------------
(***************************************************************************)
(* The map of a level: the tiles that a game has had from an AutoTiler, or *)
(* a Tiled map, shown by a MapRenderer, with the cells of a MapCollider on *)
(* the same entity; and the save and the load of this entity.              *)
(***************************************************************************)
EXTENDS AutoTiler, MapCells

CONSTANTS
  Fills,        \* bound: the tiles and the types that the game writes itself
  EditedCells,  \* bound: the cells that it changes one by one
  MaxCalls      \* bound: the calls on a level

ASSUME TileMapAssumption ==
  /\ Fills \subseteq Int /\ EditedCells \subseteq Nat \X Nat /\ MaxCalls \in Nat \ 0..2

VARIABLES
  stage,  \* "tiling", then "level"
  file,   \* the last save, or Null
  calls   \* history: the calls that MaxCalls bounds

tilerVars == vars
levelVars == <<rendererVars, colliderVars, file, calls>>
tileMapVars == <<tilerVars, levelVars, stage>>

TileMapInit ==
  /\ Init
  /\ RendererInit /\ CellsInit
  /\ stage = "tiling" /\ file = Null /\ calls = 0

\* The tiler is a variable of the function that makes the level: it takes its first
\* values, of which one is kept.
TilerDone ==
  /\ cases' = [t \in RuledTypes |-> [n \in SUBSET Neighbors |-> NoTile]]
  /\ defaultOf' = [t \in RuledTypes |-> 0]
  /\ connections' = [t \in RuledTypes |-> {}]
  /\ given' = [t \in RuledTypes |-> <<>>]
  /\ input' = [c \in Cells |-> DefaultInput]
  /\ output' = [c \in Cells |-> 0]
  /\ stale' = TRUE

Tiling == stage = "tiling" /\ Next /\ UNCHANGED <<levelVars, stage>>

\* The game builds a renderer of the size of the grid and sets each tile.  That counts
\* for three calls.
ShowTiling(t) ==
  /\ stage = "tiling" /\ ~stale
  /\ stage' = "level"
  /\ texture' = t /\ tileSize' = tileSize
  /\ size' = <<Width, Height>> /\ tiles' = output
  /\ MeshUpdated(<<Width, Height>>, output, t, tileSize)
  /\ TilerDone
  /\ calls' = 3
  /\ UNCHANGED <<colliderVars, file>>

\* It has no use for a tiler.
NoTiling ==
  /\ stage = "tiling" /\ stage' = "level"
  /\ TilerDone /\ UNCHANGED levelVars

Call ==
  /\ stage = "level" /\ ~broken /\ calls < MaxCalls
  /\ calls' = calls + 1
  /\ UNCHANGED <<tilerVars, stage>>

CallRenderer ==
  /\ Call
  /\ \/ \E t \in Texture : SetTexture(t)
     \/ \E px \in TileSizes : SetTextureTileSize(px)
     \/ \E m \in TiledMap, t \in Texture \union {Null} : BuildMap(m, t)
     \/ \E n \in Fills : Build(<<1, 2>>, n)
     \/ \E c \in EditedCells \intersect Grid(size), n \in Fills : SetTile(c, n) \/ EditTile(c, n)
     \/ \E c \in EditedCells \intersect Grid(size) : UpdateTile(c)
     \/ UpdateMesh
  /\ UNCHANGED <<colliderVars, file>>

CallCollider ==
  /\ Call
  /\ \/ \E m \in TiledMap : BuildCellsOf(m, types)
     \/ \E n \in Fills \intersect Nat : BuildCells(<<1, 2>>, n)
     \/ \E c \in EditedCells \intersect Grid(extent), n \in Fills \intersect Nat : SetCell(c, n)
     \/ \E i \in 0..(MaxTypes - 1) : SetColliderType(i)
  /\ UNCHANGED <<rendererVars, file>>

\* Both components are saved with their entity.
Save ==
  /\ Call
  /\ file' = [renderer |-> RendererRecord, collider |-> ColliderRecord]
  /\ UNCHANGED <<rendererVars, colliderVars>>

Load ==
  /\ Call /\ file # Null
  /\ RendererLoaded(file.renderer)
  /\ ColliderLoaded(file.collider)
  /\ UNCHANGED file

TileMapNext ==
  Tiling \/ (\E t \in Texture : ShowTiling(t)) \/ NoTiling
    \/ CallRenderer \/ CallCollider \/ Save \/ Load

TileMapSpec == TileMapInit /\ [][TileMapNext]_tileMapVars

-----------------------------------------------------------------------------
\* What a map stops is what it stopped when it was saved, whether its cells were
\* saved or only the name of the Tiled map they are from, and however many types of
\* collider it had: unless it was built anew or a cell changed, or a type added,
\* after it was read from a Tiled map, which it is then read from again.
CellsSurvive ==
  [][Load /\ ~file.collider.departed =>
       cells' = file.collider.was /\ extent' = file.collider.size]_tileMapVars
=============================================================================

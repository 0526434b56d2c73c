------------------------------ MODULE MapCells ------------------------------
(***************************************************************************)
(* The cells of a zn::MapCollider: built of one type, or read from a layer *)
(* of a Tiled map, then changed one by one; and how they are saved: by the *)
(* name of the map if there is one, and cell by cell otherwise.            *)
(*                                                                         *)
(* A type is its number; of the boxes of the types only their number is    *)
(* kept.  MapPhysics has what collides with the cells.                     *)
(***************************************************************************)
EXTENDS MapRenderer

CONSTANTS
  CollisionLayer, \* the collision layer of each map, or Null
  CollisionGid,   \* the number in it of the first tile of the collision tileset, or
                  \* Null: the map has not got this tileset
  MaxTypes        \* bound: the types that are given a box

ASSUME MapCellsAssumption ==
  /\ \A m \in TiledMap :
       /\ CollisionLayer[m] # Null =>
            /\ CollisionLayer[m].position \in Int \X Int
            /\ CollisionLayer[m].size \in Sizes
            /\ CollisionLayer[m].at \in [Grid(CollisionLayer[m].size) -> Nat]
       /\ CollisionGid[m] \in Nat \union {Null}
  /\ MaxTypes \in Nat

VARIABLES
  extent, cells,  \* m_size, m_collisionMap
  types,          \* the number of m_colliderTypes
  source,         \* r_tiledMap
  departed        \* history: the cells may no longer be those of source

colliderVars == <<extent, cells, types, source, departed>>

\* The types of the constructor: empty, and block.
DefaultTypes == 2

CellsInit ==
  /\ extent = <<0, 0>> /\ cells = <<>>
  /\ types = DefaultTypes
  /\ source = Null /\ departed = FALSE

-----------------------------------------------------------------------------
\* build(size, fillColliderType)
BuildCells(s, fill) ==
  /\ s[1] > 0
  /\ extent' = s /\ cells' = [c \in Grid(s) |-> fill]
  /\ departed' = (source # Null)
  /\ UNCHANGED <<types, source>>

\* The type of a cell of the layer: a tile that is none of the n types is empty.
TypeOf(tile, m, n) ==
  LET type == tile - CollisionGid[m] IN IF type \in 0..(n - 1) THEN type ELSE 0

Fits(m) ==
  /\ CollisionLayer[m].position = <<0, 0>>
  /\ CollisionLayer[m].size = SizeOf[m]

CellsOf(m, n) == [c \in Grid(SizeOf[m]) |-> TypeOf(CollisionLayer[m].at[c], m, n)]

\* build(map), with n types.  Where the layer does not fit or the tileset is not there,
\* the cells are empty already and the map before is still the one that is saved.
BuildCellsOf(m, n) ==
  /\ types' = n
  /\ IF CollisionLayer[m] = Null THEN UNCHANGED <<extent, cells, source, departed>>
     ELSE /\ extent' = SizeOf[m]
          /\ IF ~Fits(m) \/ CollisionGid[m] = Null
               THEN /\ cells' = [c \in Grid(SizeOf[m]) |-> 0]
                    /\ departed' = (source # Null)
                    /\ UNCHANGED source
               ELSE /\ cells' = CellsOf(m, n)
                    /\ source' = m /\ departed' = FALSE

\* setCell, at a cell of the map.
SetCell(c, t) ==
  /\ cells' = [cells EXCEPT ![c] = t]
  /\ departed' = (source # Null)
  /\ UNCHANGED <<extent, types, source>>

\* setColliderType: a type beyond the last one adds those between.
SetColliderType(i) ==
  /\ types' = IF i >= types THEN i + 1 ELSE types
  /\ departed' = (source # Null /\ (departed \/ i >= types))
  /\ UNCHANGED <<extent, cells, source>>

\* serializeData; the last two fields are history, and not in the file.
ColliderRecord ==
  [size |-> extent, types |-> types, source |-> source,
   data |-> IF source = Null THEN cells ELSE <<>>,
   was |-> cells, departed |-> departed]

\* Slip: the cells are read before the types.
LoadedBefore(saved) ==
  IF saved.source # Null
    THEN /\ extent' = SizeOf[saved.source] /\ types' = saved.types
         /\ cells' = CellsOf(saved.source, DefaultTypes)
         /\ source' = saved.source /\ departed' = FALSE
    ELSE /\ extent' = saved.size /\ cells' = saved.data
         /\ types' = saved.types /\ source' = Null /\ departed' = FALSE

\* unserializeData, of a new collider.  Only a map that could be read was its source.
ColliderLoaded(saved) ==
  IF saved.source # Null
    THEN /\ extent' = SizeOf[saved.source] /\ types' = saved.types
         /\ cells' = CellsOf(saved.source, saved.types)
         /\ source' = saved.source /\ departed' = FALSE
    ELSE /\ extent' = saved.size /\ cells' = saved.data
         /\ types' = saved.types /\ source' = Null /\ departed' = FALSE
=============================================================================

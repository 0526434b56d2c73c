---------------------------- MODULE MapRenderer ----------------------------
(***************************************************************************)
(* zn::MapRenderer: a grid of tile numbers and the mesh that shows it, one *)
(* quad for each tile, kept up to date by hand after some of the calls and *)
(* by the renderer after the others.                                       *)
(*                                                                         *)
(* A quad is the cell it covers and the part of the texture on it, without *)
(* the padding; sizes are in pixels for the texture and in tiles for the   *)
(* map.  The debug build's checks and the atlas, which the mesh does not   *)
(* use, are left out.  A null texture, a division by zero and a quad       *)
(* outside the mesh set broken, after which the model says nothing more.   *)
(***************************************************************************)
EXTENDS Integers

CONSTANTS
  Texture,      \* the textures
  TextureSize,  \* their sizes
  TileSizes,    \* the sizes of a tile in a texture
  DefaultTileSize, \* the size that the constructor gives
  TiledMap,     \* the maps of the asset bank
  SizeOf,       \* the size of each map
  TileSizeOf,   \* the size of its tiles
  Layer,        \* the layer that is drawn, [position, size, at], or Null: it has none
  FirstGid,     \* the number in it of the first tile of the tileset
  Null          \* a null pointer

Sizes == Nat \X Nat
Grid(s) == (0..(s[1] - 1)) \X (0..(s[2] - 1))

ASSUME MapRendererAssumption ==
  /\ TextureSize \in [Texture -> Sizes]
  /\ TileSizes \subseteq (Nat \ {0}) \X (Nat \ {0}) /\ DefaultTileSize \in TileSizes
  /\ SizeOf \in [TiledMap -> Sizes] /\ TileSizeOf \in [TiledMap -> TileSizes]
  /\ FirstGid \in [TiledMap -> Nat]
  /\ \A m \in TiledMap : Layer[m] # Null =>
       /\ Layer[m].position \in Int \X Int /\ Layer[m].size \in Sizes
       /\ Layer[m].at \in [Grid(Layer[m].size) -> Nat]
  /\ Null \notin Texture \union TiledMap \union Sizes

VARIABLES
  size, tiles,  \* the tiles
  mesh,         \* m_vertices, as quads
  texture,      \* r_texture
  tileSize,     \* m_textureTileSize
  behind,       \* history: the cells whose quads the program has still to update
  broken        \* something that does not exist was used

rendererVars == <<size, tiles, mesh, texture, tileSize, behind, broken>>

\* What the constructor makes.
RendererInit ==
  /\ size = <<0, 0>> /\ tiles = <<>>
  /\ mesh = <<>>
  /\ texture = Null /\ tileSize = DefaultTileSize
  /\ behind = {} /\ broken = FALSE

-----------------------------------------------------------------------------
Blank == [cell |-> Null]

\* The tile n can be shown: a tile of no number needs no texture.
Showable(n, t, px) ==
  n >= 0 => t # Null /\ TextureSize[t][1] >= px[1] /\ TextureSize[t][2] >= px[2]

\* updateTile: the line of the picture is told from the number of lines in the
\* texture, where that of the columns would do.
QuadOf(c, n, t, px) ==
  IF n < 0 THEN Blank
  ELSE [cell |-> c, px |-> px,
        left |-> (n % (TextureSize[t][1] \div px[1])) * px[1],
        top |-> (n \div (TextureSize[t][2] \div px[2])) * px[2]]

Index(c, s) == c[1] + c[2] * s[1]
CellAt(k, s) == <<k % s[1], k \div s[1]>>

\* updateMesh, with the tiles ts of a map of the size s.
MeshUpdated(s, ts, t, px) ==
  IF \A c \in Grid(s) : Showable(ts[c], t, px)
    THEN /\ mesh' = [k \in 0..(s[1] * s[2] - 1) |->
                       QuadOf(CellAt(k, s), ts[CellAt(k, s)], t, px)]
         /\ behind' = {}
         /\ UNCHANGED broken
    ELSE broken' = TRUE /\ UNCHANGED <<mesh, behind>>

\* updateTile(c), when the tiles are ts.
TileUpdated(c, ts) ==
  IF Showable(ts[c], texture, tileSize) /\ Index(c, size) \in DOMAIN mesh
    THEN /\ mesh' = [mesh EXCEPT ![Index(c, size)] = QuadOf(c, ts[c], texture, tileSize)]
         /\ behind' = behind \ {c}
         /\ UNCHANGED broken
    ELSE broken' = TRUE /\ UNCHANGED <<mesh, behind>>

SetTexture(t) ==
  /\ texture' = t
  /\ behind' = Grid(size)
  /\ UNCHANGED <<size, tiles, mesh, tileSize, broken>>

\* "You must call updateMesh() after doing this" (MapRenderer.hpp:62).
SetTextureTileSize(px) ==
  /\ tileSize' = px
  /\ behind' = Grid(size)
  /\ UNCHANGED <<size, tiles, mesh, texture, broken>>

\* build(sizeX, sizeY, fillTile)
Build(s, fill) ==
  /\ size' = s /\ tiles' = [c \in Grid(s) |-> fill]
  /\ MeshUpdated(s, [c \in Grid(s) |-> fill], texture, tileSize)
  /\ UNCHANGED <<texture, tileSize>>

\* The tiles of a Tiled map: 0 where the layer does not reach, and less than 0
\* where the layer has a tile of another tileset before.
TilesOf(m) ==
  LET layer == Layer[m]
      In(c) == <<c[1] - layer.position[1], c[2] - layer.position[2]>>
  IN  [c \in Grid(SizeOf[m]) |->
         IF In(c) \in Grid(layer.size) THEN layer.at[In(c)] - FirstGid[m] ELSE 0]

\* build(map, texture), with a texture or Null, which keeps the one there is.  A map
\* without a layer ends it after the texture is taken.
BuildMap(m, t) ==
  LET used == IF t # Null THEN t ELSE texture
  IN  /\ texture' = used
      /\ IF Layer[m] = Null
           THEN /\ behind' = IF t # Null THEN Grid(size) ELSE behind
                /\ UNCHANGED <<size, tiles, mesh, tileSize, broken>>
           ELSE /\ size' = SizeOf[m] /\ tiles' = TilesOf(m)
                /\ tileSize' = TileSizeOf[m]
                /\ MeshUpdated(SizeOf[m], TilesOf(m), used, TileSizeOf[m])

\* Slip: the mesh is not told.
SetTileOnly(c, n) ==
  /\ tiles' = [tiles EXCEPT ![c] = n]
  /\ UNCHANGED <<size, mesh, texture, tileSize, behind, broken>>

\* setTile, at a cell of the map: elsewhere it throws.
SetTile(c, n) ==
  /\ tiles' = [tiles EXCEPT ![c] = n]
  /\ TileUpdated(c, [tiles EXCEPT ![c] = n])
  /\ UNCHANGED <<size, texture, tileSize>>

\* The program writes to the array: "You must call updateTile(x,y) for each tile you
\* modify from here" (MapRenderer.hpp:82).
EditTile(c, n) ==
  /\ tiles' = [tiles EXCEPT ![c] = n]
  /\ behind' = behind \union {c}
  /\ UNCHANGED <<size, mesh, texture, tileSize, broken>>

UpdateTile(c) == TileUpdated(c, tiles) /\ UNCHANGED <<size, tiles, texture, tileSize>>

UpdateMesh ==
  MeshUpdated(size, tiles, texture, tileSize) /\ UNCHANGED <<size, tiles, texture, tileSize>>

\* serializeData
RendererRecord == [size |-> size, tiles |-> tiles, texture |-> texture, tileSize |-> tileSize]

\* unserializeData, of a new renderer: it makes no mesh.
RendererLoaded(saved) ==
  /\ size' = saved.size /\ tiles' = saved.tiles
  /\ texture' = saved.texture /\ tileSize' = saved.tileSize
  /\ mesh' = <<>>
  /\ behind' = Grid(saved.size)
  /\ UNCHANGED broken

-----------------------------------------------------------------------------
\* Every tile is shown by one quad, on its cell, with its picture - they are
\* numbered line by line in the texture - and a tile below 0 by none ("Negative
\* values are interpreted as "no tile"", MapRenderer.hpp:84), but for the cells that
\* the program has still to update, and those that were loaded, and unless the
\* texture has not as many lines as columns of tiles.  And as long as nothing is to
\* be updated, a call finds all that it needs, unless it is a texture for a tile.
ShowsTheTiles ==
  LET columns == TextureSize[texture][1] \div tileSize[1]
      lines == TextureSize[texture][2] \div tileSize[2]
      ready == texture # Null /\ Showable(0, texture, tileSize)
  IN  /\ broken /\ ready => behind # {}
      /\ ~broken /\ ready /\ columns = lines =>
           \A c \in Grid(size) \ behind :
             {mesh[k] : k \in {j \in DOMAIN mesh : mesh[j].cell = c}} =
               IF tiles[c] < 0 THEN {}
               ELSE {[cell |-> c, px |-> tileSize,
                      left |-> (tiles[c] % columns) * tileSize[1],
                      top |-> (tiles[c] \div columns) * tileSize[2]]}
=============================================================================

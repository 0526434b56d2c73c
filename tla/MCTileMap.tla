------------------------------ MODULE MCTileMap ------------------------------
EXTENDS TileMap, TLC

CONSTANTS square, wide   \* textures
CONSTANTS room, corner, flat  \* Tiled maps

\* Patterns that overlap, one that is complete and one in which nothing matters.
SomePatterns ==
  { [con |-> {1}, care |-> {1, 3}],
    [con |-> {4}, care |-> {3, 4}],
    [con |-> {4, 6}, care |-> Neighbors],
    [con |-> {}, care |-> {}] }

MCTileSizes == {<<1, 1>>, <<2, 1>>}
MCDefaultTileSize == <<1, 1>>
MCTextureSize == square :> <<4, 4>> @@ wide :> <<6, 4>>

\* A map of four tiles; one whose layers cover only its right column, with a tile of
\* another tileset; one that has neither layer.
MCSizeOf == room :> <<2, 2>> @@ corner :> <<2, 1>> @@ flat :> <<1, 1>>
MCTileSizeOf == room :> <<2, 1>> @@ corner :> <<1, 1>> @@ flat :> <<1, 1>>
MCLayer ==
  room :> [position |-> <<0, 0>>, size |-> <<2, 2>>,
           at |-> [c \in Grid(<<2, 2>>) |-> 1 + c[1] + 4 * c[2]]]
    @@ corner :> [position |-> <<1, 0>>, size |-> <<2, 1>>, at |-> [c \in Grid(<<2, 1>>) |-> 2]]
    @@ flat :> Null
MCFirstGid == room :> 1 @@ corner :> 3 @@ flat :> 1
MCCollisionLayer ==
  room :> [position |-> <<0, 0>>, size |-> <<2, 2>>,
           at |-> [c \in Grid(<<2, 2>>) |-> 7 + c[1] + 2 * c[2]]]
    @@ corner :> [position |-> <<1, 0>>, size |-> <<2, 1>>, at |-> [c \in Grid(<<2, 1>>) |-> 8]]
    @@ flat :> Null
MCCollisionGid == room :> 7 @@ corner :> 7 @@ flat :> Null
MCFills == {-1, 2}
MCEditedCells == {<<0, 1>>, <<1, 0>>}
=============================================================================

SPECIFICATION TileMapSpec
CONSTANTS
  Width = 3
  Height = 2
  Types = {0, 1}
  RuledTypes = {1}
  DefaultInput = 0
  Patterns <- SomePatterns
  Tiles = {0, 5}
  MaxRules = 2
  square = square
  wide = wide
  room = room
  corner = corner
  flat = flat
  Texture = {square, wide}
  TextureSize <- MCTextureSize
  TileSizes <- MCTileSizes
  DefaultTileSize <- MCDefaultTileSize
  TiledMap = {room, corner, flat}
  SizeOf <- MCSizeOf
  TileSizeOf <- MCTileSizeOf
  Layer <- MCLayer
  FirstGid <- MCFirstGid
  Null = Null
  CollisionLayer <- MCCollisionLayer
  CollisionGid <- MCCollisionGid
  MaxTypes = 3
  Fills <- MCFills
  EditedCells <- MCEditedCells
  MaxCalls = 5
INVARIANTS
  FirstRuleDecides
  ShowsTheTiles
PROPERTIES
  CellsSurvive
CHECK_DEADLOCK FALSE

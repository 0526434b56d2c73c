# SnowfeetFramework: TLA+ models, model checking and proofs

SnowfeetFramework (namespace `zn`) is a C++11 framework for 2D games on top of
SFML. A game is one thread: a main loop polls window events, advances a scene
by fixed time steps and draws it. There are no locks and no messages; what makes
the code hard is *re-entrancy* (the game's callbacks call the framework while it
is iterating over its own containers), *raw pointers* kept in several places at
once, *caches* that have to be invalidated, *bounded resources* (sound sources,
one-byte marks), *records that are kept twice* (tiles and mesh, a map and its
name, a window and its views) and *small algorithms* (path finding, maze
generation, auto-tiling, collisions) whose corner cases nobody runs.

Paths below are relative to the root of the repository; `fm/…` stands for
`src/fm/…` and `include/fm/…`.

## 1. The system

### 1.1 Parts and interactions

```
 WindowApplication::start ─poll─▶ the game's onEvent ─▶ GUIManager::onEvent ─▶ Component::onEvent ┐
        │    └─ onScreenResize ─▶ RenderSystem ─▶ Camera::onScreenResized                          │ game
        │ TimeStepper::callSteps                                                                   │ callbacks
        ▼                                                                                          │
 Scene::update ─▶ ComponentList::update (one list per update order) ─▶ Component::onUpdate ────────┤
        │         behaviours, then animators, …                                                    ▼
        ├─ propagateDestroyLate, destruction pass ─▶ ~Entity ─▶ onDestroy      createEntity, setParent,
        └─ audio, render, physics systems: everything registered               destroyLater, play, stop, …
```

| Part | State | Operations | Hard because |
|---|---|---|---|
| Scene, Entity, Component (`fm/scene/core`) | `m_entities`, `r_parent` / `m_children`, flags, components, registries of the systems | create, link, mark, add and remove components, clear; the update of a frame | callbacks change what is iterated over; each link is written twice; a free address is used again |
| Audio (`fm/scene/audio`, `fm/sfml/AudioSource`) | emitters; sources with a status and an `emitterRef`; `m_sourceRefs` of each emitter | play, stop, add, destroy; the sound card ends a sound | a bounded pool; who holds a source is written twice and cleared on different paths |
| Input (`Component`, `fm/scene/gui/GUIManager`) | `CF_INPUT_LISTENER`, the vector of listeners | `receiveInput`, destruction, loading, dispatch of an event | the vector changes while it is iterated over |
| Transforms (`fm/scene/core/Transform`) | local values, cached local and global matrices with their flags | local and global setters, `matrix()`, reparenting | the cache of a transform depends on all those above it |
| Persistence (`Scene`, `Entity`, `TagManager`) | entities with identifiers and tags, the counter, the tag index, the file | save, load, tag, create | identifiers come from three places; the index is written by some paths only |
| Time (`fm/app/TimeStepper`) | accumulator, frame counter, recorded rate | `onBeginFrame`, `callSteps`, `onEndFrame` | integer milliseconds; a rate measured over another interval |
| Path finding (`fm/util`) | grid, `m_calcGrid`, heap | `findPath`, `push`, `pop` | nothing is cleared between searches; the heap compares what changes under it |
| Maze (`fm/pcg`) | masks, start nodes | `generate`, `connectRandomNodes` | random choices at each step |
| Auto-tiler (`fm/pcg`) | rule sets, their cases | `addCase`, `process` | masks of eight bits; the first rule wins |
| Asset bank (`fm/asset`) | manifest, one map per type, files | `load` with or without a scan | partial failure; files change between loads |
| Application (`fm/app/WindowApplication`), cameras | `m_runFlag`, the window and its queue, the Squirrel machine, `m_screenView`, views | `start`, `init`, `setFullScreen`, `stop`, `onScreenResize` | `stop()` from anywhere; a window created anew in the handling of its events; an initialisation that fails half-way |
| Sprite animation (`fm/scene/animation`) | sequence, frame, remaining loops; atlas of the renderer | `play`, `stop`, `setFrame`, a change of atlas, the update | an index into a sequence that another component changes |
| Physics and the demo's movers (`fm/scene/physics`, `demo`) | cells and types of a map, boxes, velocities | `collides`, `colliderAt`, `Mover::onUpdate`, `Character::onUpdate` | each mover is tested against where the others are by now; update orders that nothing fixes |
| Tile maps (`MapRenderer`, `MapCollider`) | tiles and mesh, cells, the Tiled map they are from | `build`, `setTile`, `updateMesh`, `setCell`, save, load | the mesh is kept up to date by hand; a map is saved by name or by cells |
| Particles, materials, GUI layout, reflection, … | see 6 | | not worth modelling, or not modelled |

The parts meet in these places. The main loop gives the stepped time to
`Scene::update`, which updates the behaviours list by list and then destroys
what was marked. `onAdd` and `onDestroy` of a component register it with a
system of the scene (a behaviour list, the renderers, the audio emitters) and
unregister it; a component that receives input is also in the vector of the
`GUIManager`. `Entity::setParent` tells the transform of the entity that its
parent has changed. `~Entity` untags the entity at the `TagManager`. No code of
the framework calls `GUIManager::onEvent`: a game does, from its own `onEvent`.
`setAtlas` of a renderer calls `onAtlasChanged` of the animator beside it. A mover
asks the physics system what its box would meet, and moves its transform.

### 1.2 What makes each part correct

- *Lifecycle*: a system names a component exactly while the component exists;
  parent and children are the two directions of one relation over live entities;
  nothing freed is gone through; destroying an entity takes its children with it,
  and happens in the end.
- *Audio*: a source belongs to one emitter; a sound that plays can be stopped by
  a live emitter; a sound starts on a silent source only.
- *Input*: flag, vector and the last wish of the game agree; each event is shown
  to every listener until one consumes it.
- *Transforms*: a cached matrix that is used is the product of the local ones.
- *Persistence*: identifiers are unique; the index of tags tells the truth;
  loading restores what was saved.
- *Time*: steps in the given range, an accumulator that does not grow, game time
  that neither runs away nor stands still.
- *Path finding*: a path that is found is walkable, a path that exists is found,
  whatever was searched before; each search ends.
- *Maze*: a tree that spans what can be reached. *Tiler*: the first rule that
  matches decides. *Assets*: success means that everything listed is loaded, and
  nothing twice.
- *Application*: a stop ends it, wherever it comes from; scripts are closed once,
  however the initialisation went; views follow the window.
- *Animation*: a sequence is played as often as asked, on frames that it has, and
  ends; a character looks like what it does.
- *Physics*: nothing enters what blocks it, or jumps over it.
- *Tile maps*: the mesh shows the tiles; a load restores what blocks.

The hazards behind them, each at its line, are under `hazards` in
`PROJECT.json`.

## 2. Modules

| Module | Models | Checked by | Proved in |
|---|---|---|---|
| `SceneLifecycle` | `Scene`, `Entity`, `Component`, `ComponentList` | `scene`, `scene_remove_in_update` | `SceneLifecycleProofs` |
| `SourcePool` | what a pool of sound sources promises (abstract) | `audio_pool`, as `PoolSpec` | `ServicesProofs` |
| `AudioPool` | `AudioSystem`, `AudioEmitter`, `AudioSource` | `audio_pool` | `ServicesProofs` |
| `InputListeners` | `Component::receiveInput`, `GUIManager` | `main_loop` | `MainLoopProofs` |
| `WindowApplication` | `WindowApplication`, the views of `Camera` | `main_loop` | `MainLoopProofs` |
| `MainLoop` | composition: `InputListeners` in `WindowApplication` | `main_loop` | `MainLoopProofs` |
| `MapPhysics` | rectangles against `MapCollider` and `BoxCollider`, `PhysicsSystem::colliderAt`, `Mover` | `character` | `CharacterProofs` |
| `SpriteAnimator` | `SpriteAnimator`, the frame of `SpriteRenderer` | `character` | `CharacterProofs` |
| `Character` | composition: `demo::Character` and `Avatar` over `MapPhysics` and `SpriteAnimator`, frame by frame | `character` | `CharacterProofs` |
| `TransformCache` | `Transform`, `Entity::setParent` | `transform` | `TransformCacheProofs` |
| `ScenePersistence` | `Scene`, `Entity`, `TagManager`: saving and loading | `persistence` | `ScenePersistenceProofs` |
| `TimeStepper` | `TimeStepper`, main loop | `time` | `MainLoopProofs` |
| `PriorityQueueB` | `push` and `pop` of the heap, as operators | through `PathFinder` | `PathFinderProofs` |
| `PathFinder` | `PathFinder::findPath`, on `PriorityQueueB` | `path` | `PathFinderProofs` |
| `MazeGenerator` | `MazeGenerator`, `Direction` | `maze` | `ServicesProofs` |
| `AutoTiler` | `AutoTiler` | `tile_map` | `TileMapProofs` |
| `MapRenderer` | tiles and mesh of `MapRenderer` | `tile_map` | `TileMapProofs` |
| `MapCells` | cells of `MapCollider`, saving and loading | `tile_map` | `TileMapProofs` |
| `TileMap` | composition: a level from `AutoTiler` or Tiled maps, its renderer and collider | `tile_map` | `TileMapProofs` |
| `AssetBank` | `AssetBank`, `AssetMap`, manifest, file system | `assets` | `ServicesProofs` |
| `MC…` | the values of constants for TLC; `MCTimeStepper` also assumes of them what the properties of time require | | |

Definitions bear the names of the code where they can; `map` in `PROJECT.json`
gives the lines of each. Some conventions are common to all modules.

- **Objects are addresses.** An element of `Entity`, `Component` or `Emitter` is
  allocated, freed and perhaps allocated again, so a pointer that outlives its
  object dangles or names a newer object, as in the program.
- **Undefined behaviour is `fault`.** Using a freed object, an invalid iterator or
  an endless stack sets `fault`, after which no action is enabled (`broken` in
  `MapRenderer`, `badFrame` in `SpriteAnimator`).
- **Types.** Each component has its type invariant, `TypeOK` or a name that ends so.
  Where there is a proof, it is a theorem; the runs check deeper properties, whose
  evaluation fails on a state of the wrong type.
- **Names.** A specification whose theorems share a proof module with those of another
  one has prefixed names (`BankInit`, `MazeNext`, `timeVars`), so that the module can
  extend both.
- **Control is kept, data is abstracted.** Order, guards and early returns follow
  the code; names, colours, formats and floats are left out unless a property
  tells them apart.
- **Liberties.** The public API lets a game do what breaks the framework.
  `SceneLifecycle` has them in the constant `Client`, so that a run or a theorem
  says which it admits; `TransformCache` in `LateTransform`. Elsewhere the history
  variables `taken`, `dropped`, `lowered`, `steady`, `rescanned`, `swapped`, `behind`
  and `departed` record that
  one has happened, and the properties that do not survive it say so. No action
  reads a history variable except to update it (`MaxGenerations`, `MaxRules`,
  `MaxCalls`, `MaxPosts` and `Changes` count calls, to bound them).
- **Slips.** A definition under a comment that begins with *Slip:* is a plausible
  bug: it differs from the definition after it in one respect, no specification
  uses it, and a property that would not notice it is worth nothing. `mutants` in
  `PROJECT.json` pairs each property with one.

How state and actions correspond to the code, where it is not one to one:

- `SceneLifecycle`: a frame is `StartFrame`, then per list `Visit(c)` (the next
  component of the copy is called, or not), any calls of the game while
  `running` is set, `EndCallback`; `NextList`; `MarkSubtrees`
  (`propagateDestroyLate` from each marked entity); `Keep` or `Destroy` for each
  entity, in any order; `EndFrame`. `Subtrees` is the least set closed under
  children; `Endless` says that the recursion of the code would not return. The
  order of hash sets is left open.
- `AudioPool`: `Play` is `Reuse` (a source of the emitter whose sound has ended)
  or `RequestSource` (the first stopped source of the system, detached from its
  last emitter). Only `stop()` leaves `emitterRef` behind.
- `InputListeners`: the iterator of `onEvent` is an index, `stale` when the
  vector was moved by an insertion; `Notify` pushes the callback, `Consume` and
  `Continue` return from it.
- `TransformCache`: space has one dimension and no rotation: a shift and a factor
  tell any two orders of composition apart. `Update` is one level of the recursive
  `matrix()`.
- `ScenePersistence`: the file is a sequence of records; `Load` is `clear()` and
  the whole loop of `unserialize`, at new addresses that may be old ones; `Clear`
  is `clear()` called by the game.
- `TimeStepper`: all times in units, the truncation to milliseconds explicit.
- `PathFinder`: one action per branch of the loop and one per neighbour; marks
  are values modulo `MarkValues`.
- `WindowApplication`: `phase` is where `init` or `start` is. The window's size
  changes with `Post`, at any time; `OnScreenResize` runs when the event is polled,
  or inside `CreateWindow`. A size, and the view computed from it, is a model value.
  `MainLoop` lets the game forward an event to the listeners and go on in their
  callbacks: it may stop, make the window full screen and change the listeners
  there.
- `MapPhysics`: coordinates are integers. `Swept` is the loop of `Mover::onUpdate`,
  four times `Fraction`, each along x and then along y. The speed is any up to
  `Stride` per fraction; the sign of the velocity is kept.
- `SpriteAnimator`: the clock is left out; `NextFrame` is an update that finds the
  duration over, `SameFrame` one that does not.
- `Character`: a frame updates the movers and the character in any order (their
  update orders are equal, and a hash set holds them), then the animators.
- `MapRenderer`: the mesh is a function from indices to quads, a quad the cell it
  covers and the part of the texture on it. `MapCells`: the boxes of the types are
  left out (`MapPhysics` has them), their number is kept, since `build` makes empty
  each cell of a type that does not exist yet.
- `AssetBank`: what `getFiles` gives a scan is `seen`, any part of the files that are
  there: the root may not be opened (`fm/system/filesystem.cpp:23`), a folder is passed
  over when it cannot be (`:54`), and `load` does not ask (`AssetBank.cpp:89`). The
  order of `readdir` is `firsts`, the file that comes first for each name, chosen anew
  at each scan. `load`'s first early return is dead code: `loadFileAssociations`, asked
  to create the file, returns true even when it cannot (`AssetBank.cpp:251`).

## 3. Runs

States are distinct states. Times are seconds, with two workers.

| Run | States | Shows |
|---|---|---|
| `scene` | 624 376 | Links, registries and copies name only what exists; destruction takes exactly the marked subtrees; what is marked is destroyed in the end. |
| `scene_remove_in_update` | | **violated**: a behaviour removes another one that the copied list has yet to visit, and the list goes on to it (`NeverCallsDeleted`). |
| `audio_pool` | 12 822 | References, ownership and sounds agree; refinement of `SourcePool`. |
| `main_loop` | 1 136 127 | Flags, vector and wishes agree; every listener is asked; views follow the window; scripts close once; a stop ends the program. |
| `transform` | 8 400 | A matrix that is not flagged is the global one. |
| `persistence` | 1 548 974 | Unique identifiers, exact tag index, loading restores. |
| `time` | 8 179 252 | Steps in range, accumulator spent, no run-away, no standstill. |
| `path` | 731 501 | Walkable, found if there is one, heap order, termination. |
| `maze` | 663 882 | Passages go both ways and make a tree that spans what the seed reaches. |
| `tile_map` | 106 801 | The first rule decides; the mesh shows the tiles; cells survive a save and a load. |
| `assets` | 126 753 | A load that succeeds has loaded all that it lists, a first scan all that was seen, and each file once. |
| `character` | 160 770 | Movers enter nothing and jump over nothing; sequences are played as asked and end; the pose follows the keys. |

### Bounds, and why they are enough

- `scene`: **3 entities** make chains, forks and cycles of any shape that the
  recursion can meet (a marked root with a child and a grandchild, one of which is
  moved away); 1 behaviour in the first of 2 lists, so that lists are crossed with
  and without callbacks. `Client = {"cycle"}`: cycles are admitted, removal in
  callbacks and partial clears are not (their consequences are told in 5; with
  `"partialClear"` in `Client`, TLC finds `HierarchyConsistent` violated).
- `scene_remove_in_update`: 1 entity with 2 behaviours in one list. The property is
  about what the list has yet to visit; the flag that `Component.cpp:80` writes after a
  first update in which a behaviour has removed itself is a fault too, and told in 5.
- `audio_pool`: 3 emitters and 3 sources: sources of the same emitter, of others,
  and none left. Emitters are interchangeable (symmetry); sources are not, for the
  first one that is idle is taken.
- `main_loop`: 2 listeners, one at the iterator and one after or before it; 1
  camera; 2 sizes, of which one is the desktop's; 1 event of the window per frame
  (`MaxPosts`), so that the queue holds more only while events wait for a frame.
  Frames, calls and callbacks are not bounded.
- `transform`: 3 entities (a chain of three has a matrix that depends on one that
  depends on one), positions 0–1, scales 1–2 (`MaxPosition`, `MaxScale`).
- `persistence`: 2 entities, the least with a conflict; `MaxID = 2` identifiers
  (guard of `CreateEntity` alone), `MaxTransforms = 2` of an entity (guards of
  `AddTransform` and `Load`), without which automatic transforms pile up at each load;
  1 tag, 2 positions. Saves and loads are not bounded.
- `time`: ten units to the millisecond, 56 milliseconds to the second, steps of 7.5 to
  16.5 ms: the truncations are those of the program, in fewer states. A full step
  gains half a millisecond, which `callSteps` takes for 16. Frames of 1.1 and
  2.3 ms, which are counted for a millisecond and need several to make a step, of
  19 ms, which make a full step each, and of 28 ms. Only those of 19 ms are steady,
  whose rate, like the initial one, is fair to them. The surplus `ahead` is cut at
  `MaxDelta + 1` and `still` at `Standstill + 1`, one more than what the properties
  allow, which bounds the state; the number of frames is not bounded. In the run the
  surplus gets above 6 ms, in full steps, and the standstill beyond two seconds, so
  that neither bound is idle.
- `path`: every 3×2 grid of costs 0, 1 and 3 (729 grids), 2 searches, of which the
  second meets what the first left; `Ends` are the middle of a side, the corner
  beside it and the corner across; `SearchLimit = 3` is reached. All options on.
- `maze`: every choice of disabled cells of a 3×2 grid, corridors of 1 to 3 cells,
  2 generations (`MaxGenerations`), the second on the masks of the first.
  `MaxIterations` is large enough never to matter.
- `tile_map`: 2 rules (`MaxRules`) of 4 patterns that overlap, are complete or
  empty; every 3×2 grid of two types; 5 calls on the level (`MaxCalls`, of which
  showing a tiling counts for 3), enough to build, change, save, change and load;
  a Tiled map whose layers cover it, one whose layers cover a part, one without; a
  square texture and one that is not; `Fills` and `EditedCells` bound what the game
  writes.
- `character`: a 7×5 map with a room that has a corner, in which the avatar and the cat
  move and meet (they get to 15 pairs of places, and `NothingOverlaps` is violated when
  boxes do not collide), a second room behind a wall of half a cell, thinner than the
  motion of the faster mover in a frame (`Stride` 2, four times), and two pockets; types
  of cell that are whole, half and without a box. `Keys` are the directions of the
  player and also the accelerations of the other movers. A scene with two
  movers checks the motion, another with an animator the pose, so that the two do
  not multiply (guard of `AccelerateAnother`). Sequences of 3, 2 and 1 frames in two
  atlases; 1 call from elsewhere (`MaxCalls`) with up to 1 loop (`MaxLoops`).
- `assets`: two textures with one base name, an atlas, a file of no type; 2 changes
  of files (`Changes`). Each scan may see any part of the files.

`CHECK_DEADLOCK FALSE` is said where the program may stop: after a fault
(`scene`, `audio_pool`, `main_loop`, `character`), when the application has been
destroyed (`main_loop`), or where the bound on calls is used up (`path`, `maze`,
`tile_map`).

### Fairness

Four liveness properties, with weak fairness of the program's own steps.
`LateIsDestroyed` assumes `WF_vars(FrameStep \/ Crash)`: the main loop calls
`Scene::update` again and again (`fm/app/WindowApplication.cpp:207`) and callbacks
return. No step of the game is assumed. A crash is an end of the frame too, and
the property excepts it: on a marked cycle the recursion never returns.
`SearchEnds` assumes `WF_vars(Step)`: a call of `findPath` that runs goes on. It
may fail for no other reason than the code looping. `StopEndsTheLoop` assumes
`WF_loopVars(Program)`: what the loop calls returns and the loop goes on; the
queue of events cannot keep it for ever, since a frame gets `MaxPosts` events.
`AnimationsEnd` assumes weak fairness of the frames and `SF_vars(UpdateFrame)`: in
the updates that go on, the duration of a frame passes now and then, as the clock
of the animator does not stop.

## 4. Proofs

Theorems hold for every value of the constants that satisfies the assumptions of
the modules: any number of entities, components, emitters, sources, listeners or
movers, any update orders, maps, grids, rules, atlases and textures, any time range.
TLC evaluates the assumptions on every run. A condition that a theorem needs beyond
them is its hypothesis, and told here with the reason.

46 theorems are listed in `PROJECT.json`; they state 36 of the 40 properties that the
passing runs check, all but the four of liveness: every invariant, every action
property and the refinement.

- **SceneLifecycleProofs.** `TypeCorrect` and `RegistriesExact` assume nothing of
  the game. `HierarchyStaysConsistent` assumes that it never clears across a link
  (`"partialClear" \notin Client`); the core is what detaching a set of entities
  does to the two directions of the relation. `NothingFreedIsAhead` adds that it
  does not remove components in callbacks, and holds with cycles: registry and
  hierarchy are exact, and what is left of the copy of a list is registered.
  `DisciplinedIsSafe` adds that the game makes no cycles: then there is no
  endless descent, for `setParent` to an entity outside one's subtree closes none,
  and no step that crashes is enabled. `ChildrenGoWithTheirParent` rests on an
  invariant of the pass alone: as long as it runs, the marked entities are closed
  under children; it assumes a game as in `DisciplinedIsSafe` in which `onDestroy`
  marks nothing. `DisciplinedIsSafe`
  has no run of its own, since it follows from `NothingDanglesAhead`
  and from there being no cycle. `TheMarkedAndTheirsAreDoomed` compares the least
  closed set, which the pass marks, with what a walk up the parents of each entity
  finds. That a walk of *n* links exists and is the only one is shown for each *n*
  (`ChainExists`, `ChainUnique`); the sets `Under(n)` grow with *n* until they stop,
  which they do within as many links as there are entities (`UnderStops`), also where
  the parents make a cycle, and where they stop they are closed.
- **ServicesProofs**: three services that share nothing.
  *Audio*: `RefsAreOwned` and `NoOrphanSound` are inductive only together with
  `SoundsAreHeld` (the owner of a source that plays is live and has the source among
  its references): `IInv`. `ImplementsSourcePool` maps each source to the emitter whose
  sound it makes and each step to a start, an end, a cut or a stutter;
  `DanglingComesFromStop` relates `emitterRef` to `dropped`.
  *Assets*: `CompleteInv` says of the last load what `SuccessIsComplete` asks, and is
  kept by what happens later to files and maps. `OneName` says that a file has one
  name in the maps, in the manifest and in both; a manifest that a scan writes has it
  because its files were scanned by base name, whichever of them were seen and in
  whatever order, and a load keeps it, which fails half-way
  or not (`Agree`). The assumption that no file has the path of another of its type for
  base name is needed: with `x.png` and `x.png.png` the name of the one is the path of
  the other.
  *Maze*: `TreeInv` counts passages: two for each cell that was visited but the first,
  and no set with the seed that passages do not leave misses a visited cell. Then the
  passages are a tree (`CorridorsMakeATree`), and each goes both ways. `MazesAreWhole`
  adds `PendingInv` (a visited cell beside an unvisited one is a start node, or the
  corridor stands on it) and assumes that `maxIterations` is at least twice the number
  of cells, for `CountInv` gives one iteration to each side of a passage. The code's
  limit is 100 000 (`MazeGenerator.cpp`): a maze of 50 000 cells is within it, and a
  larger one may be cut short.
- **TransformCacheProofs.** `CacheIsLocallyCoherent` assumes `~LateTransform`: a
  change condemns a set closed under transforms below (`NotifiedClosed`), and
  outside of it nothing that a matrix was computed from has changed
  (`ChangeBelow`). `CacheIsGlobal` concludes that a cached matrix is the product along
  the whole chain of parents, which is a recursive function: that there is one with
  its equation is shown first (`RowsExist`), then, the parents making no cycle, that
  local coherence gives it row by row, from the topmost ancestor down
  (`CoherentIsGlobal`).
- **PathFinderProofs.** `FoundPathIsWalkable` needs of the heap only that what is in it
  has been opened: `SearchInv` says that some set of opened nodes has the start, the
  heap, and with each node its parent, from which a step leads to it. It holds with
  marks that start again from 0. `HeapGivesTheSmallest` is about what `push` and `pop`
  make of a list (`IsHeap`): rising repairs it above a place, sinking below; the
  functions `Rise` and `Sink` are taken at each place by least counterexample. A cost
  that is lowered in the heap breaks it (see 5), hence `~lowered`.
  `NotFoundIsUnreachable` rests on `CompleteInv`: what is open is in the heap, and what
  a step reaches from a closed node is marked. When the heap is empty the closed nodes
  are closed under steps, and the end is not among them. It needs `NoWrap`, that the
  marks have not started again from 0, which the property itself assumes.
- **MainLoopProofs.** `LoopImplementsListeners` takes each step of the main loop to a
  step or a stutter of `InputListeners`. `ListensAsAsked` is inductive with the types
  (the vector holds none twice). `EveryListenerIsAsked` rests on `DueIsAhead`: who
  has still to be shown the event is in the vector at or ahead of the iterator
  (`AheadOfIterator`), so that the set is empty when the end is reached. Removing an
  element that is behind would break it, which is why the property excepts changes in
  callbacks. `ScriptsInv` says phase by phase what the pointer to the machine is.
  `ViewsInv` says that the last resize in the queue has the size of the window, older
  ones may have any: handling the last one fits the views.
  Of the time stepper, `StepsInRange` and `AccumulatorIsSpent` are inductive together
  (`MsBounds`, `RemainderIsShort`). `TheGameAdvances` assumes `FramesAreFew`: frames
  last more than a millisecond, or each adds nothing (see 5), and as many frames as
  make a step a millisecond at a time are few in a second, as the 14 · 15 of the
  program are. `StillInv` distinguishes how long ago the last step was: the interval
  has not changed since, or changed once and none of its frames made a step, so that
  each has left a millisecond at least in the accumulator, or twice, and then the rate
  of so few frames makes the next one step. `TheGameKeepsPace` assumes `FramesAreEven`:
  each rate that a second of steady frames may give is fair to the shortest of them.
  With the constants of the program, frames of 16.5 to 17 ms are even, and frames of 12
  to 17 ms are not: the slow make a rate after which the fast gain. `PaceInv` counts the
  surplus and the accumulator together, each millisecond of which may become
  33.333 / 33 of one (see 5).
- **CharacterProofs.** `NothingGetsInside` holds from a start where nothing overlaps:
  the code checks no start. Its core is `MapIsClear`: the cells between the cut and
  clamped indices of the corners of a rectangle are all that it can overlap
  (`CellIndexBounds`), so that what `collides` does not look at does not matter; and a
  motion ends where it began or at a place that `collides` admits (`SweptIsFree`).
  `NoWallIsJumped` assumes `WallsAreThick`: a fraction of a motion is shorter than the
  wall and the box together. Then each of the unit steps between two clear places is
  clear (`BetweenX`, `BetweenY`), and the first one that left the room would be in a
  wall (`SlideX`, `SlideY`). The strict bound is needed: `collides` does not see a
  rectangle that touches a whole cell from the right or from below, for its index is
  that of the next cell, so that a mover which touches a wall at the start could
  come out just behind it. The cat of the run is at the bound (2 = 1 + 1), which the
  theorem leaves out: it starts touching no wall, moves up and down its room, and TLC
  shows that from there it jumps over none. `PlaysAsAsked` needs
  `NameIsPlayed`, and that a frame which does not exist ends the play
  (`BadFrameEnds`). `CharacterFollowsKeys` assumes `EveryAtlasWalks`, for `play()`
  ignores a sequence that its atlas has not got; `PoseInv` says how mover and character
  answer to the keys, frame by frame and for both orders of their updates.
- **ScenePersistenceProofs.** `IdentifiersUnique` is inductive with the order of the
  scene (each entity is once in `order`); `computedNextID` is above what it folds over
  (`GreatestID`), and `LoadFacts` says what the whole loop of `unserialize` makes of
  a file: the identifiers, tags, transforms and order at the new addresses, from
  which `LoadRestores` follows. `TagIndexExact` needs that addresses outside of the
  scene are in no set of the index, which `~Entity` sees to.
- **TileMapProofs.** `FirstRuleWins` assumes `NoneTakenForFull`: no pattern in which
  exactly the four lower neighbours matter, which the code takes for one in which all
  do (see 5); the property is false with one. `CasesAreDecided` is the invariant: a
  rule that is added at the end changes the least place that agrees only where there
  was none (`MinOfPlaces`). `CellsAreRestored` rests on `SourceIsRead` and
  `FileIsRead`: cells that have not departed from their Tiled map are those that it
  gives with the types of now, and of the save. `MeshShowsTheTiles` rests on
  `MeshFollows`: a place of the mesh has the quad of its cell unless this cell is
  behind, and a mesh without quads has all cells behind; cells and places are in
  bijection (`PlaceOfCell`, `CellOfPlace`), from the uniqueness of quotient and
  remainder (`DivOf`). It needs no hypothesis but those that the property states.

Induction over numbers is done where the formula is concrete: a set of numbers has a
least element (`LeastElement`, from the library's theorem on well-founded
relations), and the least counterexample is refuted. The same gives the recursive
functions of the models their equations: a function that satisfies one is shown to
exist up to each number, and `CHOOSE` takes it. The library's theorems on induction,
which take an operator, are not used, and no module with a theorem has a `RECURSIVE`
operator.

Only model-checked:

- all liveness (`LateIsDestroyed`, `StopEndsTheLoop`, `SearchEnds`, `AnimationsEnd`):
  fairness is out of the prover's reach;
- that there are constants as the theorems about time require: `MCTimeStepper`
  assumes it of those of its run, and TLC evaluates it;
- the `badFrame` and `broken` ends themselves: the properties say what holds before
  them, not that a game avoids them.

## 5. Where the code departs from what is said of it

One departure has a run that ends in a violation: `ComponentList::update` copies
its list "to avoid concurrent modifications"
(`include/fm/scene/core/ComponentList.hpp:53`), but the copy keeps pointers to
components that a callback may delete (`:61`): run `scene_remove_in_update`.

Others show in the liberties, conditions and comments of the properties, or were
met while modelling:

- *Lifecycle.* `clearAllButCrossEntities` leaves links to what it deletes
  (`Scene.cpp:220`). An entity marked by an `onDestroy` is destroyed in this pass or
  in the next frame's, and its children may be spared, for the marks were propagated
  before (`Scene.cpp:175`). `setParent` accepts descendants: with transforms on the
  cycle it recurses for ever at once (`Transform.cpp:23-40`), without them when the cycle
  is marked (`Scene.cpp:142`). A behaviour that removes itself in its first update has
  its flag written after it was deleted (`Component.cpp:80`).
- *Audio.* An emitter that calls `stop()` and is then destroyed leaves its
  `emitterRef` (`AudioSystem.cpp:90`); the source can then be requested only if
  its sound had ended by itself, and goes through the freed emitter. A sound that is
  cut is paused, not stopped (`AudioSource.cpp:123`), and its source is never
  idle again.
- *Input.* `receiveInput(true)` on a component that receives input takes it out
  (`Component.cpp:49`). A component loaded with the flag is not registered
  (`Component.cpp:118`). A listener that leaves in its callback makes the
  iterator skip the next or run past the end (`GUIManager.cpp:32`).
  `f_listenerOrder` is never used, and tests the same pointer twice.
- *Transforms.* Adding or removing a transform above others leaves their matrices
  as they were (`Entity.cpp:249`). `setScale` multiplies by the scale of the
  parent where the other setters take it away (`Transform.cpp:162`).
- *Persistence.* A refused entity stays in the scene with an identifier that may be
  given again (`Scene.cpp:291`). With `automaticTransforms`, loading gives each
  entity two transforms, of which the first, at the origin, is used
  (`Scene.cpp:280`). Tags that are read are not indexed (`Entity.cpp:343`).
  `loadFromFile` unserializes an empty value (`Scene.cpp:363`). `setTag` never
  fills `m_name2Tag`, so no name has an index (`TagManager.cpp:30`).
- *Time.* A frame adds one second divided by the rate of an earlier interval: after
  slow frames the game gains time; above 1000 frames per second it stands still
  (`TimeStepper.cpp:40`). A full step lasts `m_maxDelta`, 33.333 ms, and takes only its
  whole milliseconds from the accumulator (`:61`): even steady frames gain up to 1 % in
  full steps.
- *Path finding.* "I change node state values and simply ignore the other values"
  (`PathFinder.cpp:29`): the marks are signed bytes raised by two per search, and in
  the 127th the mark of closed nodes is 0, that of nodes never reached (`:32`), which
  are then skipped. `FindsIfThereIs` is about the first 126 searches for this reason;
  without the condition, with `MaxSearches = 128`, it is violated.
  The heap compares costs that `findPath` lowers under it (`PathFinder.cpp:144`), so
  that "the smallest" is not always that.
- *Maze.* `RIGHT_BIT` and `LEFT_BIT` are swapped (`Direction.hpp:35-36`), and a bit
  is pushed for a direction (`MazeGenerator.cpp:161`): joining dead ends opens no
  new passage.
- *Tiler.* A full mask is taken to be `0xf` (`AutoTiler.cpp:23`): a pattern in which
  exactly the four lower neighbours matter decides for one neighbouring only.
- *Assets.* `load`, "given a root folder, loads every asset contained in it"
  (`AssetBank.hpp:61`), returns true also when the scan failed or passed over a folder
  (`AssetBank.cpp:89`, `fm/system/filesystem.cpp:23` and `:54`), when `stat()` did
  (`:45`), and when the manifest could not be written (`AssetBank.cpp:98`): what is
  promised of a first scan is about the files that were seen. A file may be loaded
  twice, under its name and under its path (`AssetMap.hpp:23` says otherwise); a scan
  hides a file whose name the manifest gives to another (`AssetBank.cpp:91`); an
  existing manifest is not written again after a scan (`AssetBank.cpp:95`).
- *Application.* `start` sets its flag after `onInit`, so that a `stop()` in between
  is lost (`WindowApplication.cpp:206`). Full screen creates the window anew, and a
  closing that waits in the queue is never polled (`:54`). The constructor does not
  initialise `m_squirrelVM`, which the destructor reads: when the assets cannot be
  loaded it may close a machine that never was (`:30`).
- *Animation.* A change of atlas keeps the number of the frame
  (`SpriteAnimator.cpp:44`): in a shorter sequence the next update reads beyond the
  frames; the rectangle of the old atlas stays until then. Without an atlas `stop()`
  is called, and saves the null pointer from being used two lines below. A sequence
  given *n* loops is played *n + 1* times (`:126`). A character starts facing right
  whatever its sprite shows (`Character.cpp:17`).
- *Physics.* Touching counts as meeting (`sfml2_utils.hpp:78`), but not of a whole cell
  from its right or from below, whose area is cut to the next index. A mover that is given
  no acceleration stops at once, so that the order in which it and its character
  are updated shows (`Mover.cpp:61`).
- *Tile maps.* The line of a tile in the texture is computed from the number of lines
  (`MapRenderer.cpp:254`): right where a texture has as many lines as columns. A
  load makes no mesh (`:337`). `build` keeps the old collider map as the one that is
  saved when the new one cannot be read, and cells that are set after a map was read
  are not saved (`MapCollider.cpp:280`).
- *Outside of the models.* `MapCollider::collides` of a point takes the row from
  `pos.y`, not `rpos.y` (`MapCollider.cpp:152`). The loop over objects of a `TiledMap`
  never increments its index (`TiledMap.cpp:110`). `Anchor::unserializeData` serializes
  (`Anchor.cpp:51`). `SpriteRenderer::unserializeData` calls the static `unserialize`
  of its base, which looks for a type in the data of the component and finds none
  (`SpriteRenderer.cpp:194`): a sprite cannot be loaded, which is why loading is no
  action of `SpriteAnimator`.

## 6. Not modelled

- Partly modelled parts: names of entities, layers, actors; the listener and the
  attenuation of sounds; rotations and two dimensions of transforms; names of tags;
  the operations of `PriorityQueueB` that nothing calls; parsing of rules; file
  associations; the settings of the application; disabled colliders and points; the
  scene of the demo. The notes of `PROJECT.json` are exact.
- The loops of `RenderSystem::draw` and `render`: two sorts and a filter over what is
  registered, without a callback. What its render states keep from one renderer to
  the next is a hazard without a property, for it shows in the line.
- Particles: an array of independent numbers.
- I/O and library calls: drawing, shaders, fonts, sound card, parsing of files.
- Stateless helpers over floats and strings, which the repository's tests exercise.
- Vendored code: SFML's headers (`src/extlibs/include/SFML`), JsonBox, Squirrel and
  Sqrat (`src/include/fm/squirrel`, `src/src/fm/squirrel`), which are some 70 % of
  the lines below `src/`. The framework opens and closes the Squirrel machine and
  runs no script; what it relies on of the others is modelled as external. The
  framework, its demo and tests have some 18 700 lines with their headers; what is
  left of them outside of the models is the list above.

## 7. Plan

1. *Done*: lifecycle, audio with its abstract pool, transforms, persistence, time,
   path finding, maze, assets; the application with its listeners and views; a
   character with its mover, colliders and animator; a level with its tiles, mesh and
   cells.
2. *Done*: theorems over all modules; every safety property that a run checks is
   proved for every value of the constants, under the hypotheses told in 4.
3. *Abstract specifications worth stating*: a set of listeners for `InputListeners`; a
   store of entities for `ScenePersistence`; a map of best known costs for
   `PathFinder`.
4. *Compositions left*: `SceneLifecycle` with `InputListeners` (destruction of
   entities in a dispatch) and with `AudioPool` (sounds of destroyed entities).

----------------------------- MODULE MapPhysics -----------------------------
(***************************************************************************)
(* Collisions: the cells of a zn::MapCollider, the boxes of zn::BoxCollider *)
(* and PhysicsSystem::colliderAt; and demo::Mover, which moves the entity  *)
(* of a box in four fractions, each along x and then along y, and takes a  *)
(* fraction back when it meets a collider.                                 *)
(*                                                                         *)
(* Lengths are integers.  Of a speed the model keeps the direction: the    *)
(* motion of an update is any one in that direction, by at most Stride in  *)
(* each fraction.  All the colliders are enabled, on active entities.      *)
(***************************************************************************)
EXTENDS Integers

CONSTANTS
  Mover,       \* the entities that have a Mover and a BoxCollider
  HitBox,      \* m_rect of the BoxCollider of each of them
  Stride,      \* the most that each of them goes along an axis in one fraction
  Columns, Rows,  \* m_size of the map
  CellSize,    \* m_cellSize
  MapCell,     \* m_collisionMap: the type of each cell
  TypeBox,     \* m_colliderTypes: the box of each type, inside its cell
  MapOrigin,   \* the position of the map
  Rooms        \* the sets of positions that the cells of the map enclose

MapCells == (0..(Columns - 1)) \X (0..(Rows - 1))
Rects == [left : Int, top : Int, width : Nat, height : Nat]
Signs == {-1, 0, 1}

ASSUME PhysicsAssumption ==
  /\ HitBox \in [Mover -> Rects]
  /\ Stride \in [Mover -> Nat \ {0}]
  /\ Columns \in Nat \ {0} /\ Rows \in Nat \ {0} /\ CellSize \in Nat \ {0}
  /\ MapCell \in [MapCells -> Nat]
  /\ \A t \in DOMAIN TypeBox :
       /\ TypeBox[t] \in Rects
       /\ TypeBox[t].left >= 0 /\ TypeBox[t].left + TypeBox[t].width <= CellSize
       /\ TypeBox[t].top >= 0 /\ TypeBox[t].top + TypeBox[t].height <= CellSize
  /\ MapOrigin \in Int \X Int

VARIABLES
  position,      \* the position of each mover
  velocity,      \* m_velocity, as the signs of its coordinates
  acceleration   \* m_acceleration, likewise

physicsVars == <<position, velocity, acceleration>>

-----------------------------------------------------------------------------
(***************************************************************************)
(* Colliders.                                                              *)
(***************************************************************************)

At(rect, p) == [rect EXCEPT !.left = @ + p[1], !.top = @ + p[2]]

\* intersects() of two rectangles: it is enough that they touch.
Intersects(a, b) ==
  /\ a.left + a.width >= b.left /\ a.top + a.height >= b.top
  /\ b.left + b.width >= a.left /\ b.top + b.height >= a.top

\* The conversion of a quotient to an integer drops its fraction, and clamp() keeps
\* it between 0 and the last index.
CellIndex(x, count) ==
  LET cell == IF x < 0 THEN 0 ELSE x \div CellSize
  IN  IF cell > count - 1 THEN count - 1 ELSE cell

\* Type 0 is empty, and so is one that has no box.
Blocks(cell) == MapCell[cell] # 0 /\ MapCell[cell] \in DOMAIN TypeBox

CellRect(cell) == At(TypeBox[MapCell[cell]], <<cell[1] * CellSize, cell[2] * CellSize>>)

\* Slip: the last column and row of the area are left out.
CollidesBefore(r0) ==
  LET r == At(r0, <<-MapOrigin[1], -MapOrigin[2]>>)
  IN  \E x \in CellIndex(r.left, Columns)..(CellIndex(r.left + r.width, Columns) - 1),
         y \in CellIndex(r.top, Rows)..(CellIndex(r.top + r.height, Rows) - 1) :
        Blocks(<<x, y>>) /\ Intersects(CellRect(<<x, y>>), r)

\* MapCollider::collides: only the cells in the area of the rectangle are looked at.
MapCollides(r0) ==
  LET r == At(r0, <<-MapOrigin[1], -MapOrigin[2]>>)
  IN  \E x \in CellIndex(r.left, Columns)..CellIndex(r.left + r.width, Columns),
         y \in CellIndex(r.top, Rows)..CellIndex(r.top + r.height, Rows) :
        Blocks(<<x, y>>) /\ Intersects(CellRect(<<x, y>>), r)

\* BoxCollider::collides, of the mover m.
BoxCollides(m, r) == Intersects(HitBox[m], At(r, <<-position[m][1], -position[m][2]>>))

\* PhysicsSystem::colliderAt(rect, the collider of m) # nullptr
Collides(r, m) == MapCollides(r) \/ \E other \in Mover \ {m} : BoxCollides(other, r)

-----------------------------------------------------------------------------
(***************************************************************************)
(* Mover::onUpdate.                                                        *)
(***************************************************************************)

Box(m, p) == At(HitBox[m], p)

\* One fraction along the x axis, and one along the y axis: what is met is not
\* entered, and the motion along that axis ends.
AdvanceX(m, s) ==
  LET p == <<s.p[1] + s.u[1], s.p[2]>>
  IN  IF s.u[1] = 0 THEN s
      ELSE IF Collides(Box(m, p), m) THEN [s EXCEPT !.u[1] = 0]
      ELSE [s EXCEPT !.p = p]

AdvanceY(m, s) ==
  LET p == <<s.p[1], s.p[2] + s.u[2]>>
  IN  IF s.u[2] = 0 THEN s
      ELSE IF Collides(Box(m, p), m) THEN [s EXCEPT !.u[2] = 0]
      ELSE [s EXCEPT !.p = p]

Fraction(m, s) == AdvanceY(m, AdvanceX(m, s))

\* Slip: the whole motion is done at once.
SweptInOne(m, u) == Fraction(m, [p |-> position[m], u |-> <<4 * u[1], 4 * u[2]>>]).p

\* Where the four fractions of a motion lead, each of them u.
Swept(m, u) ==
  LET start == [p |-> position[m], u |-> u]
  IN  Fraction(m, Fraction(m, Fraction(m, Fraction(m, start)))).p

\* A coordinate of the velocity after an acceleration: against it, it may keep its
\* sign, vanish or turn.
Accelerated(v, a) ==
  IF a = 0 THEN {v} ELSE IF v = -a THEN Signs ELSE {a}

\* Without an acceleration, along either axis, the mover stands still at once.
UpdateMover(m) ==
  /\ \E v \in IF acceleration[m] = <<0, 0>> THEN {<<0, 0>>}
              ELSE Accelerated(velocity[m][1], acceleration[m][1])
                     \X Accelerated(velocity[m][2], acceleration[m][2]) :
       /\ velocity' = [velocity EXCEPT ![m] = v]
       /\ \E x, y \in 0..Stride[m] :
            position' = [position EXCEPT ![m] = Swept(m, <<x * v[1], y * v[2]>>)]
  /\ acceleration' = [acceleration EXCEPT ![m] = <<0, 0>>]

\* Mover::accelerate, in the directions of d, up to twice between two updates.
Accelerate(m, d) ==
  LET sum(x, y) == IF x + y > 1 THEN 1 ELSE IF x + y < -1 THEN -1 ELSE x + y
  IN  acceleration' = [acceleration EXCEPT ![m] = <<sum(@[1], d[1]), sum(@[2], d[2])>>]

\* Mover::moving
Moving(m) == velocity[m] # <<0, 0>> \/ acceleration[m] # <<0, 0>>

-----------------------------------------------------------------------------
(***************************************************************************)
(* Properties.                                                             *)
(***************************************************************************)

PhysicsTypeOK ==
  /\ position \in [Mover -> Int \X Int]
  /\ velocity \in [Mover -> Signs \X Signs]
  /\ acceleration \in [Mover -> Signs \X Signs]

Overlap(a, b) ==
  /\ a.left + a.width > b.left /\ a.top + a.height > b.top
  /\ b.left + b.width > a.left /\ b.top + b.height > a.top

MapRect(cell) == At(CellRect(cell), MapOrigin)

\* Whether the box of m, at p, is clear of the cells of the map.
Clear(m, p) == \A cell \in MapCells : Blocks(cell) => ~Overlap(Box(m, p), MapRect(cell))

\* No mover is ever inside a blocking cell ("Tests if a rectangle intersects a
\* blocking cell of the map", MapCollider.hpp:28) or inside another mover, in
\* whatever order they move.
NothingOverlaps ==
  \A m \in Mover :
    /\ Clear(m, position[m])
    /\ \A other \in Mover \ {m} :
         ~Overlap(Box(m, position[m]), Box(other, position[other]))

Neighbours(p) ==
  {<<p[1] + 1, p[2]>>, <<p[1] - 1, p[2]>>, <<p[1], p[2] + 1>>, <<p[1], p[2] - 1>>}

\* The cells enclose a room: a box cannot leave it by steps of one unit, the smallest
\* that there is, without being inside a cell.
ASSUME RoomsAssumption ==
  \A room \in Rooms : \A p \in room : \A m \in Mover :
    \A q \in Neighbours(p) \ room : ~Clear(m, q)

\* No wall is jumped over: a motion in four fractions that are each clear of the map
\* ("Advance a bit on X", Mover.cpp:108) never takes a mover out of the room it is in,
\* though it may be longer than the wall is wide.  Nothing in the code keeps a fraction
\* from being longer than the wall and the box together, which would jump.
StaysInRoom ==
  [][\A m \in Mover, room \in Rooms : position[m] \in room => position'[m] \in room]_position
=============================================================================

--------------------------- MODULE TransformCache ---------------------------
(***************************************************************************)
(* The cached global matrices of zn::Transform.  matrix() computes the     *)
(* matrix of a transform from its parent's when its flag                   *)
(* m_globalMatrixNeedUpdate is set; every change of a local value or of    *)
(* the hierarchy has to set the flag of the transform and of those below.  *)
(*                                                                         *)
(* Space has one dimension and no rotation: a matrix is a shift and a      *)
(* factor, which is enough to tell any two orders of composition apart.    *)
(* Floats are integers: a global setter is called only with a value that   *)
(* has an exact local one.  A raised flag and the matrix it condemns are   *)
(* one value, Stale: nothing reads the matrix while the flag is up.  The   *)
(* local matrix, whose flag is raised by the very assignments that change  *)
(* it, is computed from the local values when it is needed.                *)
(***************************************************************************)
EXTENDS Naturals, FiniteSets

CONSTANTS
  Entity,       \* the entities, all alive
  NoEntity,     \* the null Entity pointer
  Stale,        \* a global matrix that needs an update
  MaxPosition,  \* bound on local positions
  MaxScale,     \* bound on local scales
  LateTransform \* whether the game adds or removes the transform of an entity
                \* when a child of it already has one

ASSUME ConstantsAssumption ==
  /\ IsFiniteSet(Entity) /\ NoEntity \notin Entity
  /\ MaxPosition \in Nat /\ MaxScale \in Nat \ {0}
  /\ LateTransform \in BOOLEAN
  /\ Stale \notin [shift : Nat, factor : Nat]

Position == 0..MaxPosition
Scale == 1..MaxScale
Matrix == [shift : Nat, factor : Nat]

VARIABLES
  up,       \* Entity::r_parent
  has,      \* the entities that have a Transform
  pos,      \* Transform::m_position
  scl,      \* Transform::m_scale
  cached    \* Transform::m_globalMatrix, or Stale while it needs an update

vars == <<up, has, pos, scl, cached>>

\* Types of the state.
TypeOK ==
  /\ up \in [Entity -> Entity \cup {NoEntity}]
  /\ has \subseteq Entity
  /\ pos \in [Entity -> Position]
  /\ scl \in [Entity -> Scale]
  /\ cached \in [Entity -> Matrix \cup {Stale}]

Init ==
  /\ up = [e \in Entity |-> NoEntity]
  /\ has = {}
  /\ pos = [e \in Entity |-> 0]
  /\ scl = [e \in Entity |-> 1]
  /\ cached = [e \in Entity |-> Stale]

-----------------------------------------------------------------------------
Local(e) == [shift |-> pos[e], factor |-> scl[e]]

\* sf::Transform::combine
Combine(m, l) == [shift |-> m.shift + m.factor * l.shift, factor |-> m.factor * l.factor]

\* Transform::parent() is not null.
HasParent(e) == up[e] \in has

\* The entities with a transform that are children of members of S.
TransformsUnder(S) == {x \in has : up[x] \in S}

\* Slip: only the transform itself is notified.
NotifiedAlone(e) == {e}

\* e and all the transforms notified when e changes: the least such set.
Notified(e) ==
  {x \in Entity : \A D \in SUBSET Entity : (e \in D /\ TransformsUnder(D) \subseteq D) => x \in D}

\* e and the entities below it.
Subtree(e) ==
  {x \in Entity : \A D \in SUBSET Entity : (e \in D /\ \A y \in Entity : up[y] \in D => y \in D) => x \in D}

Condemned(S) == [x \in Entity |-> IF x \in S THEN Stale ELSE cached[x]]

-----------------------------------------------------------------------------
\* No child has a transform yet.
Unused(e) == LateTransform \/ TransformsUnder({e}) = {}

\* addComponent of a new transform, or of one just loaded with its values.
AddTransform(e, p, s) ==
  /\ e \notin has /\ Unused(e)
  /\ has' = has \cup {e}
  /\ pos' = [pos EXCEPT ![e] = p]
  /\ scl' = [scl EXCEPT ![e] = s]
  /\ cached' = [cached EXCEPT ![e] = Stale]
  /\ UNCHANGED up

RemoveTransform(e) ==
  /\ e \in has /\ Unused(e)
  /\ has' = has \ {e}
  /\ pos' = [pos EXCEPT ![e] = 0]
  /\ scl' = [scl EXCEPT ![e] = 1]
  /\ cached' = [cached EXCEPT ![e] = Stale]
  /\ UNCHANGED up

\* Slip: the entities below are not told.
SetParentQuietly(e, p) ==
  /\ p # up[e] /\ p \notin Subtree(e)
  /\ up' = [up EXCEPT ![e] = p]
  /\ cached' = IF e \in has THEN [cached EXCEPT ![e] = Stale] ELSE cached
  /\ UNCHANGED <<has, pos, scl>>

\* Entity::setParent, to no entity below e: onParentChanged if e has a transform.
SetParent(e, p) ==
  /\ p # up[e] /\ p \notin Subtree(e)
  /\ up' = [up EXCEPT ![e] = p]
  /\ cached' = IF e \in has THEN Condemned(Notified(e)) ELSE cached
  /\ UNCHANGED <<has, pos, scl>>

SetLocalPosition(e, p) ==
  /\ e \in has
  /\ p \in Position
  /\ pos' = [pos EXCEPT ![e] = p]
  /\ cached' = Condemned(Notified(e))
  /\ UNCHANGED <<up, has, scl>>

SetLocalScale(e, s) ==
  /\ e \in has
  /\ s \in Scale
  /\ scl' = [scl EXCEPT ![e] = s]
  /\ cached' = Condemned(Notified(e))
  /\ UNCHANGED <<up, has, pos>>

\* matrix() of a transform that needs an update; its recursive call is this step
\* taken by the parent before.
Update(e) ==
  /\ e \in has
  /\ cached[e] = Stale
  /\ HasParent(e) => cached[up[e]] # Stale
  /\ cached' = [cached EXCEPT ![e] =
                  IF HasParent(e) THEN Combine(cached[up[e]], Local(e)) ELSE Local(e)]
  /\ UNCHANGED <<up, has, pos, scl>>

\* setPosition goes through the inverse of matrix() of the parent, which has
\* brought it up to date.
SetPosition(e, p) ==
  /\ e \in has
  /\ HasParent(e) => cached[up[e]] # Stale
  /\ \E q \in Position :
       /\ p = IF HasParent(e)
                THEN cached[up[e]].shift + cached[up[e]].factor * q
                ELSE q
       /\ SetLocalPosition(e, q)

-----------------------------------------------------------------------------
\* The transforms from which e inherits: e and those above it, up to the first
\* ancestor without transform, in the state they are in now.
Global ==
  LET global[n \in 0..Cardinality(Entity)] == [e \in Entity |->
        IF n > 0 /\ HasParent(e) THEN Combine(global[n - 1][up[e]], Local(e)) ELSE Local(e)]
  IN  global[Cardinality(Entity)]

\* scale() multiplies along the same chain, without a cache.
GlobalScale(e) == Global[e].factor

\* setScale multiplies by the scale of the parent.
SetScale(e, s) ==
  SetLocalScale(e, IF HasParent(e) THEN s * GlobalScale(up[e]) ELSE s)

\* The global positions a game may ask for.
AnyPosition == 0..(MaxPosition * (1 + MaxScale + MaxScale * MaxScale))

Next ==
  \/ \E e \in Entity, p \in Position, s \in Scale : AddTransform(e, p, s)
  \/ \E e \in Entity : RemoveTransform(e) \/ Update(e)
  \/ \E e \in Entity, p \in Entity \cup {NoEntity} : SetParent(e, p)
  \/ \E e \in Entity, p \in Position : SetLocalPosition(e, p)
  \/ \E e \in Entity, s \in Scale : SetLocalScale(e, s) \/ SetScale(e, s)
  \/ \E e \in Entity, p \in AnyPosition : SetPosition(e, p)

Spec == Init /\ [][Next]_vars

-----------------------------------------------------------------------------
(***************************************************************************)
(* Properties.                                                             *)
(***************************************************************************)

\* A matrix that is not flagged was computed from the present values of its
\* transform and a parent's matrix that is not flagged either.
LocallyCoherent ==
  \A e \in has : cached[e] # Stale =>
    IF HasParent(e)
      THEN /\ cached[up[e]] # Stale
           /\ cached[e] = Combine(cached[up[e]], Local(e))
      ELSE cached[e] = Local(e)

\* matrix() returns "the global transformation matrix of this transform"
\* (AbstractTransform.hpp:49), the product of the local ones from the topmost
\* ancestor down, whatever was changed or reparented since it was last called.
MatrixIsGlobal == \A e \in has : cached[e] # Stale => cached[e] = Global[e]
=============================================================================

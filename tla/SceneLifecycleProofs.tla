------------------------ MODULE SceneLifecycleProofs ------------------------
(***************************************************************************)
(* Proofs about SceneLifecycle, for every set of addresses, every number   *)
(* of components per entity and every sequence of calls.                   *)
(***************************************************************************)
EXTENDS SceneLifecycle, FiniteSetTheorems, WellFoundedInduction, TLAPS

-----------------------------------------------------------------------------
(***************************************************************************)
(* Lemmas about the operators of the hierarchy.                            *)
(***************************************************************************)

\* Subtrees(S) contains S.
LEMMA SubtreesContain ==
  ASSUME NEW S \in SUBSET Entity
  PROVE  S \subseteq Subtrees(S)
BY DEF Subtrees

\* Subtrees(S) is the least set that contains S and the children of its members.
LEMMA SubtreesLeast ==
  ASSUME NEW S \in SUBSET Entity, NEW D \in SUBSET Entity,
         S \subseteq D, DownClosed(D)
  PROVE  Subtrees(S) \subseteq D
BY DEF Subtrees

\* Subtrees(S) contains the children of its members.
LEMMA SubtreesClosed ==
  ASSUME NEW S \in SUBSET Entity, children \in [Entity -> SUBSET Entity]
  PROVE  DownClosed(Subtrees(S))
<1> SUFFICES ASSUME NEW x \in Subtrees(S), NEW k \in children[x]
             PROVE  k \in Subtrees(S)
  BY DEF DownClosed
<1>1. x \in Entity /\ k \in Entity
  BY DEF Subtrees
<1>2. ASSUME NEW D \in SUBSET Entity, S \subseteq D, DownClosed(D)
      PROVE  k \in D
  <2>1. x \in D
    BY <1>2 DEF Subtrees
  <2>. QED
    BY <1>2, <2>1 DEF DownClosed
<1>. QED
  BY <1>1, <1>2 DEF Subtrees

\* Detaching preserves the types of the links.
LEMMA DetachedTypes ==
  ASSUME NEW S \in SUBSET Entity,
         parent \in [Entity -> Entity \cup {NoEntity}],
         children \in [Entity -> SUBSET Entity]
  PROVE  /\ DetachedParent(S) \in [Entity -> Entity \cup {NoEntity}]
         /\ DetachedChildren(S) \in [Entity -> SUBSET Entity]
<1>1. DetachedParent(S) \in [Entity -> Entity \cup {NoEntity}]
  BY DEF DetachedParent
<1>2. DetachedChildren(S) \in [Entity -> SUBSET Entity]
  BY DEF DetachedChildren
<1>. QED
  BY <1>1, <1>2

\* Destroying the components of a set of entities preserves their types.
LEMMA DestroyComponentsTypes ==
  ASSUME TypeOK, NEW S, DestroyComponents(S)
  PROVE  /\ owner' \in [Component -> Entity \cup {NoEntity}]
         /\ registry' \subseteq Component
         /\ first' \subseteq Component
BY DEF TypeOK, DestroyComponents

-----------------------------------------------------------------------------
(***************************************************************************)
(* Type correctness.                                                       *)
(***************************************************************************)

LEMMA ClientStepTypes == TypeOK /\ ClientStep => TypeOK'
<1> SUFFICES ASSUME TypeOK, ClientStep PROVE TypeOK'
  OBVIOUS
<1> USE ConstantsAssumption DEF TypeOK, Phases
<1>1. ASSUME NEW e \in Entity, CreateEntity(e) PROVE TypeOK'
  BY <1>1 DEF CreateEntity, componentVars, frameVars
<1>2. ASSUME NEW e \in Entity, DestroyLater(e) PROVE TypeOK'
  BY <1>2 DEF DestroyLater, componentVars, frameVars
<1>3. ASSUME NEW e \in Entity, UnparentChildren(e) PROVE TypeOK'
  <2>1. children[e] \in SUBSET Entity
    OBVIOUS
  <2>. QED
    BY <1>3, <2>1, DetachedTypes DEF UnparentChildren, componentVars, frameVars
<1>4. ASSUME NEW e \in Entity, NEW p \in Entity \cup {NoEntity}, SetParent(e, p)
      PROVE  TypeOK'
  <2>1. children' \in [Entity -> SUBSET Entity]
    <3>1. DetachedChildren({e}) \in [Entity -> SUBSET Entity]
      BY DetachedTypes
    <3>. QED
      BY <1>4, <3>1 DEF SetParent
  <2>. QED
    BY <1>4, <2>1 DEF SetParent, componentVars, frameVars
<1>5. ASSUME NEW e \in Entity, NEW on \in BOOLEAN, SetCrossScene(e, on) PROVE TypeOK'
  BY <1>5 DEF SetCrossScene, componentVars, frameVars
<1>6. ASSUME NEW c \in Component, RemoveComponent(c) PROVE TypeOK'
  BY <1>6 DEF RemoveComponent, entityVars, frameVars
<1>7. ASSUME NEW c \in Component, NEW e \in Entity, AddComponent(c, e) PROVE TypeOK'
  BY <1>7 DEF AddComponent, entityVars, frameVars
<1>8. ASSUME Clear PROVE TypeOK'
  BY <1>8, DestroyComponentsTypes DEF Clear, frameVars
<1>9. ASSUME ClearAllButCross PROVE TypeOK'
  BY <1>9, DestroyComponentsTypes DEF ClearAllButCross, frameVars
<1>. QED
  BY <1>1, <1>2, <1>3, <1>4, <1>5, <1>6, <1>7, <1>8, <1>9 DEF ClientStep

LEMMA FrameStepTypes == TypeOK /\ FrameStep => TypeOK'
<1> SUFFICES ASSUME TypeOK, FrameStep PROVE TypeOK'
  OBVIOUS
<1> USE ConstantsAssumption DEF TypeOK, Phases
<1>1. ASSUME StartFrame PROVE TypeOK'
  BY <1>1 DEF StartFrame, Members, entityVars, componentVars
<1>2. ASSUME NextList PROVE TypeOK'
  BY <1>2 DEF NextList, Members, entityVars, componentVars
<1>3. ASSUME NEW c \in Component, Visit(c) PROVE TypeOK'
  <2>1. firstRun' \in BOOLEAN
    <3>1. firstRun' = (c \in first) \/ firstRun' = firstRun
      BY <1>3, Zenon DEF Visit
    <3>2. (c \in first) \in BOOLEAN
      OBVIOUS
    <3>. QED
      BY <3>1, <3>2
  <2>. QED
    BY <1>3, <2>1 DEF Visit, entityVars, componentVars
<1>4. ASSUME EndCallback PROVE TypeOK'
  BY <1>4 DEF EndCallback, entityVars
<1>5. ASSUME MarkSubtrees PROVE TypeOK'
  BY <1>5 DEF MarkSubtrees, componentVars
<1>6. ASSUME NEW e \in Entity, Keep(e) PROVE TypeOK'
  BY <1>6 DEF Keep, entityVars, componentVars
<1>7. ASSUME NEW e \in Entity, Destroy(e) PROVE TypeOK'
  <2>1. {e} \cup children[e] \in SUBSET Entity
    OBVIOUS
  <2>2. /\ parent' \in [Entity -> Entity \cup {NoEntity}]
        /\ children' \in [Entity -> SUBSET Entity]
    BY <1>7, <2>1, DetachedTypes DEF Destroy
  <2>3. late' \subseteq alive'
    BY <1>7 DEF Destroy, MarkedByDestructors
  <2>. QED
    BY <1>7, <2>2, <2>3, DestroyComponentsTypes DEF Destroy
<1>8. ASSUME EndFrame PROVE TypeOK'
  BY <1>8 DEF EndFrame, entityVars, componentVars
<1>. QED
  BY <1>1, <1>2, <1>3, <1>4, <1>5, <1>6, <1>7, <1>8 DEF FrameStep

\* The state of the scene keeps its types: in particular only live entities
\* carry a flag (Entity.hpp, EntityFlags).
THEOREM TypeCorrect == Spec => []TypeOK
<1>1. Init => TypeOK
  <2> SUFFICES ASSUME Init PROVE TypeOK
    OBVIOUS
  <2>1. firstRun \in BOOLEAN /\ fault \in BOOLEAN
    BY Zenon DEF Init
  <2>2. list \in 0..LastList
    BY ConstantsAssumption, SMT DEF Init
  <2>. QED
    BY <2>1, <2>2, ConstantsAssumption DEF Init, TypeOK, Phases
<1>2. TypeOK /\ [Next]_vars => TypeOK'
  <2>1. TypeOK /\ Crash => TypeOK'
    BY DEF TypeOK, Crash, entityVars, componentVars, frameVars
  <2>2. TypeOK /\ UNCHANGED vars => TypeOK'
    BY DEF TypeOK, vars, entityVars, componentVars, frameVars
  <2>. QED
    BY <2>1, <2>2, ClientStepTypes, FrameStepTypes DEF Next
<1>. QED
  BY <1>1, <1>2, PTL DEF Spec

-----------------------------------------------------------------------------
(***************************************************************************)
(* The registries, whatever the game does.                                 *)
(***************************************************************************)

LEMMA DestroyComponentsRegistered ==
  ASSUME TypeOK, RegisteredIffAlive, NEW S \in SUBSET alive,
         alive' = alive \ S, DestroyComponents(S)
  PROVE  RegisteredIffAlive'
<1> SUFFICES ASSUME NEW c \in Component
             PROVE  /\ c \in registry' <=> owner'[c] # NoEntity
                    /\ owner'[c] \in alive' \cup {NoEntity}
  BY DEF RegisteredIffAlive
<1>1. NoEntity \notin S
  BY ConstantsAssumption DEF TypeOK
<1>2. owner'[c] = IF owner[c] \in S THEN NoEntity ELSE owner[c]
  BY DEF DestroyComponents
<1>3. c \in registry' <=> c \in registry /\ owner[c] \notin S
  BY DEF DestroyComponents, ComponentsOf
<1>. QED
  BY <1>1, <1>2, <1>3 DEF RegisteredIffAlive

\* Every path that creates or frees a component keeps the registries exact,
\* even when the game removes components during an update, makes cycles or
\* clears half a hierarchy (Behaviour.cpp, Scene.cpp:97-113, Entity.cpp:34-52).
THEOREM RegistriesExact == Spec => []RegisteredIffAlive
<1>1. Init => RegisteredIffAlive
  BY DEF Init, RegisteredIffAlive
<1>2. TypeOK /\ RegisteredIffAlive /\ [Next]_vars => RegisteredIffAlive'
  <2> SUFFICES ASSUME TypeOK, RegisteredIffAlive, [Next]_vars
               PROVE  RegisteredIffAlive'
    OBVIOUS
  <2>1. ASSUME UNCHANGED <<owner, registry>>, alive \subseteq alive'
        PROVE  RegisteredIffAlive'
    BY <2>1 DEF RegisteredIffAlive
  <2>2. ASSUME NEW c \in Component, RemoveComponent(c) PROVE RegisteredIffAlive'
    BY <2>2 DEF RegisteredIffAlive, RemoveComponent, TypeOK, entityVars
  <2>3. ASSUME NEW c \in Component, NEW e \in Entity, AddComponent(c, e)
        PROVE  RegisteredIffAlive'
    BY <2>3, ConstantsAssumption DEF RegisteredIffAlive, AddComponent, TypeOK, entityVars
  <2>4. ASSUME Clear PROVE RegisteredIffAlive'
    <3>1. alive' = alive \ alive
      BY <2>4 DEF Clear
    <3>. QED
      BY <3>1, <2>4, DestroyComponentsRegistered DEF Clear
  <2>5. ASSUME ClearAllButCross PROVE RegisteredIffAlive'
    <3>1. alive' = alive \ (alive \ cross)
      BY <2>5 DEF ClearAllButCross
    <3>2. DestroyComponents(alive \ cross)
      BY <2>5 DEF ClearAllButCross
    <3>. QED
      BY <3>1, <3>2, DestroyComponentsRegistered
  <2>6. ASSUME NEW e \in Entity, Destroy(e) PROVE RegisteredIffAlive'
    <3>1. {e} \in SUBSET alive /\ alive' = alive \ {e}
      BY <2>6 DEF Destroy, TypeOK
    <3>2. DestroyComponents({e})
      BY <2>6 DEF Destroy
    <3>. QED
      BY <3>1, <3>2, DestroyComponentsRegistered
  <2>7. ASSUME NEW e \in Entity,
               CreateEntity(e) \/ DestroyLater(e) \/ UnparentChildren(e)
        PROVE  RegisteredIffAlive'
    BY <2>1, <2>7 DEF CreateEntity, DestroyLater, UnparentChildren, componentVars
  <2>8. ASSUME NEW e \in Entity, NEW p \in Entity \cup {NoEntity}, SetParent(e, p)
        PROVE  RegisteredIffAlive'
    BY <2>1, <2>8 DEF SetParent, componentVars
  <2>9. ASSUME NEW e \in Entity, NEW on \in BOOLEAN, SetCrossScene(e, on)
        PROVE  RegisteredIffAlive'
    BY <2>1, <2>9 DEF SetCrossScene, componentVars
  <2>10. ASSUME StartFrame \/ NextList \/ EndFrame PROVE RegisteredIffAlive'
    BY <2>1, <2>10 DEF StartFrame, NextList, EndFrame, entityVars, componentVars
  <2>11. ASSUME NEW c \in Component, Visit(c) PROVE RegisteredIffAlive'
    BY <2>1, <2>11 DEF Visit, entityVars, componentVars
  <2>12. ASSUME EndCallback \/ MarkSubtrees PROVE RegisteredIffAlive'
    BY <2>1, <2>12 DEF EndCallback, MarkSubtrees, entityVars, componentVars
  <2>13. ASSUME NEW e \in Entity, Keep(e) PROVE RegisteredIffAlive'
    BY <2>1, <2>13 DEF Keep, entityVars, componentVars
  <2>14. ASSUME Crash \/ UNCHANGED vars PROVE RegisteredIffAlive'
    BY <2>1, <2>14 DEF Crash, vars, entityVars, componentVars
  <2>. QED
    BY <2>2, <2>3, <2>4, <2>5, <2>6, <2>7, <2>8, <2>9, <2>10, <2>11, <2>12, <2>13,
       <2>14 DEF Next, ClientStep, FrameStep
<1>. QED
  BY <1>1, <1>2, TypeCorrect, PTL DEF Spec

-----------------------------------------------------------------------------
(***************************************************************************)
(* The hierarchy, as long as a scene is not partially cleared across a     *)
(* link.                                                                   *)
(***************************************************************************)

\* Detaching any live entities leaves the links between live entities inverse.
LEMMA DetachingConsistent ==
  ASSUME TypeOK, HierarchyConsistent, NEW S \in SUBSET Entity, alive' = alive,
         parent' = DetachedParent(S), children' = DetachedChildren(S)
  PROVE  HierarchyConsistent'
<1> SUFFICES ASSUME NEW e \in alive
             PROVE  /\ parent'[e] # NoEntity => parent'[e] \in alive /\ e \in children'[parent'[e]]
                    /\ \A k \in children'[e] : k \in alive /\ parent'[k] = e
  BY DEF HierarchyConsistent
<1>0. e \in Entity
  BY DEF TypeOK
<1>1. ASSUME parent'[e] # NoEntity
      PROVE  parent'[e] \in alive /\ e \in children'[parent'[e]]
  <2>1. e \notin S /\ parent'[e] = parent[e]
    BY <1>0, <1>1 DEF DetachedParent
  <2>2. parent[e] \in alive /\ e \in children[parent[e]]
    BY <1>1, <2>1 DEF HierarchyConsistent
  <2>. QED
    BY <2>1, <2>2 DEF DetachedChildren, TypeOK
<1>2. ASSUME NEW k \in children'[e]
      PROVE  k \in alive /\ parent'[k] = e
  <2>1. k \in children[e] /\ ~(k \in S /\ parent[k] = e)
    BY <1>0, <1>2 DEF DetachedChildren
  <2>2. k \in alive /\ parent[k] = e
    BY <2>1 DEF HierarchyConsistent
  <2>. QED
    BY <2>1, <2>2 DEF DetachedParent, TypeOK
<1>. QED
  BY <1>1, <1>2

\* Detaching an entity and its children before deleting it leaves no link to it.
LEMMA DestroyConsistent ==
  ASSUME TypeOK, HierarchyConsistent, NEW e \in Entity, Destroy(e)
  PROVE  HierarchyConsistent'
<1> DEFINE S == {e} \cup children[e]
<1>1. /\ alive' = alive \ {e}
      /\ parent' = DetachedParent(S)
      /\ children' = DetachedChildren(S)
      /\ e \in alive
  BY DEF Destroy, TypeOK
<1> SUFFICES ASSUME NEW x \in alive \ {e}
             PROVE  /\ parent'[x] # NoEntity
                         => parent'[x] \in alive \ {e} /\ x \in children'[parent'[x]]
                    /\ \A k \in children'[x] : k \in alive \ {e} /\ parent'[k] = x
  BY <1>1 DEF HierarchyConsistent
<1>2. x \in Entity
  BY DEF TypeOK
<1>3. ASSUME parent'[x] # NoEntity
      PROVE  parent'[x] \in alive \ {e} /\ x \in children'[parent'[x]]
  <2>1. x \notin S /\ parent'[x] = parent[x]
    BY <1>1, <1>2, <1>3 DEF DetachedParent
  <2>2. parent[x] \in alive /\ x \in children[parent[x]]
    BY <1>3, <2>1 DEF HierarchyConsistent
  <2>3. parent[x] # e
    BY <2>1, <2>2
  <2>. QED
    BY <1>1, <2>1, <2>2, <2>3 DEF DetachedChildren, TypeOK
<1>4. ASSUME NEW k \in children'[x]
      PROVE  k \in alive \ {e} /\ parent'[k] = x
  <2>1. k \in children[x] /\ ~(k \in S /\ parent[k] = x)
    BY <1>1, <1>2, <1>4 DEF DetachedChildren
  <2>2. k \in alive /\ parent[k] = x
    BY <2>1 DEF HierarchyConsistent
  <2>3. k \notin S
    BY <2>1, <2>2
  <2>. QED
    BY <1>1, <2>2, <2>3 DEF DetachedParent, TypeOK
<1>. QED
  BY <1>3, <1>4

LEMMA SetParentConsistent ==
  ASSUME TypeOK, HierarchyConsistent,
         NEW e \in Entity, NEW p \in Entity \cup {NoEntity}, SetParent(e, p)
  PROVE  HierarchyConsistent'
<1>1. /\ alive' = alive /\ e \in alive /\ p \in alive \cup {NoEntity}
      /\ \A x \in Entity : parent'[x] = IF x = e THEN p ELSE parent[x]
      /\ \A x \in Entity : children'[x] = (children[x] \ {k \in {e} : parent[k] = x})
                                            \cup IF x = p THEN {e} ELSE {}
  BY DEF SetParent, TypeOK, DetachedChildren
<1> SUFFICES ASSUME NEW x \in alive
             PROVE  /\ parent'[x] # NoEntity => parent'[x] \in alive /\ x \in children'[parent'[x]]
                    /\ \A k \in children'[x] : k \in alive /\ parent'[k] = x
  BY <1>1 DEF HierarchyConsistent
<1>2. x \in Entity
  BY DEF TypeOK
<1>3. ASSUME parent'[x] # NoEntity
      PROVE  parent'[x] \in alive /\ x \in children'[parent'[x]]
  <2>1. CASE x = e
    BY <1>1, <1>2, <1>3, <2>1
  <2>2. CASE x # e
    <3>1. parent'[x] = parent[x]
      BY <1>1, <1>2, <2>2
    <3>2. parent[x] \in alive /\ x \in children[parent[x]]
      BY <1>3, <3>1 DEF HierarchyConsistent
    <3>3. parent[x] \in Entity
      BY <3>2 DEF TypeOK
    <3>. QED
      BY <1>1, <2>2, <3>1, <3>2, <3>3
  <2>. QED
    BY <2>1, <2>2
<1>4. ASSUME NEW k \in children'[x]
      PROVE  k \in alive /\ parent'[k] = x
  <2>1. CASE k = e
    <3>1. x = p
      <4>1. ASSUME x # p
            PROVE  FALSE
        <5>1. e \in children[x] /\ parent[e] # x
          BY <1>1, <1>2, <1>4, <2>1, <4>1
        <5>. QED
          BY <5>1 DEF HierarchyConsistent
      <4>. QED
        BY <4>1
    <3>. QED
      BY <1>1, <2>1, <3>1
  <2>2. CASE k # e
    <3>1. k \in children[x]
      BY <1>1, <1>2, <1>4, <2>2
    <3>2. k \in alive /\ parent[k] = x
      BY <3>1 DEF HierarchyConsistent
    <3>. QED
      BY <1>1, <2>2, <3>2 DEF TypeOK
  <2>. QED
    BY <2>1, <2>2
<1>. QED
  BY <1>3, <1>4

\* Every step keeps the hierarchy consistent when no link crosses the border
\* of a partial clear.
LEMMA HierarchyStep ==
  ASSUME "partialClear" \notin Client, TypeOK, HierarchyConsistent, [Next]_vars
  PROVE  HierarchyConsistent'
<1>1. ASSUME UNCHANGED <<alive, parent, children>>
      PROVE  HierarchyConsistent'
  BY <1>1 DEF HierarchyConsistent
<1>2. ASSUME NEW e \in Entity, CreateEntity(e) PROVE HierarchyConsistent'
  BY <1>2, ConstantsAssumption DEF HierarchyConsistent, CreateEntity, TypeOK
<1>3. ASSUME NEW e \in Entity, UnparentChildren(e) PROVE HierarchyConsistent'
  <2>1. children[e] \in SUBSET Entity
    BY DEF TypeOK
  <2>. QED
    BY <1>3, <2>1, DetachingConsistent DEF UnparentChildren
<1>4. ASSUME NEW e \in Entity, NEW p \in Entity \cup {NoEntity}, SetParent(e, p)
      PROVE  HierarchyConsistent'
  BY <1>4, SetParentConsistent
<1>5. ASSUME Clear PROVE HierarchyConsistent'
  BY <1>5 DEF Clear, HierarchyConsistent
<1>6. ASSUME ClearAllButCross PROVE HierarchyConsistent'
  <2>1. /\ alive' = alive \cap cross /\ parent' = parent /\ children' = children
        /\ CrossIsWhole
    BY <1>6 DEF ClearAllButCross
  <2>. QED
    BY <2>1 DEF HierarchyConsistent, CrossIsWhole, TypeOK
<1>7. ASSUME NEW e \in Entity, Destroy(e) PROVE HierarchyConsistent'
  BY <1>7, DestroyConsistent
<1>8. ASSUME NEW e \in Entity, DestroyLater(e) PROVE HierarchyConsistent'
  BY <1>1, <1>8 DEF DestroyLater
<1>9. ASSUME NEW e \in Entity, NEW on \in BOOLEAN, SetCrossScene(e, on)
      PROVE  HierarchyConsistent'
  BY <1>1, <1>9 DEF SetCrossScene
<1>10. ASSUME NEW c \in Component, RemoveComponent(c) \/ \E e \in Entity : AddComponent(c, e)
       PROVE  HierarchyConsistent'
  BY <1>1, <1>10 DEF RemoveComponent, AddComponent, entityVars
<1>11. ASSUME StartFrame \/ NextList \/ EndFrame PROVE HierarchyConsistent'
  BY <1>1, <1>11 DEF StartFrame, NextList, EndFrame, entityVars
<1>12. ASSUME NEW c \in Component, Visit(c) PROVE HierarchyConsistent'
  BY <1>1, <1>12 DEF Visit, entityVars
<1>13. ASSUME EndCallback \/ MarkSubtrees PROVE HierarchyConsistent'
  BY <1>1, <1>13 DEF EndCallback, MarkSubtrees, entityVars
<1>14. ASSUME NEW e \in Entity, Keep(e) PROVE HierarchyConsistent'
  BY <1>1, <1>14 DEF Keep, entityVars
<1>15. ASSUME Crash \/ UNCHANGED vars PROVE HierarchyConsistent'
  BY <1>1, <1>15 DEF Crash, vars, entityVars
<1>. QED
  BY <1>2, <1>3, <1>4, <1>5, <1>6, <1>7, <1>8, <1>9, <1>10, <1>11, <1>12, <1>13,
     <1>14, <1>15 DEF Next, ClientStep, FrameStep

\* Without a partial clear across a link, r_parent and m_children stay inverse
\* and never name a deleted entity, even when the game makes cycles, removes
\* components in callbacks or marks entities in onDestroy.
THEOREM HierarchyStaysConsistent ==
  ASSUME "partialClear" \notin Client
  PROVE  Spec => []HierarchyConsistent
<1>1. Init => HierarchyConsistent
  BY DEF Init, HierarchyConsistent
<1>2. TypeOK /\ HierarchyConsistent /\ [Next]_vars => HierarchyConsistent'
  BY HierarchyStep
<1>. QED
  BY <1>1, <1>2, TypeCorrect, PTL DEF Spec

-----------------------------------------------------------------------------
(***************************************************************************)
(* No use of a freed object.  The invariant NoDanglingUse is not inductive *)
(* by itself: it also needs that the hierarchy has no loop, that what is   *)
(* left of a list's copy and the behaviour on the stack are registered,    *)
(* and that they are empty when something else may free components.        *)
(***************************************************************************)

\* Every non-empty set of live entities has one without a child in the set.
NoLoop == \A D \in (SUBSET alive) \ {{}} : \E x \in D : children[x] \cap D = {}

\* While a frame updates its behaviours, all it will still touch is registered.
FrameRegistered ==
  /\ pending \subseteq registry
  /\ phase # "update" => pending = {} /\ running = NoComponent
  /\ running # NoComponent => running \in registry

SafeInv ==
  /\ TypeOK
  /\ RegisteredIffAlive
  /\ HierarchyConsistent
  /\ NoLoop
  /\ FrameRegistered
  /\ NoDanglingUse

\* The game takes none of the liberties that break the scene's pointers.
Disciplined == Client \cap {"remove", "cycle", "partialClear"} = {}

\* With consistent links between live entities nothing that is walked dangles.
LEMMA NothingDangles ==
  ASSUME TypeOK, HierarchyConsistent, NEW e \in alive
  PROVE  ~Dangling({e}) /\ ~Dangling(children[e]) /\ ~Dangling({e} \cup children[e])
<1>1. parent[e] \in alive \cup {NoEntity}
  BY DEF HierarchyConsistent
<1>2. \A k \in children[e] : k \in alive /\ parent[k] \in alive \cup {NoEntity}
  BY DEF HierarchyConsistent
<1>. QED
  BY <1>1, <1>2 DEF Dangling

\* The subtrees of live entities are made of live entities, and finite walks.
LEMMA SubtreesAlive ==
  ASSUME TypeOK, HierarchyConsistent, NEW S \in SUBSET alive
  PROVE  Subtrees(S) \subseteq alive
<1>1. DownClosed(alive)
  BY DEF DownClosed, HierarchyConsistent
<1>. QED
  BY <1>1, SubtreesLeast DEF TypeOK

LEMMA NoLoopNotEndless ==
  ASSUME TypeOK, HierarchyConsistent, NoLoop, NEW S \in SUBSET alive
  PROVE  ~Endless(S)
BY SubtreesAlive DEF Endless, NoLoop

LEMMA SafeNoCrash ==
  ASSUME SafeInv, "cycle" \notin Client
  PROVE  ~Crash
<1> USE DEF SafeInv
<1>1. ~ParentChangedCrash /\ ~LinkCrash
  BY NothingDangles DEF ParentChangedCrash, LinkCrash, TypeOK
<1>2. ~UpdateCrash
  BY DEF UpdateCrash, FrameRegistered, RegisteredIffAlive, TypeOK
<1>3. ~MarkCrash
  BY SubtreesAlive, NoLoopNotEndless DEF MarkCrash, TypeOK
<1>. QED
  BY <1>1, <1>2, <1>3 DEF Crash

\* Removing entities and links makes no loop.
LEMMA NoLoopShrinks ==
  ASSUME TypeOK, NoLoop, alive' \subseteq alive,
         \A x \in alive' : children'[x] \subseteq children[x]
  PROVE  NoLoop'
<1> SUFFICES ASSUME NEW D \in (SUBSET alive') \ {{}}
             PROVE  \E x \in D : children'[x] \cap D = {}
  BY DEF NoLoop
<1>1. PICK x \in D : children[x] \cap D = {}
  BY DEF NoLoop
<1>. QED
  BY <1>1

\* Hanging an entity under one that is not in its subtree makes no loop.
LEMMA NoLoopSetParent ==
  ASSUME TypeOK, NoLoop, "cycle" \notin Client,
         NEW e \in Entity, NEW p \in Entity \cup {NoEntity}, SetParent(e, p)
  PROVE  NoLoop'
<1> DEFINE T == Subtrees({e})
<1>1. /\ alive' = alive /\ p \notin T
      /\ \A x \in Entity : children'[x] \subseteq children[x] \cup IF x = p THEN {e} ELSE {}
  BY DEF SetParent, TypeOK, DetachedChildren
<1>2. e \in T /\ DownClosed(T)
  BY SubtreesContain, SubtreesClosed DEF TypeOK
<1> SUFFICES ASSUME NEW D \in (SUBSET alive) \ {{}},
                    \A x \in D : children'[x] \cap D # {}
             PROVE  FALSE
  BY <1>1 DEF NoLoop
<1>3. D \cap T = {}
  <2> SUFFICES ASSUME D \cap T # {} PROVE FALSE
    OBVIOUS
  <2>1. ASSUME NEW x \in D \cap T PROVE children[x] \cap (D \cap T) # {}
    <3>1. x \in Entity /\ x # p
      BY <1>1, <2>1 DEF TypeOK
    <3>2. children'[x] \subseteq children[x]
      BY <1>1, <3>1
    <3>3. children[x] \subseteq T
      BY <1>2, <2>1 DEF DownClosed
    <3>. QED
      BY <2>1, <3>2, <3>3
  <2>2. D \cap T \in (SUBSET alive) \ {{}}
    OBVIOUS
  <2>. QED
    BY <2>1, <2>2 DEF NoLoop
<1>4. ASSUME NEW x \in D PROVE children[x] \cap D # {}
  <2>1. children'[x] \subseteq children[x] \cup {e}
    BY <1>1 DEF TypeOK
  <2>2. e \notin D
    BY <1>2, <1>3
  <2>. QED
    BY <1>4, <2>1, <2>2
<1>. QED
  BY <1>4 DEF NoLoop

LEMMA NoLoopStep ==
  ASSUME TypeOK, NoLoop, "cycle" \notin Client, [Next]_vars
  PROVE  NoLoop'
<1>1. ASSUME UNCHANGED <<alive, children>> PROVE NoLoop'
  BY <1>1 DEF NoLoop
<1>2. ASSUME NEW e \in Entity, CreateEntity(e) PROVE NoLoop'
  <2> SUFFICES ASSUME NEW D \in (SUBSET (alive \cup {e})) \ {{}}
               PROVE  \E x \in D : children'[x] \cap D = {}
    BY <1>2 DEF CreateEntity, NoLoop
  <2>1. CASE e \in D
    BY <1>2, <2>1 DEF CreateEntity, TypeOK
  <2>2. CASE e \notin D
    <3>1. D \in (SUBSET alive) \ {{}} /\ \A x \in D : children'[x] = children[x]
      BY <1>2, <2>2 DEF CreateEntity, TypeOK
    <3>. QED
      BY <3>1 DEF NoLoop
  <2>. QED
    BY <2>1, <2>2
<1>3. ASSUME NEW e \in Entity, UnparentChildren(e) PROVE NoLoop'
  <2>1. alive' \subseteq alive /\ \A x \in alive' : children'[x] \subseteq children[x]
    BY <1>3 DEF UnparentChildren, DetachedChildren, TypeOK
  <2>. QED
    BY <2>1, NoLoopShrinks
<1>4. ASSUME NEW e \in Entity, NEW p \in Entity \cup {NoEntity}, SetParent(e, p)
      PROVE  NoLoop'
  BY <1>4, NoLoopSetParent
<1>5. ASSUME Clear \/ ClearAllButCross PROVE NoLoop'
  <2>1. alive' \subseteq alive /\ \A x \in alive' : children'[x] \subseteq children[x]
    BY <1>5 DEF Clear, ClearAllButCross
  <2>. QED
    BY <2>1, NoLoopShrinks
<1>6. ASSUME NEW e \in Entity, Destroy(e) PROVE NoLoop'
  <2>1. alive' \subseteq alive /\ \A x \in alive' : children'[x] \subseteq children[x]
    BY <1>6 DEF Destroy, DetachedChildren, TypeOK
  <2>. QED
    BY <2>1, NoLoopShrinks
<1>7. ASSUME NEW e \in Entity, DestroyLater(e) \/ \E on \in BOOLEAN : SetCrossScene(e, on)
      PROVE  NoLoop'
  BY <1>1, <1>7 DEF DestroyLater, SetCrossScene
<1>8. ASSUME NEW c \in Component,
             RemoveComponent(c) \/ Visit(c) \/ \E e \in Entity : AddComponent(c, e)
      PROVE  NoLoop'
  BY <1>1, <1>8 DEF RemoveComponent, AddComponent, Visit, entityVars
<1>9. ASSUME StartFrame \/ NextList \/ EndFrame \/ EndCallback \/ MarkSubtrees PROVE NoLoop'
  BY <1>1, <1>9 DEF StartFrame, NextList, EndFrame, EndCallback, MarkSubtrees, entityVars
<1>10. ASSUME NEW e \in Entity, Keep(e) PROVE NoLoop'
  BY <1>1, <1>10 DEF Keep, entityVars
<1>11. ASSUME Crash \/ UNCHANGED vars PROVE NoLoop'
  BY <1>1, <1>11 DEF Crash, vars, entityVars
<1>. QED
  BY <1>2, <1>3, <1>4, <1>5, <1>6, <1>7, <1>8, <1>9, <1>10, <1>11
     DEF Next, ClientStep, FrameStep

LEMMA FrameRegisteredStep ==
  ASSUME TypeOK, FrameRegistered, "remove" \notin Client, [Next]_vars
  PROVE  FrameRegistered'
<1> USE DEF FrameRegistered
<1>1. ASSUME UNCHANGED frameVars, registry \subseteq registry' PROVE FrameRegistered'
  BY <1>1 DEF frameVars
<1>2. ASSUME NEW c \in Component, RemoveComponent(c) PROVE FrameRegistered'
  <2>1. phase = "idle"
    BY <1>2 DEF RemoveComponent
  <2>. QED
    BY <1>2, <2>1 DEF RemoveComponent, frameVars
<1>3. ASSUME Clear \/ ClearAllButCross PROVE FrameRegistered'
  BY <1>3 DEF Clear, ClearAllButCross, frameVars
<1>4. ASSUME NEW e \in Entity, Destroy(e) PROVE FrameRegistered'
  BY <1>4 DEF Destroy
<1>5. ASSUME StartFrame PROVE FrameRegistered'
  BY <1>5 DEF StartFrame, Members, componentVars
<1>6. ASSUME NextList PROVE FrameRegistered'
  BY <1>6 DEF NextList, Members, componentVars
<1>7. ASSUME NEW c \in Component, Visit(c) PROVE FrameRegistered'
  BY <1>7 DEF Visit, componentVars
<1>8. ASSUME EndCallback PROVE FrameRegistered'
  BY <1>8 DEF EndCallback
<1>9. ASSUME MarkSubtrees \/ EndFrame PROVE FrameRegistered'
  BY <1>9 DEF MarkSubtrees, EndFrame, componentVars
<1>10. ASSUME NEW e \in Entity, Keep(e) PROVE FrameRegistered'
  BY <1>10 DEF Keep, componentVars
<1>11. ASSUME NEW e \in Entity,
              CreateEntity(e) \/ DestroyLater(e) \/ UnparentChildren(e)
       PROVE  FrameRegistered'
  BY <1>1, <1>11 DEF CreateEntity, DestroyLater, UnparentChildren, componentVars
<1>12. ASSUME NEW e \in Entity, \E p \in Entity \cup {NoEntity} : SetParent(e, p)
       PROVE  FrameRegistered'
  BY <1>1, <1>12 DEF SetParent, componentVars
<1>13. ASSUME NEW e \in Entity, \E on \in BOOLEAN : SetCrossScene(e, on)
       PROVE  FrameRegistered'
  BY <1>1, <1>13 DEF SetCrossScene, componentVars
<1>14. ASSUME NEW c \in Component, \E e \in Entity : AddComponent(c, e)
       PROVE  FrameRegistered'
  BY <1>1, <1>14 DEF AddComponent
<1>15. ASSUME Crash \/ UNCHANGED vars PROVE FrameRegistered'
  BY <1>1, <1>15 DEF Crash, vars, componentVars
<1>. QED
  BY <1>2, <1>3, <1>4, <1>5, <1>6, <1>7, <1>8, <1>9, <1>10, <1>11, <1>12, <1>13,
     <1>14, <1>15 DEF Next, ClientStep, FrameStep

\* Only a crash raises the fault.
LEMMA FaultOnlyByCrash ==
  ASSUME [Next]_vars, ~Crash
  PROVE  fault' = fault
BY DEF Next, ClientStep, FrameStep, vars, CreateEntity, AddComponent, RemoveComponent,
       DestroyLater, SetParent, UnparentChildren, SetCrossScene, Clear, ClearAllButCross,
       StartFrame, NextList, Visit, EndCallback, MarkSubtrees, Keep, Destroy, EndFrame

\* A game that neither removes components in callbacks nor clears across a link
\* leaves nothing freed in what the scene still has to go through, even with cycles
\* and with entities marked by destructors (ComponentList.hpp:54-67,
\* Scene.cpp:118-188).
THEOREM NothingFreedIsAhead ==
  ASSUME "remove" \notin Client, "partialClear" \notin Client
  PROVE  Spec => []NothingDanglesAhead
<1>1. Init => FrameRegistered
  BY DEF Init, FrameRegistered
<1>2. TypeOK /\ FrameRegistered /\ [Next]_vars => FrameRegistered'
  BY FrameRegisteredStep
<1>3. TypeOK /\ RegisteredIffAlive /\ HierarchyConsistent /\ FrameRegistered
        => NothingDanglesAhead
  <2> SUFFICES ASSUME TypeOK, RegisteredIffAlive, HierarchyConsistent, FrameRegistered
               PROVE  NothingDanglesAhead
    OBVIOUS
  <2>1. \A e \in alive : ~Dangling({e} \cup children[e])
    BY NothingDangles
  <2>2. \A c \in registry : c \in Component /\ owner[c] # NoEntity
    BY DEF RegisteredIffAlive, TypeOK
  <2>. QED
    BY <2>1, <2>2 DEF NothingDanglesAhead, FrameRegistered
<1>4. Spec => []HierarchyConsistent
  BY HierarchyStaysConsistent
<1>. QED
  BY <1>1, <1>2, <1>3, <1>4, TypeCorrect, RegistriesExact, PTL DEF Spec

\* The inductive invariant of a disciplined game.
LEMMA SafeInvariant ==
  ASSUME Disciplined
  PROVE  Spec => []SafeInv
<1>0. "remove" \notin Client /\ "cycle" \notin Client /\ "partialClear" \notin Client
  BY DEF Disciplined
<1>1. Init => NoLoop /\ FrameRegistered /\ NoDanglingUse
  BY DEF Init, NoLoop, FrameRegistered, NoDanglingUse
<1>2. /\ TypeOK /\ RegisteredIffAlive /\ HierarchyConsistent
      /\ NoLoop /\ FrameRegistered /\ NoDanglingUse
      /\ [Next]_vars
      => NoLoop' /\ FrameRegistered' /\ NoDanglingUse'
  <2> SUFFICES ASSUME TypeOK, RegisteredIffAlive, HierarchyConsistent,
                      NoLoop, FrameRegistered, NoDanglingUse, [Next]_vars
               PROVE  NoLoop' /\ FrameRegistered' /\ NoDanglingUse'
    OBVIOUS
  <2>1. ~Crash
    BY <1>0, SafeNoCrash DEF SafeInv
  <2>2. NoDanglingUse'
    BY <2>1, FaultOnlyByCrash DEF NoDanglingUse
  <2>. QED
    BY <1>0, <2>2, NoLoopStep, FrameRegisteredStep
<1>3. Spec => []HierarchyConsistent
  BY <1>0, HierarchyStaysConsistent
<1>. QED
  BY <1>1, <1>2, <1>3, TypeCorrect, RegistriesExact, PTL DEF Spec, SafeInv

\* A disciplined game never makes the framework use a freed object: deferred
\* destruction, copies of the lists and unregistration on destruction are enough
\* together (Scene.cpp:118-188, ComponentList.hpp:54-67), and the recursion of
\* propagateDestroyLate ends.
THEOREM DisciplinedIsSafe ==
  ASSUME Disciplined
  PROVE  Spec => []NoDanglingUse
<1>1. SafeInv => NoDanglingUse
  BY DEF SafeInv
<1>. QED
  BY <1>1, SafeInvariant, PTL

-----------------------------------------------------------------------------
(***************************************************************************)
(* Children are destroyed with their parent.                               *)
(***************************************************************************)

\* During the destruction pass the marked entities are closed under children.
LateClosed == phase = "destroy" => DownClosed(late)

LEMMA LateClosedStep ==
  ASSUME SafeInv, LateClosed, "lateInDtor" \notin Client, [Next]_vars
  PROVE  LateClosed'
<1> USE DEF SafeInv
<1>1. ASSUME phase' # "destroy" PROVE LateClosed'
  BY <1>1 DEF LateClosed
<1>2. ASSUME UNCHANGED <<children, late>>, phase' = phase PROVE LateClosed'
  BY <1>2 DEF LateClosed, DownClosed
<1>3. ASSUME MarkSubtrees PROVE LateClosed'
  <2>1. DownClosed(Subtrees(late))
    BY SubtreesClosed DEF TypeOK
  <2>. QED
    BY <1>3, <2>1 DEF MarkSubtrees, LateClosed, DownClosed
<1>4. ASSUME NEW e \in Entity, Destroy(e) PROVE LateClosed'
  <2>1. /\ phase = "destroy" /\ late' = late \ {e} /\ e \in alive
        /\ \A x \in Entity :
             children'[x] = children[x] \ {k \in {e} \cup children[e] : parent[k] = x}
    BY <1>4 DEF Destroy, MarkedByDestructors, DetachedChildren, TypeOK
  <2>2. ASSUME NEW x \in late', NEW k \in children'[x]
        PROVE  k \in late'
    <3>1. x \in Entity /\ x \in alive /\ x \in late
      BY <2>1 DEF TypeOK
    <3>2. k \in children[x] /\ ~(k = e /\ parent[e] = x)
      BY <2>1, <2>2, <3>1
    <3>3. k \in late /\ parent[k] = x
      BY <2>1, <3>1, <3>2 DEF LateClosed, DownClosed, HierarchyConsistent
    <3>. QED
      BY <2>1, <3>2, <3>3
  <2>. QED
    BY <2>2 DEF LateClosed, DownClosed
<1>5. ASSUME ClientStep PROVE LateClosed'
  <2>1. phase # "destroy" /\ phase' = phase
    BY <1>5 DEF ClientStep, ClientTurn, FrameRegistered, CreateEntity, AddComponent,
       RemoveComponent, DestroyLater, SetParent, UnparentChildren, SetCrossScene, Clear,
       ClearAllButCross, frameVars
  <2>. QED
    BY <1>1, <2>1
<1>6. ASSUME StartFrame \/ NextList \/ EndFrame \/ EndCallback PROVE LateClosed'
  BY <1>1, <1>2, <1>6
     DEF StartFrame, NextList, EndFrame, EndCallback, entityVars, FrameRegistered
<1>7. ASSUME NEW c \in Component, Visit(c) PROVE LateClosed'
  BY <1>2, <1>7 DEF Visit, entityVars
<1>8. ASSUME NEW e \in Entity, Keep(e) PROVE LateClosed'
  BY <1>2, <1>8 DEF Keep, entityVars
<1>9. ASSUME Crash \/ UNCHANGED vars PROVE LateClosed'
  BY <1>2, <1>9 DEF Crash, vars, entityVars, frameVars
<1>. QED
  BY <1>3, <1>4, <1>5, <1>6, <1>7, <1>8, <1>9 DEF Next, FrameStep

\* Destroying an entity takes all its children with it in the same pass, at every
\* depth, when onDestroy callbacks mark nothing (Entity.hpp:70, Scene.cpp:142-175).
THEOREM ChildrenGoWithTheirParent ==
  ASSUME Disciplined, "lateInDtor" \notin Client
  PROVE  Spec => DestroyTakesChildren
<1>1. Init => LateClosed
  BY DEF Init, LateClosed
<1>2. SafeInv /\ LateClosed /\ [Next]_vars => LateClosed'
  BY LateClosedStep
<1>3. SafeInv /\ LateClosed /\ [Next]_vars
      => [\A e \in alive \ alive' : phase = "destroy" => children[e] \subseteq late']_vars
  <2> SUFFICES ASSUME SafeInv, LateClosed, [Next]_vars, NEW e \in alive \ alive',
                      phase = "destroy"
               PROVE  children[e] \subseteq late'
    OBVIOUS
  <2>1. ~ClientStep
    BY DEF SafeInv, FrameRegistered, ClientStep, ClientTurn, CreateEntity, AddComponent,
       RemoveComponent, DestroyLater, SetParent, UnparentChildren, SetCrossScene, Clear,
       ClearAllButCross
  <2>2. PICK d \in Entity : Destroy(d)
    BY <2>1 DEF Next, FrameStep, StartFrame, NextList, Visit, EndCallback, MarkSubtrees,
       Keep, EndFrame, Crash, vars, entityVars
  <2>3. e = d /\ e \in late /\ late' = late \ {e}
    BY <2>2 DEF Destroy, MarkedByDestructors
  <2>4. children[e] \subseteq late
    BY <2>3 DEF LateClosed, DownClosed
  <2>5. e \notin children[e]
    <3>1. {e} \in (SUBSET alive) \ {{}}
      OBVIOUS
    <3>. QED
      BY <3>1 DEF SafeInv, NoLoop
  <2>. QED
    BY <2>3, <2>4, <2>5
<1>. QED
  BY <1>1, <1>2, <1>3, SafeInvariant, PTL DEF Spec, DestroyTakesChildren

-----------------------------------------------------------------------------
(***************************************************************************)
(* What is doomed, seen from the parents.                                  *)
(***************************************************************************)

\* A set of naturals that is not empty has a least member.
LEMMA LeastElement ==
  ASSUME NEW T \in SUBSET Nat, T # {}
  PROVE  \E n \in T : \A y \in T : n <= y
<1>1. IsWellFoundedOn(OpToRel(<, Nat), Nat)
  BY NatLessThanWellFounded
<1>2. PICK n \in T : \A y \in Nat : <<y, n>> \in OpToRel(<, Nat) => y \notin T
  BY <1>1, WFMin
<1>3. \A y \in T : ~(y < n)
  BY <1>2 DEF OpToRel
<1> QED BY <1>3

\* f is the chain of x and its ancestors, n links long, null after the topmost.
IsChain(f, x, n) ==
  f = [i \in 0..n |->
         IF i = 0 THEN x ELSE IF f[i - 1] = NoEntity THEN NoEntity ELSE parent[f[i - 1]]]

\* The entity n links above x.
Above(x, n) == LET f == CHOOSE f : IsChain(f, x, n) IN f[n]

LEMMA ChainExists ==
  ASSUME NEW x, NEW n \in Nat
  PROVE  \E f : IsChain(f, x, n)
<1> DEFINE T == {m \in Nat : ~\E f : IsChain(f, x, m)}
<1> SUFFICES ASSUME T # {} PROVE FALSE
  OBVIOUS
<1>1. PICK m \in T : \A y \in T : m <= y
  <2>1. T \subseteq Nat
    OBVIOUS
  <2> HIDE DEF T
  <2> QED BY <2>1, LeastElement
<1>2. CASE m = 0
  <2> DEFINE f == [i \in 0..0 |-> x]
  <2>1. \A i \in 0..0 : i = 0
    OBVIOUS
  <2>2. IsChain(f, x, 0)
    BY <2>1 DEF IsChain
  <2> QED BY <1>2, <2>2
<1>3. CASE m # 0
  <2>1. m - 1 \in Nat /\ m - 1 \notin T
    BY <1>1, <1>3
  <2>2. PICK f : IsChain(f, x, m - 1)
    BY <2>1
  <2> DEFINE up == IF f[m - 1] = NoEntity THEN NoEntity ELSE parent[f[m - 1]]
             h == [i \in 0..m |-> IF i = m THEN up ELSE f[i]]
  <2>3. \A i \in 0..m - 1 : f[i] =
          IF i = 0 THEN x ELSE IF f[i - 1] = NoEntity THEN NoEntity ELSE parent[f[i - 1]]
    BY <2>2 DEF IsChain
  <2>4. \A i \in 0..m : h[i] =
          IF i = 0 THEN x ELSE IF h[i - 1] = NoEntity THEN NoEntity ELSE parent[h[i - 1]]
    <3> SUFFICES ASSUME NEW i \in 0..m
                 PROVE  h[i] = IF i = 0 THEN x
                               ELSE IF h[i - 1] = NoEntity THEN NoEntity ELSE parent[h[i - 1]]
      OBVIOUS
    <3>1. i # 0 => i - 1 \in 0..m /\ h[i - 1] = f[i - 1]
      OBVIOUS
    <3>2. CASE i = m
      BY <1>3, <3>1, <3>2
    <3>3. CASE i # m
      <4>1. i \in 0..m - 1 /\ h[i] = f[i]
        BY <3>3
      <4> QED BY <2>3, <3>1, <4>1
    <3> QED BY <3>2, <3>3
  <2>5. h = [i \in 0..m |-> h[i]]
    OBVIOUS
  <2> HIDE DEF h
  <2>6. IsChain(h, x, m)
    BY <2>4, <2>5 DEF IsChain
  <2> QED BY <1>1, <2>6
<1> QED BY <1>2, <1>3

\* Two chains from the same entity agree as far as both go.
LEMMA ChainUnique ==
  ASSUME NEW x, NEW n \in Nat, NEW m \in Nat, NEW f, NEW h,
         IsChain(f, x, n), IsChain(h, x, m)
  PROVE  \A i \in Nat : i <= n /\ i <= m => f[i] = h[i]
<1> DEFINE T == {i \in Nat : i <= n /\ i <= m /\ f[i] # h[i]}
<1> SUFFICES ASSUME T # {} PROVE FALSE
  OBVIOUS
<1>1. PICK k \in T : \A y \in T : k <= y
  <2>1. T \subseteq Nat
    OBVIOUS
  <2> HIDE DEF T
  <2> QED BY <2>1, LeastElement
<1>2. k \in Nat /\ k <= n /\ k <= m /\ f[k] # h[k]
  BY <1>1
<1>3. /\ f[k] = IF k = 0 THEN x ELSE IF f[k - 1] = NoEntity THEN NoEntity ELSE parent[f[k - 1]]
      /\ h[k] = IF k = 0 THEN x ELSE IF h[k - 1] = NoEntity THEN NoEntity ELSE parent[h[k - 1]]
  <2>1. k \in 0..n /\ k \in 0..m
    BY <1>2
  <2> QED BY <2>1 DEF IsChain
<1>4. k # 0
  BY <1>2, <1>3
<1>5. k - 1 \in Nat /\ k - 1 <= n /\ k - 1 <= m /\ k - 1 \notin T
  BY <1>1, <1>2, <1>4
<1>6. f[k - 1] = h[k - 1]
  BY <1>5
<1> QED BY <1>2, <1>3, <1>6

\* How Above climbs.
LEMMA AboveStep ==
  ASSUME NEW x, NEW n \in Nat
  PROVE  /\ Above(x, 0) = x
         /\ Above(x, n + 1) =
              IF Above(x, n) = NoEntity THEN NoEntity ELSE parent[Above(x, n)]
<1> DEFINE F(k) == CHOOSE f : IsChain(f, x, k)
<1>1. \A k \in Nat : IsChain(F(k), x, k)
  BY ChainExists
<1>2. \A k \in Nat : Above(x, k) = F(k)[k]
  BY DEF Above
<1> HIDE DEF F
<1>3. F(0)[0] = x
  BY <1>1 DEF IsChain
<1>4. n + 1 \in Nat /\ n + 1 \in 0..n + 1 /\ (n + 1) - 1 = n /\ n + 1 # 0
  OBVIOUS
<1>5. F(n + 1)[n + 1] =
        IF F(n + 1)[n] = NoEntity THEN NoEntity ELSE parent[F(n + 1)[n]]
  <2>1. IsChain(F(n + 1), x, n + 1)
    BY <1>1, <1>4
  <2> DEFINE f == F(n + 1)
  <2>2. IsChain(f, x, n + 1)
    BY <2>1
  <2> HIDE DEF f
  <2>3. f[n + 1] = IF f[n] = NoEntity THEN NoEntity ELSE parent[f[n]]
    BY <1>4, <2>2 DEF IsChain
  <2> QED BY <2>3 DEF f
<1>6. F(n + 1)[n] = F(n)[n]
  BY <1>1, <1>4, ChainUnique
<1> QED BY <1>2, <1>3, <1>4, <1>5, <1>6

\* Climbing n + 1 links is climbing n links from the parent.
LEMMA AboveParent ==
  ASSUME NEW x, x # NoEntity, NEW n \in Nat
  PROVE  Above(x, n + 1) = Above(parent[x], n)
<1> DEFINE T == {k \in Nat : Above(x, k + 1) # Above(parent[x], k)}
<1> SUFFICES ASSUME T # {} PROVE FALSE
  OBVIOUS
<1>1. PICK k \in T : \A y \in T : k <= y
  <2>1. T \subseteq Nat
    OBVIOUS
  <2> HIDE DEF T
  <2> QED BY <2>1, LeastElement
<1>2. k \in Nat /\ Above(x, k + 1) # Above(parent[x], k)
  BY <1>1
<1>3. Above(x, 0) = x /\ Above(parent[x], 0) = parent[x]
  BY AboveStep
<1>4. Above(x, 0 + 1) = parent[x]
  BY <1>3, AboveStep
<1>5. k # 0
  BY <1>2, <1>3, <1>4
<1>6. k - 1 \in Nat /\ Above(x, (k - 1) + 1) = Above(parent[x], k - 1)
  BY <1>1, <1>2, <1>5
<1>7. Above(x, k) = Above(parent[x], k - 1)
  BY <1>2, <1>6
<1>8. Above(x, k + 1) = IF Above(x, k) = NoEntity THEN NoEntity ELSE parent[Above(x, k)]
  BY <1>2, AboveStep
<1>9. Above(parent[x], (k - 1) + 1) =
        IF Above(parent[x], k - 1) = NoEntity THEN NoEntity
        ELSE parent[Above(parent[x], k - 1)]
  BY <1>6, AboveStep
<1> QED BY <1>2, <1>7, <1>8, <1>9

\* There is nothing above null.
LEMMA AboveNull ==
  ASSUME NEW n \in Nat
  PROVE  Above(NoEntity, n) = NoEntity
<1> DEFINE T == {k \in Nat : Above(NoEntity, k) # NoEntity}
<1> SUFFICES ASSUME T # {} PROVE FALSE
  OBVIOUS
<1>1. PICK k \in T : \A y \in T : k <= y
  <2>1. T \subseteq Nat
    OBVIOUS
  <2> HIDE DEF T
  <2> QED BY <2>1, LeastElement
<1>2. k \in Nat /\ Above(NoEntity, k) # NoEntity
  BY <1>1
<1>3. k # 0
  BY <1>2, AboveStep
<1>4. k - 1 \in Nat /\ k = (k - 1) + 1 /\ Above(NoEntity, k - 1) = NoEntity
  BY <1>1, <1>2, <1>3
<1> QED BY <1>2, <1>4, AboveStep

\* The live entities at most n links under one of late.
Under(n) == {x \in alive : \E i \in 0..n : Above(x, i) \in late}

LEMMA UnderAncestorIsUnder ==
  UnderAncestor(late) = Under(Cardinality(Entity))
BY DEF UnderAncestor, Under, Above, IsChain

LEMMA UnderZero ==
  ASSUME TypeOK
  PROVE  Under(0) = late
<1>1. \A x : Above(x, 0) = x
  BY AboveStep
<1>2. \A i \in 0..0 : i = 0
  OBVIOUS
<1>3. 0 \in 0..0
  OBVIOUS
<1> QED BY <1>1, <1>2, <1>3 DEF Under, TypeOK

\* One more link down adds the children.
LEMMA UnderStep ==
  ASSUME TypeOK, HierarchyConsistent, NEW n \in Nat
  PROVE  Under(n + 1) = Under(n) \cup {k \in alive : parent[k] \in Under(n)}
<1>1. ASSUME NEW x \in Under(n + 1), x \notin Under(n)
      PROVE  x \in alive /\ parent[x] \in Under(n)
  <2>1. PICK i \in 0..n + 1 : Above(x, i) \in late
    BY <1>1 DEF Under
  <2>2. x \in alive /\ x \in Entity /\ x # NoEntity
    BY <1>1, ConstantsAssumption DEF Under, TypeOK
  <2>3. i = n + 1
    <3>1. i \notin 0..n
      BY <1>1, <2>1, <2>2 DEF Under
    <3> QED BY <3>1
  <2>4. Above(parent[x], n) \in late
    BY <2>1, <2>2, <2>3, AboveParent
  <2>5. parent[x] # NoEntity
    <3> SUFFICES ASSUME parent[x] = NoEntity PROVE FALSE
      OBVIOUS
    <3>1. Above(NoEntity, n) \in late
      BY <2>4
    <3> QED BY <3>1, AboveNull, ConstantsAssumption DEF TypeOK
  <2>6. parent[x] \in alive
    BY <2>2, <2>5 DEF HierarchyConsistent
  <2>7. n \in 0..n
    OBVIOUS
  <2> QED BY <2>2, <2>4, <2>6, <2>7 DEF Under
<1>2. Under(n) \subseteq Under(n + 1)
  <2>1. \A i \in 0..n : i \in 0..n + 1
    OBVIOUS
  <2> QED BY <2>1 DEF Under
<1>3. ASSUME NEW k \in alive, parent[k] \in Under(n)
      PROVE  k \in Under(n + 1)
  <2>1. PICK i \in 0..n : Above(parent[k], i) \in late
    BY <1>3 DEF Under
  <2>2. k # NoEntity
    BY ConstantsAssumption DEF TypeOK
  <2>3. Above(k, i + 1) \in late
    BY <2>1, <2>2, AboveParent
  <2>4. i + 1 \in 0..n + 1
    OBVIOUS
  <2> QED BY <2>3, <2>4 DEF Under
<1> QED BY <1>1, <1>2, <1>3 DEF Under

\* As many links as there are entities are enough: until it stops, each level adds
\* an entity.
LEMMA UnderStops ==
  ASSUME TypeOK, HierarchyConsistent, NEW N, N = Cardinality(Entity)
  PROVE  Under(N + 1) = Under(N)
<1>0. N \in Nat
  BY ConstantsAssumption, FS_CardinalityType
<1>1. \A n : Under(n) \subseteq Entity /\ IsFiniteSet(Under(n))
             /\ Cardinality(Under(n)) \in Nat /\ Cardinality(Under(n)) <= N
  <2> TAKE n
  <2>1. Under(n) \subseteq Entity
    BY DEF Under, TypeOK
  <2>2. IsFiniteSet(Under(n)) /\ Cardinality(Under(n)) <= Cardinality(Entity)
    BY <2>1, ConstantsAssumption, FS_Subset
  <2> QED BY <2>1, <2>2, FS_CardinalityType
<1> DEFINE T == {n \in Nat : Under(n + 1) # Under(n) /\ Cardinality(Under(n + 1)) <= n}
<1>2. T = {}
  <2> SUFFICES ASSUME T # {} PROVE FALSE
    OBVIOUS
  <2>1. PICK n \in T : \A y \in T : n <= y
    <3>1. T \subseteq Nat
      OBVIOUS
    <3> HIDE DEF T
    <3> QED BY <3>1, LeastElement
  <2>2. n \in Nat /\ Under(n + 1) # Under(n) /\ Cardinality(Under(n + 1)) <= n
    BY <2>1
  <2>3. Under(n) \subseteq Under(n + 1)
    BY <2>2, UnderStep
  <2>4. Cardinality(Under(n)) < Cardinality(Under(n + 1))
    <3>1. Under(n) \in SUBSET Under(n + 1)
      BY <2>3
    <3>2. /\ Cardinality(Under(n)) <= Cardinality(Under(n + 1))
          /\ Cardinality(Under(n + 1)) # Cardinality(Under(n))
      BY <1>1, <2>2, <3>1, FS_Subset
    <3> QED BY <1>1, <3>2
  <2>5. n # 0
    BY <1>1, <2>2, <2>4
  <2>6. PICK m \in Nat : n = m + 1
    <3>1. n - 1 \in Nat /\ n = (n - 1) + 1
      BY <2>2, <2>5
    <3> QED BY <3>1
  <2>7. m \notin T
    BY <2>1, <2>6
  <2>8. Under(m + 1) = Under(m) \/ Cardinality(Under(m + 1)) > m
    BY <1>1, <2>7
  <2>9. CASE Under(m + 1) = Under(m)
    <3>1. Under((m + 1) + 1) = Under(m + 1)
      BY <2>6, <2>9, UnderStep
    <3> QED BY <2>2, <2>6, <3>1
  <2>10. CASE Cardinality(Under(m + 1)) > m
    BY <1>1, <2>2, <2>4, <2>6, <2>10
  <2> QED BY <2>8, <2>9, <2>10
<1>3. N \notin T
  BY <1>2
<1>4. Under(N + 1) = Under(N) \/ Cardinality(Under(N + 1)) > N
  BY <1>0, <1>1, <1>3
<1> QED BY <1>0, <1>1, <1>4

\* The subtrees of the marked entities, walked down, are the entities under a marked
\* one, walked up.
LEMMA SubtreesAreUnder ==
  ASSUME TypeOK, HierarchyConsistent
  PROVE  Subtrees(late) = UnderAncestor(late)
<1> DEFINE N == Cardinality(Entity)
<1>0. N \in Nat
  BY ConstantsAssumption, FS_CardinalityType
<1>1. UnderAncestor(late) = Under(N)
  BY UnderAncestorIsUnder
<1>2. Under(N + 1) = Under(N)
  BY UnderStops
<1> HIDE DEF N
<1>3. late \subseteq Under(N)
  <2>1. 0 \in 0..N
    BY <1>0
  <2>2. \A x : Above(x, 0) = x
    BY AboveStep
  <2> QED BY <2>1, <2>2 DEF Under, TypeOK
<1>4. DownClosed(Under(N))
  <2> SUFFICES ASSUME NEW x \in Under(N), NEW k \in children[x]
               PROVE  k \in Under(N)
    BY DEF DownClosed
  <2>1. k \in alive /\ parent[k] = x
    BY DEF Under, HierarchyConsistent
  <2> QED BY <1>0, <1>2, <2>1, UnderStep
<1>5. Subtrees(late) \subseteq Under(N)
  <2>1. late \in SUBSET Entity /\ Under(N) \in SUBSET Entity
    BY DEF TypeOK, Under
  <2> QED BY <1>3, <1>4, <2>1, SubtreesLeast
<1>6. \A n \in Nat : Under(n) \subseteq Subtrees(late)
  <2> DEFINE T == {n \in Nat : ~(Under(n) \subseteq Subtrees(late))}
  <2> SUFFICES ASSUME T # {} PROVE FALSE
    OBVIOUS
  <2>1. PICK n \in T : \A y \in T : n <= y
    <3>1. T \subseteq Nat
      OBVIOUS
    <3> HIDE DEF T
    <3> QED BY <3>1, LeastElement
  <2>2. n \in Nat /\ ~(Under(n) \subseteq Subtrees(late))
    BY <2>1
  <2>3. late \subseteq Subtrees(late) /\ DownClosed(Subtrees(late))
    BY SubtreesContain, SubtreesClosed DEF TypeOK
  <2>4. n # 0
    BY <2>2, <2>3, UnderZero
  <2>5. PICK m \in Nat : n = m + 1
    <3>1. n - 1 \in Nat /\ n = (n - 1) + 1
      BY <2>2, <2>4
    <3> QED BY <3>1
  <2>6. Under(m) \subseteq Subtrees(late)
    BY <2>1, <2>5
  <2>7. ASSUME NEW k \in alive, parent[k] \in Under(m)
        PROVE  k \in Subtrees(late)
    <3>1. parent[k] \in alive /\ parent[k] \in Subtrees(late)
      BY <2>6, <2>7 DEF Under
    <3>2. k \in children[parent[k]]
      BY <3>1, ConstantsAssumption DEF HierarchyConsistent, TypeOK
    <3> QED BY <2>3, <3>1, <3>2 DEF DownClosed
  <2> QED BY <2>2, <2>5, <2>6, <2>7, UnderStep
<1> QED BY <1>0, <1>1, <1>5, <1>6

\* What a frame destroys is exactly what a marked entity is an ancestor of when the
\* marking starts: the walk of propagateDestroyLate down m_children finds what
\* r_parent says, so a child unparented in time is spared and a child given in time
\* goes, cycles or not (Scene.cpp:142-172, Entity.hpp:70-72).
THEOREM TheMarkedAndTheirsAreDoomed ==
  ASSUME "partialClear" \notin Client
  PROVE  Spec => DoomedByAncestry
<1>1. TypeOK /\ HierarchyConsistent /\ [Next]_vars
      => [phase = "update" /\ phase' = "destroy" => late' = UnderAncestor(late)]_vars
  <2> SUFFICES ASSUME TypeOK, HierarchyConsistent, [Next]_vars,
                      phase = "update", phase' = "destroy"
               PROVE  late' = UnderAncestor(late)
    OBVIOUS
  <2>1. ~ClientStep
    BY DEF ClientStep, CreateEntity, AddComponent, RemoveComponent, DestroyLater, SetParent,
       UnparentChildren, SetCrossScene, Clear, ClearAllButCross, frameVars
  <2>2. MarkSubtrees
    BY <2>1 DEF Next, FrameStep, StartFrame, NextList, Visit, EndCallback,
       Keep, Destroy, EndFrame, Crash, vars, frameVars
  <2>3. late' = Subtrees(late)
    BY <2>2 DEF MarkSubtrees
  <2> QED BY <2>3, SubtreesAreUnder
<1>2. Spec => []HierarchyConsistent
  BY HierarchyStaysConsistent
<1> QED
  BY <1>1, <1>2, TypeCorrect, PTL DEF Spec, DoomedByAncestry
=============================================================================

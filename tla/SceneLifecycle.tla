--------------------------- MODULE SceneLifecycle ---------------------------
(***************************************************************************)
(* The life of entities and components in a zn::Scene: creation, the       *)
(* parent/child hierarchy, the component registries, the ordered update of *)
(* the behaviours, deferred destruction (Entity::destroyLater) and the two *)
(* ways of clearing a scene.                                               *)
(*                                                                         *)
(* An element of Entity or Component is an ADDRESS: it is allocated, freed *)
(* and may be allocated again, so a pointer that survived the object is a  *)
(* dangling pointer or, worse, a pointer to a newer object.  The program   *)
(* is single threaded; interleaving comes from the callbacks (onUpdate,    *)
(* onDestroy) in which the game calls back into the scene while the scene  *)
(* is iterating.  Using a dangling pointer is undefined behaviour: it sets *)
(* fault, after which the model says nothing more of the program.          *)
(*                                                                         *)
(* m_entities, m_children, m_components and the unordered_sets are sets:   *)
(* no property depends on their order, and leaving the order open covers   *)
(* every order.  Whether a live component is enabled and its entity active *)
(* only decides whether update() calls it: both outcomes are allowed.      *)
(***************************************************************************)
EXTENDS Naturals, FiniteSets

CONSTANTS
  Entity,       \* addresses an entity may be allocated at
  Component,    \* addresses a component may be allocated at
  NoEntity,     \* the null Entity pointer
  NoComponent,  \* the null Component pointer
  ListOf,       \* ListOf[c]: the behaviour list (update order) of c, 0 if none
  LastList,     \* the highest update order
  Client        \* the liberties the game takes, a subset of Liberties

(***************************************************************************)
(* What the public API allows a game to do without any check in the        *)
(* framework; a run or a theorem says which of these it admits.            *)
(*   remove       removeComponent() in a behaviour's callback              *)
(*   cycle        setParent() to a descendant or to itself                 *)
(*   partialClear clearAllButCrossEntities() while a cross-scene entity is *)
(*                linked to one that is not                                *)
(*   lateInDtor   destroyLater() on another entity in onDestroy()          *)
(***************************************************************************)
Liberties == {"remove", "cycle", "partialClear", "lateInDtor"}

ASSUME ConstantsAssumption ==
  /\ IsFiniteSet(Entity)
  /\ NoEntity \notin Entity
  /\ NoComponent \notin Component
  /\ LastList \in Nat \ {0}
  /\ ListOf \in [Component -> 0..LastList]
  /\ Client \subseteq Liberties

VARIABLES
  alive,      \* the entities of m_entities (allocated and not deleted)
  parent,     \* Entity::r_parent
  children,   \* Entity::m_children
  late,       \* the live entities with EF_DESTROY_LATE
  cross,      \* the live entities with EF_CROSS_SCENE
  owner,      \* Component::r_owner; NoEntity when the address is free
  registry,   \* the components some system of the scene holds a pointer to
  first,      \* the live components with CF_FIRST_UPDATE
  phase,      \* where Scene::update is
  list,       \* the behaviour list being updated
  pending,    \* what is left of ComponentList::update's copy of that list
  running,    \* the behaviour whose callback is on the stack
  firstRun,   \* the branch Component::update took for it
  unvisited,  \* what is left of m_entities in remove_if
  fault       \* a freed object has been used, or the stack has overflowed

entityVars == <<alive, parent, children, late, cross>>
componentVars == <<owner, registry, first>>
frameVars == <<phase, list, pending, running, firstRun, unvisited>>
vars == <<entityVars, componentVars, frameVars, fault>>

Phases == {"idle", "update", "destroy"}

\* Types of the state; remove_if is under way only in the destruction pass.
TypeOK ==
  /\ alive \subseteq Entity
  /\ parent \in [Entity -> Entity \cup {NoEntity}]
  /\ children \in [Entity -> SUBSET Entity]
  /\ late \subseteq alive
  /\ cross \subseteq alive
  /\ owner \in [Component -> Entity \cup {NoEntity}]
  /\ registry \subseteq Component
  /\ first \subseteq Component
  /\ phase \in Phases
  /\ list \in 0..LastList
  /\ pending \subseteq Component
  /\ running \in Component \cup {NoComponent}
  /\ firstRun \in BOOLEAN
  /\ unvisited \subseteq Entity
  /\ unvisited # {} => phase = "destroy"
  /\ fault \in BOOLEAN

Init ==
  /\ alive = {} /\ late = {} /\ cross = {}
  /\ parent = [e \in Entity |-> NoEntity]
  /\ children = [e \in Entity |-> {}]
  /\ owner = [c \in Component |-> NoEntity]
  /\ registry = {} /\ first = {}
  /\ phase = "idle" /\ list = 0
  /\ pending = {} /\ running = NoComponent /\ firstRun = FALSE
  /\ unvisited = {}
  /\ fault = FALSE

-----------------------------------------------------------------------------
(***************************************************************************)
(* The hierarchy.                                                          *)
(***************************************************************************)

\* A set of entities that contains the children of its members.
DownClosed(S) == \A x \in S : children[x] \subseteq S

\* The members of S and all their descendants: the least such set.
Subtrees(S) ==
  {x \in Entity : \A D \in SUBSET Entity : (S \subseteq D /\ DownClosed(D)) => x \in D}

\* Following the children from S never ends: the recursion of
\* propagateDestroyLate overflows the stack.
Endless(S) ==
  \E D \in (SUBSET Subtrees(S)) \ {{}} : \A x \in D : children[x] \cap D # {}

\* Slip: the member is left in the list of the parent it had.
DetachedChildrenForgetsParent(S) == children

\* m_children once every member of S has been setParent(nullptr): each is erased
\* from the list of the parent it names, and from no other.
DetachedChildren(S) == [x \in Entity |-> children[x] \ {k \in S : parent[k] = x}]

DetachedParent(S) == [x \in Entity |-> IF x \in S THEN NoEntity ELSE parent[x]]

\* Setting the parent of the members of S to null goes through a freed entity.
Dangling(S) == \E x \in S : x \notin alive \/ parent[x] \notin alive \cup {NoEntity}

\* The components ~Entity destroys with the entities of S.
ComponentsOf(S) == {c \in Component : owner[c] \in S}

\* Slip: a component whose onDestroy does not unregister it.
DestroyComponentsNoUnregister(S) ==
  /\ owner' = [c \in Component |-> IF owner[c] \in S THEN NoEntity ELSE owner[c]]
  /\ first' = first \ ComponentsOf(S)
  /\ UNCHANGED registry

\* ~Entity runs onDestroy on each component, which unregisters it, and deletes it.
DestroyComponents(S) ==
  /\ owner' = [c \in Component |-> IF owner[c] \in S THEN NoEntity ELSE owner[c]]
  /\ registry' = registry \ ComponentsOf(S)
  /\ first' = first \ ComponentsOf(S)

-----------------------------------------------------------------------------
(***************************************************************************)
(* Calls of the game: between two frames, or in the callback of a          *)
(* behaviour that is being updated.                                        *)
(***************************************************************************)
ClientTurn ==
  /\ ~fault
  /\ phase = "idle" \/ running # NoComponent

CreateEntity(e) ==
  /\ ClientTurn
  /\ e \notin alive
  /\ alive' = alive \cup {e}
  /\ parent' = [parent EXCEPT ![e] = NoEntity]
  /\ children' = [children EXCEPT ![e] = {}]
  /\ UNCHANGED <<late, cross, componentVars, frameVars, fault>>

AddComponent(c, e) ==
  /\ ClientTurn
  /\ e \in alive
  /\ owner[c] = NoEntity
  /\ owner' = [owner EXCEPT ![c] = e]
  /\ registry' = registry \cup {c}
  /\ first' = first \cup {c}
  /\ UNCHANGED <<entityVars, frameVars, fault>>

RemoveComponent(c) ==
  /\ ClientTurn
  /\ phase = "idle" \/ "remove" \in Client
  /\ owner[c] # NoEntity
  /\ owner' = [owner EXCEPT ![c] = NoEntity]
  /\ registry' = registry \ {c}
  /\ first' = first \ {c}
  /\ UNCHANGED <<entityVars, frameVars, fault>>

DestroyLater(e) ==
  /\ ClientTurn
  /\ e \in alive \ late
  /\ late' = late \cup {e}
  /\ UNCHANGED <<alive, parent, children, cross, componentVars, frameVars, fault>>

SetParent(e, p) ==
  /\ ClientTurn
  /\ e \in alive
  /\ p \in alive \cup {NoEntity}
  /\ p # parent[e]
  /\ "cycle" \in Client \/ p \notin Subtrees({e})
  /\ ~Dangling({e})
  /\ parent' = [parent EXCEPT ![e] = p]
  /\ children' = [x \in Entity |->
                    DetachedChildren({e})[x] \cup IF x = p THEN {e} ELSE {}]
  /\ UNCHANGED <<alive, late, cross, componentVars, frameVars, fault>>

UnparentChildren(e) ==
  /\ ClientTurn
  /\ e \in alive
  /\ children[e] # {}
  /\ ~Dangling(children[e])
  /\ parent' = DetachedParent(children[e])
  /\ children' = DetachedChildren(children[e])
  /\ UNCHANGED <<alive, late, cross, componentVars, frameVars, fault>>

SetCrossScene(e, on) ==
  /\ ClientTurn
  /\ e \in alive
  /\ cross' = IF on THEN cross \cup {e} ELSE cross \ {e}
  /\ UNCHANGED <<alive, parent, children, late, componentVars, frameVars, fault>>

\* Scene::clear, between two frames: every entity is deleted, none detached.
Clear ==
  /\ ~fault
  /\ phase = "idle"
  /\ alive' = {} /\ late' = {} /\ cross' = {}
  /\ DestroyComponents(alive)
  /\ UNCHANGED <<parent, children, frameVars, fault>>

\* No link joins a cross-scene entity to one that is not.
CrossIsWhole ==
  \A e \in alive : parent[e] \in alive => (e \in cross <=> parent[e] \in cross)

\* Scene::clearAllButCrossEntities, between two frames: nothing is detached.
ClearAllButCross ==
  /\ ~fault
  /\ phase = "idle"
  /\ CrossIsWhole \/ "partialClear" \in Client
  /\ alive' = alive \cap cross
  /\ late' = late \cap cross
  /\ DestroyComponents(alive \ cross)
  /\ UNCHANGED <<parent, children, cross, frameVars, fault>>

-----------------------------------------------------------------------------
(***************************************************************************)
(* Scene::update: the behaviour lists in their order, then the marking of  *)
(* the descendants, then the destruction pass, then the other systems.     *)
(***************************************************************************)

\* ComponentList::update works on a copy of the list.
Members(l) == {c \in registry : ListOf[c] = l}

StartFrame ==
  /\ ~fault
  /\ phase = "idle"
  /\ phase' = "update"
  /\ list' = 1
  /\ pending' = Members(1)
  /\ UNCHANGED <<entityVars, componentVars, running, firstRun, unvisited, fault>>

NextList ==
  /\ ~fault
  /\ phase = "update"
  /\ running = NoComponent
  /\ pending = {}
  /\ list < LastList
  /\ list' = list + 1
  /\ pending' = Members(list + 1)
  /\ UNCHANGED <<entityVars, componentVars, phase, running, firstRun, unvisited, fault>>

\* The next component of the copy is looked at, and not updated if it is
\* disabled or its entity inactive.
Visit(c) ==
  /\ ~fault
  /\ phase = "update"
  /\ running = NoComponent
  /\ c \in pending
  /\ owner[c] # NoEntity
  /\ pending' = pending \ {c}
  /\ \/ /\ running' = c
        /\ firstRun' = (c \in first)
     \/ UNCHANGED <<running, firstRun>>
  /\ UNCHANGED <<entityVars, componentVars, phase, list, unvisited, fault>>

\* onUpdate returns.  After the first update the flag is written back.
EndCallback ==
  /\ ~fault
  /\ running # NoComponent
  /\ firstRun => owner[running] # NoEntity
  /\ running' = NoComponent
  /\ firstRun' = FALSE
  /\ first' = IF firstRun THEN first \ {running} ELSE first
  /\ UNCHANGED <<entityVars, owner, registry, phase, list, pending, unvisited, fault>>

\* Slip: only the immediate children are marked.
MarkChildrenOnly ==
  /\ ~fault
  /\ phase = "update"
  /\ running = NoComponent
  /\ pending = {}
  /\ list = LastList
  /\ late' = late \cup UNION {children[e] : e \in late}
  /\ phase' = "destroy"
  /\ unvisited' = alive
  /\ list' = 0
  /\ UNCHANGED <<alive, parent, children, cross, componentVars, pending, running, firstRun, fault>>

\* propagateDestroyLate from every entity marked.
MarkSubtrees ==
  /\ ~fault
  /\ phase = "update"
  /\ running = NoComponent
  /\ pending = {}
  /\ list = LastList
  /\ Subtrees(late) \subseteq alive
  /\ ~Endless(late)
  /\ late' = Subtrees(late)
  /\ phase' = "destroy"
  /\ unvisited' = alive
  /\ list' = 0
  /\ UNCHANGED <<alive, parent, children, cross, componentVars, pending, running, firstRun, fault>>

\* Slip: a marked entity can be kept.
KeepMarked(e) ==
  /\ ~fault
  /\ phase = "destroy"
  /\ e \in unvisited
  /\ unvisited' = unvisited \ {e}
  /\ UNCHANGED <<entityVars, componentVars, phase, list, pending, running, firstRun, fault>>

\* remove_if keeps an entity that is not marked.
Keep(e) ==
  /\ ~fault
  /\ phase = "destroy"
  /\ e \in unvisited \ late
  /\ unvisited' = unvisited \ {e}
  /\ UNCHANGED <<entityVars, componentVars, phase, list, pending, running, firstRun, fault>>

\* What the onDestroy callbacks of a dying entity may mark.
MarkedByDestructors == IF "lateInDtor" \in Client THEN SUBSET alive ELSE {{}}

\* Slip: the links of the entity are left as they are.
DestroyWithoutDetaching(e) ==
  /\ ~fault
  /\ phase = "destroy"
  /\ e \in unvisited \cap late
  /\ alive' = alive \ {e}
  /\ late' = late \ {e}
  /\ cross' = cross \ {e}
  /\ DestroyComponents({e})
  /\ unvisited' = unvisited \ {e}
  /\ UNCHANGED <<parent, children, phase, list, pending, running, firstRun, fault>>

\* isLateDestroyThenDelete: detach from the parent, detach the children, delete.
Destroy(e) ==
  /\ ~fault
  /\ phase = "destroy"
  /\ e \in unvisited \cap late
  /\ LET S == {e} \cup children[e]
     IN  /\ ~Dangling(S)
         /\ parent' = DetachedParent(S)
         /\ children' = DetachedChildren(S)
  /\ alive' = alive \ {e}
  /\ \E M \in MarkedByDestructors : late' = (late \cup M) \ {e}
  /\ cross' = cross \ {e}
  /\ DestroyComponents({e})
  /\ unvisited' = unvisited \ {e}
  /\ UNCHANGED <<phase, list, pending, running, firstRun, fault>>

\* The systems updated after the pass look at everything registered.
EndFrame ==
  /\ ~fault
  /\ phase = "destroy"
  /\ unvisited = {}
  /\ \A c \in registry : owner[c] # NoEntity
  /\ phase' = "idle"
  /\ UNCHANGED <<entityVars, componentVars, list, pending, running, firstRun, unvisited, fault>>

-----------------------------------------------------------------------------
(***************************************************************************)
(* The steps that use a freed object or never return.                      *)
(***************************************************************************)

\* setParent ends by telling the transform of the entity, if it has one, which tells
\* those of its children and so on down: it never returns when the new parent is one
\* of them.  Whether the entities have transforms is left open, so that the call may
\* crash as well as return (SetParent).
ParentChangedCrash ==
  /\ ClientTurn
  /\ "cycle" \in Client
  /\ \E e \in alive : \E p \in Subtrees({e}) \cap alive : p # parent[e]

\* A link to a freed entity followed by setParent, by uparentChildren or by the
\* destruction pass.
LinkCrash ==
  \/ ClientTurn /\ \E e \in alive : Dangling({e}) \/ Dangling(children[e])
  \/ phase = "destroy" /\ \E e \in unvisited \cap late : Dangling({e} \cup children[e])

UpdateCrash ==
  \/ phase = "update" /\ running = NoComponent /\ \E c \in pending : owner[c] = NoEntity
  \/ running # NoComponent /\ firstRun /\ owner[running] = NoEntity
  \/ phase = "destroy" /\ unvisited = {} /\ \E c \in registry : owner[c] = NoEntity

MarkCrash ==
  /\ phase = "update" /\ running = NoComponent /\ pending = {} /\ list = LastList
  /\ ~(Subtrees(late) \subseteq alive) \/ Endless(late)

Crash ==
  /\ ~fault
  /\ ParentChangedCrash \/ LinkCrash \/ UpdateCrash \/ MarkCrash
  /\ fault' = TRUE
  /\ UNCHANGED <<entityVars, componentVars, frameVars>>

-----------------------------------------------------------------------------
ClientStep ==
  \/ \E e \in Entity : CreateEntity(e) \/ DestroyLater(e) \/ UnparentChildren(e)
  \/ \E e \in Entity, p \in Entity \cup {NoEntity} : SetParent(e, p)
  \/ \E e \in Entity, on \in BOOLEAN : SetCrossScene(e, on)
  \/ \E c \in Component : RemoveComponent(c) \/ \E e \in Entity : AddComponent(c, e)
  \/ Clear
  \/ ClearAllButCross

FrameStep ==
  \/ StartFrame
  \/ NextList
  \/ \E c \in Component : Visit(c)
  \/ EndCallback
  \/ MarkSubtrees
  \/ \E e \in Entity : Keep(e) \/ Destroy(e)
  \/ EndFrame

Next == ClientStep \/ FrameStep \/ Crash

Spec == Init /\ [][Next]_vars

\* The main loop keeps calling Scene::update, and every callback returns, unless
\* the frame crashes.
FairSpec == Spec /\ WF_vars(FrameStep \/ Crash)

-----------------------------------------------------------------------------
(***************************************************************************)
(* Properties.                                                             *)
(***************************************************************************)

\* A system holds a pointer to a component exactly while the component exists,
\* and a component exists only in an entity that does: registration in onAdd
\* and unregistration in onDestroy match on every path that frees a component
\* (removeComponent, the destruction pass, clear, clearAllButCrossEntities).
RegisteredIffAlive ==
  \A c \in Component :
    /\ c \in registry <=> owner[c] # NoEntity
    /\ owner[c] \in alive \cup {NoEntity}

\* r_parent and m_children are the two directions of one relation over live
\* entities: neither names a deleted entity, in whatever order links were made,
\* undone and their ends destroyed.
HierarchyConsistent ==
  \A e \in alive :
    /\ parent[e] # NoEntity => parent[e] \in alive /\ e \in children[parent[e]]
    /\ \A k \in children[e] : k \in alive /\ parent[k] = e

\* Nothing that the framework is about to go through has been freed: the ends of
\* the links of the live entities, what is left of the copy of a list, the
\* behaviour to whose flags Component::update writes after its callback, and what
\* the systems updated at the end of the frame hold.
NothingDanglesAhead ==
  /\ \A e \in alive : ~Dangling({e} \cup children[e])
  /\ phase = "update" => \A c \in pending : owner[c] # NoEntity
  /\ running # NoComponent => owner[running] # NoEntity
  /\ \A c \in registry : owner[c] # NoEntity

\* No callback, update or destruction goes through a freed object, and the
\* propagation of DESTROY_LATE terminates.
NoDanglingUse == ~fault

\* ComponentList::update never calls a component that a callback has deleted: the
\* copy of the list it goes through is there "to avoid concurrent modifications"
\* (ComponentList.hpp:53).
NeverCallsDeleted ==
  fault /\ phase = "update" /\ running = NoComponent =>
    \A c \in pending : owner[c] # NoEntity

\* Destroying an entity takes its children with it: whatever is still its child
\* when the pass deletes it is marked too (Entity.cpp:64, Entity.hpp:70).
DestroyTakesChildren ==
  [][\A e \in alive \ alive' : phase = "destroy" => children[e] \subseteq late']_vars

\* The set of entities that reach a member of S by following r_parent.
UnderAncestor(S) ==
  {x \in alive : \E n \in 0..Cardinality(Entity) :
     LET up[i \in 0..n] ==
           IF i = 0 THEN x
           ELSE IF up[i - 1] = NoEntity THEN NoEntity ELSE parent[up[i - 1]]
     IN  up[n] \in S}

\* At destruction time exactly the marked entities and those under one along
\* r_parent are doomed: a child unparented earlier in the frame is spared
\* (Entity.hpp:70-72), though the code walks m_children.
DoomedByAncestry ==
  [][phase = "update" /\ phase' = "destroy" => late' = UnderAncestor(late)]_vars

\* An entity marked by destroyLater is eventually destroyed, unless the program
\* crashes.
LateIsDestroyed == \A e \in Entity : (e \in late) ~> (e \notin late \/ fault)
=============================================================================

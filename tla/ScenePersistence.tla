-------------------------- MODULE ScenePersistence --------------------------
(***************************************************************************)
(* Identifiers, tags and saved scenes: what Scene::serialize writes of the *)
(* entities, what Scene::unserialize makes of it, and how both meet the    *)
(* counter of identifiers, the tag index of the TagManager and the         *)
(* transforms that createEntity adds by itself.                            *)
(*                                                                         *)
(* Entities are addresses, allocated and freed; m_entities is a sequence,  *)
(* for its order is the order of the file.  Of the components only the     *)
(* transforms are kept, each by its position: an entity uses the first     *)
(* (getComponent).  Positions are values that JSON writes exactly; flags,  *)
(* names and layers are copied like tags and left out.                     *)
(***************************************************************************)
EXTENDS Naturals, Sequences, SequencesExt, FiniteSetsExt

CONSTANTS
  Entity,    \* addresses an entity may be allocated at
  Tag,       \* the tags in use
  Position,  \* the positions in use
  Origin,    \* the position of a new Transform
  NoFile,    \* nothing has been saved
  MaxID,         \* bound on the identifiers given
  MaxTransforms  \* bound on the transforms of an entity

ASSUME ConstantsAssumption ==
  Origin \in Position /\ MaxID \in Nat /\ MaxTransforms \in Nat

VARIABLES
  order,       \* Scene::m_entities
  id,          \* Entity::m_id
  tags,        \* Entity::m_tags
  transforms,  \* the positions of the Transform components, in order
  tagged,      \* TagManager::m_taggedEntities
  nextID,      \* Scene::m_nextID
  automatic,   \* Scene::automaticTransforms
  file,        \* the last scene saved, or NoFile
  taken        \* history: which of Liberties have happened

(***************************************************************************)
(* What some properties do not survive:                                    *)
(*   load        a saved scene is loaded                                   *)
(*   autoAtLoad  ... while automaticTransforms is set, its default value   *)
(*   conflict    ... in which two entities have the same identifier        *)
(***************************************************************************)
Liberties == {"load", "autoAtLoad", "conflict"}

vars == <<order, id, tags, transforms, tagged, nextID, automatic, file, taken>>

Saved == [id : Nat, tags : SUBSET Tag, transforms : Seq(Position)]

InScene == ToSet(order)

\* Types of the state; an entity is once in the list.
TypeOK ==
  /\ order \in Seq(Entity) /\ IsInjective(order)
  /\ id \in [Entity -> Nat]
  /\ tags \in [Entity -> SUBSET Tag]
  /\ transforms \in [Entity -> Seq(Position)]
  /\ tagged \in [Tag -> SUBSET Entity]
  /\ nextID \in Nat
  /\ automatic \in BOOLEAN
  /\ file \in [entities : Seq(Saved), automatic : BOOLEAN] \union {NoFile}
  /\ taken \subseteq Liberties

Init ==
  /\ order = <<>>
  /\ id = [e \in Entity |-> 0]
  /\ tags = [e \in Entity |-> {}]
  /\ transforms = [e \in Entity |-> <<>>]
  /\ tagged = [t \in Tag |-> {}]
  /\ nextID = 0
  /\ automatic = TRUE
  /\ file = NoFile
  /\ taken = {}

-----------------------------------------------------------------------------
\* The transforms of an entity that createEntity returns.
Created == IF automatic THEN <<Origin>> ELSE <<>>

CreateEntity(e, p) ==
  /\ nextID < MaxID
  /\ e \notin InScene
  /\ order' = Append(order, e)
  /\ id' = [id EXCEPT ![e] = nextID]
  /\ nextID' = nextID + 1
  /\ tags' = [tags EXCEPT ![e] = {}]
  /\ transforms' = [transforms EXCEPT ![e] = [i \in DOMAIN Created |-> p]]
  /\ UNCHANGED <<tagged, automatic, file, taken>>

\* Slip: ~Entity does not tell the tag manager.
DestroyWithoutUntagging(e) ==
  /\ e \in InScene
  /\ order' = RemoveFirst(order, e)
  /\ tags' = [tags EXCEPT ![e] = {}]
  /\ transforms' = [transforms EXCEPT ![e] = <<>>]
  /\ id' = [id EXCEPT ![e] = 0]
  /\ UNCHANGED <<tagged, nextID, automatic, file, taken>>

\* ~Entity untags the entity from the tags in its own mask.
DestroyEntity(e) ==
  /\ e \in InScene
  /\ order' = RemoveFirst(order, e)
  /\ tagged' = [t \in Tag |-> IF t \in tags[e] THEN tagged[t] \ {e} ELSE tagged[t]]
  /\ tags' = [tags EXCEPT ![e] = {}]
  /\ transforms' = [transforms EXCEPT ![e] = <<>>]
  /\ id' = [id EXCEPT ![e] = 0]
  /\ UNCHANGED <<nextID, automatic, file, taken>>

\* addComponent<Transform>: an entity may be given several.
AddTransform(e) ==
  /\ e \in InScene
  /\ Len(transforms[e]) < MaxTransforms
  /\ transforms' = [transforms EXCEPT ![e] = Append(@, Origin)]
  /\ UNCHANGED <<order, id, tags, tagged, nextID, automatic, file, taken>>

\* entity.transform() is the first of the transforms.
Move(e, p) ==
  /\ e \in InScene
  /\ transforms[e] # <<>>
  /\ transforms' = [transforms EXCEPT ![e][1] = p]
  /\ UNCHANGED <<order, id, tags, tagged, nextID, automatic, file, taken>>

OnEntityTagged(e, t) == [tagged EXCEPT ![t] = @ \cup {e}]

OnEntityUntagged(e, t) == [tagged EXCEPT ![t] = @ \ {e}]

AddTag(e, t) ==
  /\ e \in InScene
  /\ tags' = [tags EXCEPT ![e] = @ \cup {t}]
  /\ tagged' = OnEntityTagged(e, t)
  /\ UNCHANGED <<order, id, transforms, nextID, automatic, file, taken>>

RemoveTag(e, t) ==
  /\ e \in InScene
  /\ tags' = [tags EXCEPT ![e] = @ \ {t}]
  /\ tagged' = OnEntityUntagged(e, t)
  /\ UNCHANGED <<order, id, transforms, nextID, automatic, file, taken>>

SetAutomatic(on) ==
  /\ automatic' = on
  /\ UNCHANGED <<order, id, tags, transforms, tagged, nextID, file, taken>>

-----------------------------------------------------------------------------
Record(e) == [id |-> id[e], tags |-> tags[e], transforms |-> transforms[e]]

\* Scene::serialize
Save ==
  /\ file' = [entities |-> [i \in DOMAIN order |-> Record(order[i])],
              automatic |-> automatic]
  /\ UNCHANGED <<order, id, tags, transforms, tagged, nextID, automatic, taken>>

\* Someone edits the file: the second entity gets the identifier of the first.
EditFile ==
  /\ file # NoFile
  /\ Len(file.entities) > 1
  /\ file' = [file EXCEPT !.entities[2].id = file.entities[1].id]
  /\ UNCHANGED <<order, id, tags, transforms, tagged, nextID, automatic, taken>>

\* Slip: the next identifier is the number of entities.
CountOf(saved) == Len(saved)

\* computedNextID
NextIDOf(saved) ==
  IF saved = <<>> THEN 0 ELSE Max({saved[i].id : i \in DOMAIN saved}) + 1

\* An entity of the file before has the same identifier.
Conflicting(saved, i) == \E j \in 1..(i - 1) : saved[j].id = saved[i].id

HasConflict(saved) == \E i \in DOMAIN saved : Conflicting(saved, i)

\* Slip: the tags are not read back.
UnserializedUntagged(s) ==
  [id |-> s.id, tags |-> {}, transforms |-> Created \o s.transforms]

\* Entity::unserialize: the components of the file come after those that the entity was
\* created with.
Unserialized(s) ==
  [id |-> s.id, tags |-> s.tags, transforms |-> Created \o s.transforms]

\* The i-th entity created by unserialize, after clear() has reset the counter; one that
\* conflicts is left as createEntity made it.
Restored(saved, i) ==
  IF Conflicting(saved, i) THEN [id |-> i - 1, tags |-> {}, transforms |-> Created]
                           ELSE Unserialized(saved[i])

\* The scene consists of n new entities, at addresses that clear() has freed or
\* that were free, with the given contents.
Replaced(new, contents) ==
  LET At(e) == CHOOSE i \in DOMAIN new : new[i] = e
  IN  /\ order' = new
      /\ id' = [e \in Entity |-> IF e \in ToSet(new) THEN contents[At(e)].id ELSE 0]
      /\ tags' = [e \in Entity |-> IF e \in ToSet(new) THEN contents[At(e)].tags ELSE {}]
      /\ transforms' = [e \in Entity |->
                          IF e \in ToSet(new) THEN contents[At(e)].transforms ELSE <<>>]
      /\ tagged' = [t \in Tag |-> {x \in tagged[t] : x \in InScene => t \notin tags[x]}]

Allocations(n) == {new \in [1..n -> Entity] : IsInjective(new)}

\* Scene::unserialize: clear(), then the entities, then the counter and the
\* setting.  Nothing tells the tag manager of the tags read.
Load ==
  /\ file # NoFile
  /\ \A i \in DOMAIN file.entities :
       Len(Restored(file.entities, i).transforms) <= MaxTransforms
  /\ \E new \in Allocations(Len(file.entities)) :
       Replaced(new, [i \in DOMAIN new |-> Restored(file.entities, i)])
  /\ nextID' = NextIDOf(file.entities)
  /\ automatic' = file.automatic
  /\ taken' = taken \cup {"load"} \cup (IF automatic THEN {"autoAtLoad"} ELSE {})
                    \cup (IF HasConflict(file.entities) THEN {"conflict"} ELSE {})
  /\ UNCHANGED file

\* Scene::clear
Clear ==
  /\ Replaced(<<>>, <<>>)
  /\ nextID' = 0
  /\ UNCHANGED <<automatic, file, taken>>

\* Scene::loadFromFile gives unserialize the value before reading the file into
\* it: an empty list, and false for the setting.
LoadFromFile ==
  /\ file # NoFile
  /\ Replaced(<<>>, <<>>)
  /\ nextID' = 0
  /\ automatic' = FALSE
  /\ UNCHANGED <<file, taken>>

Next ==
  \/ \E e \in Entity, p \in Position : CreateEntity(e, p) \/ Move(e, p)
  \/ \E e \in Entity : DestroyEntity(e) \/ AddTransform(e)
  \/ \E e \in Entity, t \in Tag : AddTag(e, t) \/ RemoveTag(e, t)
  \/ \E on \in BOOLEAN : SetAutomatic(on)
  \/ Clear \/ Save \/ EditFile \/ Load \/ LoadFromFile

Spec == Init /\ [][Next]_vars

-----------------------------------------------------------------------------
(***************************************************************************)
(* Properties.                                                             *)
(***************************************************************************)

\* An identifier is unique within the scene (Scene.hpp:69) and the counter is
\* ahead of all of them, after any sequence of creations, destructions, saves and
\* loads, unless a file with a conflict was loaded: the entity that is refused
\* stays in the scene with an identifier that computedNextID ignores.
IdentifiersUnique ==
  "conflict" \notin taken =>
    /\ \A a, b \in InScene : id[a] = id[b] => a = b
    /\ \A a \in InScene : id[a] < nextID

\* The "collection of entities having the given tag" (TagManager.hpp:40) holds no
\* entity that has lost the tag, was destroyed or was cleared away before a load,
\* even one whose address is used again, and until a load it misses none:
\* Entity::unserialize does not tell the manager of the tags it reads.
TagIndexExact ==
  \A t \in Tag :
    LET having == {e \in InScene : t \in tags[e]}
    IN  /\ tagged[t] \subseteq having
        /\ "load" \notin taken => tagged[t] = having

\* "Unserialized content will replace old content" (Scene.cpp:266): a load restores the
\* entities in the order in which they were saved, each with its identifier, its tags and
\* all its transforms, whatever the scene held before; those that createEntity adds by
\* itself come before them.  The entities that a conflict refuses keep their place in
\* the order, and nothing else of them is promised.
LoadRestores ==
  [][Load =>
       /\ Len(order') = Len(file.entities)
       /\ \A i \in DOMAIN file.entities : ~Conflicting(file.entities, i) =>
            LET e == order'[i]
                s == file.entities[i]
            IN  /\ id'[e] = s.id /\ tags'[e] = s.tags
                /\ (IF automatic THEN Tail(transforms'[e]) ELSE transforms'[e])
                     = s.transforms]_vars
=============================================================================

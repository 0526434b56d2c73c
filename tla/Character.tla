----------------------------- MODULE Character -----------------------------
(***************************************************************************)
(* The frames of the demo's scene: the behaviours are updated in an order  *)
(* that nothing fixes - demo::Avatar and its Mover have the same update    *)
(* order and are kept in a hash set - then the animators, and the          *)
(* character chooses its animation from what its mover is doing.           *)
(***************************************************************************)
EXTENDS MapPhysics, SpriteAnimator, FiniteSets

CONSTANTS
  Avatar,   \* the mover that is a character
  Keys,     \* bound: the directions of what is pressed, and of other accelerations
  Starts    \* the scenes: the place of each mover, and what the character has

Directions == {"left", "right", "up", "down"}

Walk(d) == <<"walk", d>>
Idle(d) == <<"idle", d>>

ASSUME CharacterAssumption ==
  /\ Avatar \in Mover /\ Mover \intersect {"character", "animators"} = {}
  /\ \A d \in Directions : Walk(d) \in Sequence /\ Idle(d) \in Still
  /\ Keys \subseteq Signs \X Signs
  /\ Starts \subseteq [position : [Mover -> Int \X Int], animated : BOOLEAN,
                       atlas : Atlas \union {None}]

VARIABLES
  direction,      \* m_spriteDir
  lastDirection,  \* m_spriteDirLastFrame
  lastMoving,     \* m_movingLastFrame
  animated,       \* entity().animator() # nullptr
  todo,           \* the behaviours and the animators that this frame has still to update
  keys,           \* history: the direction of the keys at the last update of the character
  settled         \* history: the frames for which the keys have been the same

frameVars == <<todo, animated>>
poseVars == <<direction, lastDirection, lastMoving>>
vars == <<physicsVars, spriteVars, poseVars, frameVars, keys, settled>>

\* Character::onCreate: the direction is right, whatever the sprite shows.
Init ==
  /\ \E s \in Starts : /\ position = s.position
                       /\ animated = s.animated
                       /\ SpriteInit(s.atlas)
  /\ velocity = [m \in Mover |-> <<0, 0>>]
  /\ acceleration = [m \in Mover |-> <<0, 0>>]
  /\ direction = "right" /\ lastDirection = "right" /\ lastMoving = FALSE
  /\ todo = {}
  /\ keys = <<0, 0>> /\ settled = 0

-----------------------------------------------------------------------------
\* A direction that is neither up nor down is left or right.
Facing(d) ==
  CASE d[2] = -1 -> "up" [] d[2] = 1 -> "down"
    [] d[1] = -1 -> "left" [] d[1] = 1 -> "right" [] OTHER -> direction

BeginFrame ==
  /\ todo = {} /\ ~badFrame
  /\ todo' = Mover \union {"character", "animators"}
  /\ UNCHANGED <<physicsVars, spriteVars, poseVars, animated, keys, settled>>

UpdateAMover(m) ==
  /\ m \in todo
  /\ UpdateMover(m)
  /\ todo' = todo \ {m}
  /\ UNCHANGED <<spriteVars, poseVars, animated, keys, settled>>

\* The other movers are accelerated by other behaviours: bound, only in the scenes
\* without an animator, which does not depend on them.
AccelerateAnother(m, d) ==
  /\ ~animated
  /\ m \in todo \ {Avatar} /\ d # <<0, 0>> /\ acceleration[m] = <<0, 0>>
  /\ Accelerate(m, d)
  /\ UNCHANGED <<position, velocity, spriteVars, poseVars, frameVars, keys, settled>>

\* Slip: what the mover was doing before the keys were read.
WasMoving == Moving(Avatar)

\* Mover::moving(), after accelerate().
IsMoving == velocity[Avatar] # <<0, 0>> \/ acceleration'[Avatar] # <<0, 0>>

\* The animation is chosen anew only when something has changed.
PoseChanges(moving) == direction' # lastDirection \/ moving # lastMoving

\* Avatar::onUpdate and Character::onUpdate, with the keys of the direction d.
UpdateCharacter(d) ==
  /\ "character" \in todo
  /\ todo' = todo \ {"character"}
  /\ Accelerate(Avatar, d)
  /\ direction' = Facing(d)
  /\ IF PoseChanges(IsMoving)
       THEN /\ lastDirection' = direction' /\ lastMoving' = IsMoving
            /\ IF ~animated THEN UNCHANGED spriteVars
               ELSE /\ IF IsMoving THEN Play(Walk(direction'), -1) ELSE ShowStill(Idle(direction'))
                    /\ UNCHANGED calls
       ELSE UNCHANGED <<lastDirection, lastMoving, spriteVars>>
  /\ IF animated
       THEN /\ keys' = d
            /\ settled' = IF d # keys THEN 1 ELSE IF settled < 3 THEN settled + 1 ELSE 3
       ELSE UNCHANGED <<keys, settled>>
  /\ UNCHANGED <<position, velocity, animated>>

\* The update of the animators comes after all the behaviours.
AnimatorsTurn == todo = {"animators"} /\ todo' = {}

UpdateAnimators ==
  /\ AnimatorsTurn
  /\ SameFrame \/ ReadBadFrame
  /\ UNCHANGED <<physicsVars, poseVars, animated, keys, settled, calls>>

UpdateFrame ==
  /\ AnimatorsTurn
  /\ NextFrame
  /\ UNCHANGED <<physicsVars, poseVars, animated, keys, settled, calls>>

\* Another part of the game uses the animator, between two frames.
UseAnimator ==
  /\ animated /\ todo = {} /\ ~badFrame /\ calls < MaxCalls
  /\ calls' = calls + 1
  /\ \/ \E a \in Atlas \union {None} : a # atlas /\ SetAtlas(a)
     \/ \E n \in Sequence, k \in 0..MaxLoops : Play(n, k)
  /\ UNCHANGED <<physicsVars, poseVars, frameVars, keys, settled>>

Next ==
  \/ BeginFrame
  \/ \E m \in Mover : UpdateAMover(m)
  \/ \E m \in Mover, d \in Keys : AccelerateAnother(m, d)
  \/ \E d \in Keys : UpdateCharacter(d)
  \/ UpdateAnimators \/ UpdateFrame
  \/ UseAnimator

Program == BeginFrame \/ (\E m \in Mover : UpdateAMover(m))
             \/ (\E d \in Keys : UpdateCharacter(d)) \/ UpdateAnimators \/ UpdateFrame

\* The frames go on, and the durations of those of a sequence pass.
Spec == Init /\ [][Next]_vars /\ WF_vars(Program) /\ SF_vars(UpdateFrame)

-----------------------------------------------------------------------------
(***************************************************************************)
(* Properties.                                                             *)
(***************************************************************************)

\* Types of the state.
TypeOK ==
  /\ PhysicsTypeOK /\ SpriteTypeOK
  /\ direction \in Directions /\ lastDirection \in Directions /\ lastMoving \in BOOLEAN
  /\ animated \in BOOLEAN
  /\ todo \subseteq Mover \union {"character", "animators"}
  /\ keys \in Signs \X Signs /\ settled \in 0..3

\* A character that has had the same keys for three frames looks like it ("Base
\* component for characters that can move and animate", Character.hpp:14): it walks
\* in its direction as long as a key is pressed, and is idle in its direction if
\* none is, in whatever order it and its mover are updated; unless another part of
\* the game uses the animator, and as long as it never moved, since onCreate takes
\* it to face right whatever it shows.
PoseFollowsKeys ==
  animated /\ todo = {} /\ settled = 3 /\ calls = 0 /\ atlas # None =>
    IF keys # <<0, 0>>
      THEN Playing /\ sequence = <<atlas, Walk(direction)>>
      ELSE ~Playing /\ rect \in {<<atlas, Idle(direction)>>, None}

\* An animation that was given a number of loops ends, or another takes its place.
AnimationsEnd == Playing /\ loops >= 0 ~> ~Playing \/ loops < 0 \/ badFrame
=============================================================================

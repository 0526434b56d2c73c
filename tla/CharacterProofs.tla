-------------------------- MODULE CharacterProofs --------------------------
(***************************************************************************)
(* Theorems about the frames of the demo's scene: the animations of        *)
(* SpriteAnimator, the motions of MapPhysics and the character that joins  *)
(* them, for every set of movers, map, atlas and order of the updates.     *)
(***************************************************************************)
EXTENDS Character, WellFoundedInduction, TLAPS

-----------------------------------------------------------------------------
(***************************************************************************)
(* Types.                                                                  *)
(***************************************************************************)

\* Bringing a rectangle to a place keeps its size.
LEMMA AtMoves ==
  ASSUME NEW r \in Rects, NEW p \in Int \X Int
  PROVE  /\ At(r, p) \in Rects
         /\ At(r, p).left = r.left + p[1] /\ At(r, p).top = r.top + p[2]
         /\ At(r, p).width = r.width /\ At(r, p).height = r.height
  <1>1. p[1] \in Int /\ p[2] \in Int  OBVIOUS
  <1>2. PICK l \in Int, t \in Int, w \in Nat, h \in Nat :
          r = [left |-> l, top |-> t, width |-> w, height |-> h]
    BY DEF Rects
  <1> DEFINE q == [r EXCEPT !.left = r.left + p[1]]
  <1>3. q = [left |-> l + p[1], top |-> t, width |-> w, height |-> h]
    BY <1>2
  <1>4. At(r, p) = [q EXCEPT !.top = q.top + p[2]]  BY DEF At
  <1> HIDE DEF q
  <1>5. At(r, p) = [left |-> l + p[1], top |-> t + p[2], width |-> w, height |-> h]
    BY <1>3, <1>4
  <1>6. QED  BY <1>1, <1>2, <1>5 DEF Rects

\* The box of a mover, wherever the mover is.
LEMMA BoxAt ==
  ASSUME NEW m \in Mover, NEW p \in Int \X Int
  PROVE  /\ Box(m, p) \in Rects
         /\ Box(m, p).left = HitBox[m].left + p[1] /\ Box(m, p).top = HitBox[m].top + p[2]
         /\ Box(m, p).width = HitBox[m].width /\ Box(m, p).height = HitBox[m].height
  <1>1. HitBox[m] \in Rects  BY PhysicsAssumption
  <1>2. QED  BY <1>1, AtMoves DEF Box

\* The states of a motion: a place, and what a fraction adds to it.
Motion == [p : Int \X Int, u : Int \X Int]

\* What a fraction of a motion leads to: it stays where it is, or goes to a place that
\* is clear of colliders.
LEMMA AdvanceXMoves ==
  ASSUME NEW m \in Mover, NEW s \in Motion
  PROVE  /\ AdvanceX(m, s) \in Motion
         /\ AdvanceX(m, s).p = s.p \/ ~Collides(Box(m, AdvanceX(m, s).p), m)
  <1> DEFINE q == <<s.p[1] + s.u[1], s.p[2]>>
  <1>1. q \in Int \X Int /\ <<0, s.u[2]>> \in Int \X Int  BY DEF Motion
  <1>2. /\ [s EXCEPT !.p = q] \in Motion /\ [s EXCEPT !.p = q].p = q
        /\ [s EXCEPT !.u[1] = 0] \in Motion /\ [s EXCEPT !.u[1] = 0].p = s.p
    <2>1. PICK x \in Int, y \in Int, p \in Int \X Int : s = [p |-> p, u |-> <<x, y>>]
      BY DEF Motion
    <2>2. [s EXCEPT !.u[1] = 0] = [p |-> s.p, u |-> <<0, s.u[2]>>]
      BY <2>1
    <2>3. [s EXCEPT !.p = q] = [p |-> q, u |-> s.u]
      BY <2>1
    <2> HIDE DEF q
    <2> QED BY <1>1, <2>1, <2>2, <2>3 DEF Motion
  <1>3. AdvanceX(m, s) = IF s.u[1] = 0 THEN s
                         ELSE IF Collides(Box(m, q), m) THEN [s EXCEPT !.u[1] = 0]
                         ELSE [s EXCEPT !.p = q]
    BY DEF AdvanceX
  <1> HIDE DEF q
  <1>4. CASE s.u[1] = 0  BY <1>3, <1>4
  <1>5. CASE s.u[1] # 0 /\ Collides(Box(m, q), m)  BY <1>2, <1>3, <1>5
  <1>6. CASE s.u[1] # 0 /\ ~Collides(Box(m, q), m)  BY <1>2, <1>3, <1>6
  <1>7. QED  BY <1>4, <1>5, <1>6

LEMMA AdvanceYMoves ==
  ASSUME NEW m \in Mover, NEW s \in Motion
  PROVE  /\ AdvanceY(m, s) \in Motion
         /\ AdvanceY(m, s).p = s.p \/ ~Collides(Box(m, AdvanceY(m, s).p), m)
  <1> DEFINE q == <<s.p[1], s.p[2] + s.u[2]>>
  <1>1. q \in Int \X Int /\ <<s.u[1], 0>> \in Int \X Int  BY DEF Motion
  <1>2. /\ [s EXCEPT !.p = q] \in Motion /\ [s EXCEPT !.p = q].p = q
        /\ [s EXCEPT !.u[2] = 0] \in Motion /\ [s EXCEPT !.u[2] = 0].p = s.p
    <2>1. PICK x \in Int, y \in Int, p \in Int \X Int : s = [p |-> p, u |-> <<x, y>>]
      BY DEF Motion
    <2>2. [s EXCEPT !.u[2] = 0] = [p |-> s.p, u |-> <<s.u[1], 0>>]
      BY <2>1
    <2>3. [s EXCEPT !.p = q] = [p |-> q, u |-> s.u]
      BY <2>1
    <2> HIDE DEF q
    <2> QED BY <1>1, <2>1, <2>2, <2>3 DEF Motion
  <1>3. AdvanceY(m, s) = IF s.u[2] = 0 THEN s
                         ELSE IF Collides(Box(m, q), m) THEN [s EXCEPT !.u[2] = 0]
                         ELSE [s EXCEPT !.p = q]
    BY DEF AdvanceY
  <1> HIDE DEF q
  <1>4. CASE s.u[2] = 0  BY <1>3, <1>4
  <1>5. CASE s.u[2] # 0 /\ Collides(Box(m, q), m)  BY <1>2, <1>3, <1>5
  <1>6. CASE s.u[2] # 0 /\ ~Collides(Box(m, q), m)  BY <1>2, <1>3, <1>6
  <1>7. QED  BY <1>4, <1>5, <1>6

LEMMA FractionMoves ==
  ASSUME NEW m \in Mover, NEW s \in Motion
  PROVE  /\ Fraction(m, s) \in Motion
         /\ Fraction(m, s).p = s.p \/ ~Collides(Box(m, Fraction(m, s).p), m)
  <1>1. AdvanceX(m, s) \in Motion  BY AdvanceXMoves
  <1>2. QED  BY <1>1, AdvanceXMoves, AdvanceYMoves DEF Fraction

\* A motion ends where it began, or where the box of the mover meets no collider.
LEMMA SweptIsFree ==
  ASSUME NEW m \in Mover, position[m] \in Int \X Int, NEW u \in Int \X Int
  PROVE  /\ Swept(m, u) \in Int \X Int
         /\ Swept(m, u) = position[m] \/ ~Collides(Box(m, Swept(m, u)), m)
  <1> DEFINE s == [p |-> position[m], u |-> u]
             s1 == Fraction(m, s)
             s2 == Fraction(m, s1)
             s3 == Fraction(m, s2)
             s4 == Fraction(m, s3)
  <1>1. s \in Motion /\ s.p = position[m]  BY DEF Motion
  <1>2. Swept(m, u) = s4.p  BY DEF Swept
  <1> HIDE DEF s
  <1>3. s1 \in Motion /\ (s1.p = s.p \/ ~Collides(Box(m, s1.p), m))  BY <1>1, FractionMoves
  <1> HIDE DEF s1
  <1>4. s2 \in Motion /\ (s2.p = s1.p \/ ~Collides(Box(m, s2.p), m))  BY <1>3, FractionMoves
  <1> HIDE DEF s2
  <1>5. s3 \in Motion /\ (s3.p = s2.p \/ ~Collides(Box(m, s3.p), m))  BY <1>4, FractionMoves
  <1> HIDE DEF s3
  <1>6. s4 \in Motion /\ (s4.p = s3.p \/ ~Collides(Box(m, s4.p), m))  BY <1>5, FractionMoves
  <1> HIDE DEF s4
  <1>7. s4.p \in Int \X Int  BY <1>6 DEF Motion
  <1>8. QED  BY <1>1, <1>2, <1>3, <1>4, <1>5, <1>6, <1>7

\* An update keeps or takes a direction, and goes in it by at most the stride.
LEMMA MoverSpeed ==
  ASSUME PhysicsTypeOK, NEW m \in Mover, UpdateMover(m)
  PROVE  \E v \in Signs \X Signs :
           /\ velocity' = [velocity EXCEPT ![m] = v]
           /\ acceleration[m] = <<0, 0>> => v = <<0, 0>>
           /\ \E x, y \in 0..Stride[m] :
                position' = [position EXCEPT ![m] = Swept(m, <<x * v[1], y * v[2]>>)]
  <1>1. PICK v \in IF acceleration[m] = <<0, 0>> THEN {<<0, 0>>}
                   ELSE Accelerated(velocity[m][1], acceleration[m][1])
                          \X Accelerated(velocity[m][2], acceleration[m][2]) :
          /\ velocity' = [velocity EXCEPT ![m] = v]
          /\ \E x, y \in 0..Stride[m] :
               position' = [position EXCEPT ![m] = Swept(m, <<x * v[1], y * v[2]>>)]
    BY DEF UpdateMover
  <1>2. acceleration[m] \in Signs \X Signs  BY DEF PhysicsTypeOK
  <1>3. Accelerated(velocity[m][1], acceleration[m][1]) \subseteq Signs
    BY <1>2 DEF Accelerated, Signs, PhysicsTypeOK
  <1>4. Accelerated(velocity[m][2], acceleration[m][2]) \subseteq Signs
    BY <1>2 DEF Accelerated, Signs, PhysicsTypeOK
  <1>5. <<0, 0>> \in Signs \X Signs  BY DEF Signs
  <1>6. v \in Signs \X Signs  BY <1>1, <1>3, <1>4, <1>5
  <1>7. QED  BY <1>1, <1>6

\* The update of a mover keeps the types, and leads it to where it was or to a place
\* where it meets no collider.
LEMMA MoverMoves ==
  ASSUME PhysicsTypeOK, NEW m \in Mover, UpdateMover(m)
  PROVE  /\ PhysicsTypeOK'
         /\ acceleration'[m] = <<0, 0>>
         /\ acceleration[m] = <<0, 0>> => velocity'[m] = <<0, 0>>
         /\ \A other \in Mover \ {m} : /\ position'[other] = position[other]
                                      /\ velocity'[other] = velocity[other]
                                      /\ acceleration'[other] = acceleration[other]
         /\ position'[m] = position[m] \/ ~Collides(Box(m, position'[m]), m)
  <1>1. PICK v \in Signs \X Signs :
          /\ velocity' = [velocity EXCEPT ![m] = v]
          /\ acceleration[m] = <<0, 0>> => v = <<0, 0>>
          /\ \E x, y \in 0..Stride[m] :
               position' = [position EXCEPT ![m] = Swept(m, <<x * v[1], y * v[2]>>)]
    BY MoverSpeed
  <1>2. acceleration' = [acceleration EXCEPT ![m] = <<0, 0>>]  BY DEF UpdateMover
  <1>3. v \in Signs \X Signs  OBVIOUS
  <1>4. PICK x \in 0..Stride[m], y \in 0..Stride[m] :
          position' = [position EXCEPT ![m] = Swept(m, <<x * v[1], y * v[2]>>)]
    BY <1>1
  <1>5. <<x * v[1], y * v[2]>> \in Int \X Int
    <2>1. Stride[m] \in Nat  BY PhysicsAssumption
    <2>2. v[1] \in {-1, 0, 1} /\ v[2] \in {-1, 0, 1}  BY <1>3 DEF Signs
    <2>3. x \in Int /\ y \in Int  BY <2>1
    <2>4. x * v[1] \in Int /\ y * v[2] \in Int  BY <2>2, <2>3
    <2>5. QED  BY <2>4
  <1> DEFINE q == Swept(m, <<x * v[1], y * v[2]>>)
  <1>6. position[m] \in Int \X Int  BY DEF PhysicsTypeOK
  <1>7. q \in Int \X Int /\ (q = position[m] \/ ~Collides(Box(m, q), m))
    BY <1>5, <1>6, SweptIsFree
  <1>8. position' = [position EXCEPT ![m] = q]  BY <1>4
  <1> HIDE DEF q
  <1>9. position' \in [Mover -> Int \X Int] /\ position'[m] = q
    BY <1>7, <1>8 DEF PhysicsTypeOK
  <1>10. velocity' \in [Mover -> Signs \X Signs] /\ velocity'[m] = v
    BY <1>1, <1>3 DEF PhysicsTypeOK
  <1>11. acceleration' \in [Mover -> Signs \X Signs] /\ acceleration'[m] = <<0, 0>>
    BY <1>2 DEF PhysicsTypeOK, Signs
  <1>12. PhysicsTypeOK'  BY <1>9, <1>10, <1>11 DEF PhysicsTypeOK
  <1>13. \A other \in Mover \ {m} : /\ position'[other] = position[other]
                                   /\ velocity'[other] = velocity[other]
                                   /\ acceleration'[other] = acceleration[other]
    BY <1>1, <1>2, <1>8 DEF PhysicsTypeOK
  <1>14. acceleration[m] = <<0, 0>> => velocity'[m] = <<0, 0>>  BY <1>1, <1>10
  <1>15. QED  BY <1>7, <1>9, <1>11, <1>12, <1>13, <1>14

\* An acceleration changes that of one mover.
LEMMA AccelerateTypes ==
  ASSUME PhysicsTypeOK, NEW m \in Mover, NEW d \in Signs \X Signs, Accelerate(m, d),
         UNCHANGED <<position, velocity>>
  PROVE  /\ PhysicsTypeOK'
         /\ acceleration[m] = <<0, 0>> => acceleration'[m] = d
         /\ acceleration[m] = d => acceleration'[m] = d
         /\ d = <<0, 0>> => acceleration'[m] = acceleration[m]
         /\ \A other \in Mover \ {m} : acceleration'[other] = acceleration[other]
  <1> DEFINE sum(x, y) == IF x + y > 1 THEN 1 ELSE IF x + y < -1 THEN -1 ELSE x + y
             a == acceleration[m]
             b == <<sum(a[1], d[1]), sum(a[2], d[2])>>
  <1>1. acceleration' = [acceleration EXCEPT ![m] = b]  BY DEF Accelerate
  <1>2. a \in Signs \X Signs  BY DEF PhysicsTypeOK
  <1>3. \A x, y \in Signs : sum(x, y) \in Signs  BY DEF Signs
  <1>4. \A x \in Signs : sum(0, x) = x /\ sum(x, x) = x /\ sum(x, 0) = x  BY DEF Signs
  <1> HIDE DEF sum
  <1>5. b \in Signs \X Signs  BY <1>2, <1>3
  <1>6. d = <<d[1], d[2]>> /\ a = <<a[1], a[2]>>  BY <1>2
  <1>7. /\ a = <<0, 0>> => b = d
        /\ a = d => b = d
        /\ d = <<0, 0>> => b = a
    BY <1>2, <1>4, <1>6
  <1> HIDE DEF b
  <1>8. acceleration' \in [Mover -> Signs \X Signs] /\ acceleration'[m] = b
    BY <1>1, <1>5 DEF PhysicsTypeOK
  <1>9. \A other \in Mover \ {m} : acceleration'[other] = acceleration[other]
    BY <1>1 DEF PhysicsTypeOK
  <1>10. PhysicsTypeOK'  BY <1>8 DEF PhysicsTypeOK
  <1>11. QED  BY <1>7, <1>8, <1>9, <1>10

-----------------------------------------------------------------------------
(***************************************************************************)
(* Animations.                                                             *)
(***************************************************************************)

\* The name that a change of atlas looks for is that of the sequence that plays.
NameIsPlayed == Playing => name = sequence[2]

\* Inductive, as long as nothing is called once a frame that does not exist has been
\* read: Play would clear swapped.
SpriteInv == SpriteTypeOK /\ PlaysWhatWasAsked /\ NameIsPlayed

LEMMA PlayKeeps ==
  ASSUME SpriteInv, ~badFrame, NEW n \in Sequence, NEW k \in -1..MaxLoops, Play(n, k),
         calls' \in 0..MaxCalls
  PROVE  SpriteInv'
  <1>1. CASE Exists(atlas, n)
    <2>1. /\ sequence' = <<atlas, n>> /\ name' = n /\ rect' = <<atlas, n, 0>> /\ frame' = 0
          /\ loops' = k /\ asked' = k /\ passes' = 0 /\ swapped' = FALSE
          /\ atlas' = atlas /\ badFrame' = badFrame
      BY <1>1 DEF Play
    <2>2. atlas \in Atlas /\ FrameCount[atlas][n] \in Nat \ {0}
      BY <1>1, SpriteAssumption DEF SpriteInv, SpriteTypeOK, Exists
    <2>3. sequence' \in Atlas \X Sequence /\ sequence'[1] = atlas /\ sequence'[2] = n
      BY <2>1, <2>2
    <2>4. SpriteTypeOK'  BY <2>1, <2>2, <2>3, SpriteAssumption DEF SpriteInv, SpriteTypeOK
    <2>5. Frames(sequence') > 0 /\ frame' < Frames(sequence)'  BY <2>1, <2>2, <2>3 DEF Frames
    <2>6. rect' = <<sequence'[1], sequence'[2], frame'>> /\ sequence'[1] = atlas'
      BY <2>1, <2>3
    <2>7. PlaysWhatWasAsked'
      BY <2>1, <2>5, <2>6, SpriteAssumption DEF PlaysWhatWasAsked, Playing
    <2>8. NameIsPlayed'  BY <2>1, <2>3 DEF NameIsPlayed
    <2>9. QED  BY <2>4, <2>7, <2>8 DEF SpriteInv
  <1>2. CASE ~Exists(atlas, n)
    <2>1. UNCHANGED <<atlas, rect, sequence, name, frame, loops, badFrame, asked, passes,
                      swapped>>
      BY <1>2 DEF Play
    <2>2. QED
      BY <2>1 DEF SpriteInv, SpriteTypeOK, PlaysWhatWasAsked, NameIsPlayed, Playing, Frames
  <1>3. QED  BY <1>1, <1>2

LEMMA ShowStillKeeps ==
  ASSUME SpriteInv, NEW id, ShowStill(id), calls' = calls
  PROVE  SpriteInv' /\ ~Playing'
  BY DEF SpriteInv, SpriteTypeOK, PlaysWhatWasAsked, NameIsPlayed, Playing, ShowStill, Frames

LEMMA SetAtlasKeeps ==
  ASSUME SpriteInv, ~badFrame, NEW a \in Atlas \union {None}, SetAtlas(a), calls' \in 0..MaxCalls
  PROVE  SpriteInv'
  <1>1. /\ atlas' = a /\ swapped' = (swapped \/ Playing)
        /\ sequence' = IF Playing /\ Exists(a, name) THEN <<a, name>> ELSE None
        /\ name' \in {name, None}
        /\ UNCHANGED <<rect, frame, loops, badFrame, asked, passes>>
    BY DEF SetAtlas
  <1>2. SpriteTypeOK'
    <2>1. sequence' \in (Atlas \X Sequence) \union {None}
      <3>1. Playing => name \in Sequence
        BY DEF SpriteInv, SpriteTypeOK, NameIsPlayed, Playing
      <3>2. QED  BY <1>1, <3>1 DEF Exists
    <2>2. QED  BY <1>1, <2>1 DEF SpriteInv, SpriteTypeOK
  <1>3. PlaysWhatWasAsked'
    BY <1>1 DEF SpriteInv, PlaysWhatWasAsked, Playing
  <1>4. NameIsPlayed'
    <2>1. CASE Playing /\ Exists(a, name)
      <3>1. name' = name  BY <2>1 DEF SetAtlas
      <3>2. QED  BY <1>1, <2>1, <3>1 DEF NameIsPlayed
    <2>2. CASE ~(Playing /\ Exists(a, name))
      BY <1>1, <2>2 DEF NameIsPlayed, Playing
    <2>3. QED  BY <2>1, <2>2
  <1>5. QED  BY <1>2, <1>3, <1>4 DEF SpriteInv

LEMMA NextFrameKeeps ==
  ASSUME SpriteInv, NextFrame, calls' = calls
  PROVE  SpriteInv' /\ badFrame' = FALSE
  <1>1. /\ Playing /\ ~badFrame /\ frame < Frames(sequence)
        /\ UNCHANGED <<atlas, name, badFrame, asked, swapped>>
    BY DEF NextFrame
  <1>2. /\ sequence \in Atlas \X Sequence /\ Frames(sequence) \in Nat
        /\ frame \in Nat /\ passes \in Nat /\ loops \in -1..MaxLoops /\ asked \in -1..MaxLoops
        /\ MaxLoops \in Nat
    BY <1>1, SpriteAssumption DEF SpriteInv, SpriteTypeOK, Playing, Frames
  <1> DEFINE f == Frames(sequence)
             last == frame + 1 = f
             next == IF last THEN 0 ELSE frame + 1
  <1>3. frame' = next /\ passes' = IF last /\ passes <= asked THEN passes + 1 ELSE passes
    BY DEF NextFrame
  <1>4. next \in Nat /\ next < f /\ passes' \in Nat  BY <1>1, <1>2, <1>3
  <1>5. CASE last /\ loops = 0
    <2>1. sequence' = None /\ loops' = loops  BY <1>5 DEF NextFrame, LastPass
    <2>2. SpriteTypeOK'  BY <1>1, <1>3, <1>4, <2>1 DEF SpriteInv, SpriteTypeOK
    <2>3. PlaysWhatWasAsked'
      BY <1>1, <2>1 DEF PlaysWhatWasAsked, Playing, SpriteInv
    <2>4. QED  BY <1>1, <2>1, <2>2, <2>3 DEF SpriteInv, SpriteTypeOK, NameIsPlayed, Playing
  <1>6. CASE ~(last /\ loops = 0)
    <2>1. /\ loops' = IF last /\ loops > 0 THEN loops - 1 ELSE loops
          /\ rect' = <<sequence[1], sequence[2], next>>
          /\ sequence' = sequence
      BY <1>6 DEF NextFrame, LastPass
    <2>2. loops' \in -1..MaxLoops  BY <1>2, <2>1
    <2>3. SpriteTypeOK'
      BY <1>1, <1>3, <1>4, <2>1, <2>2 DEF SpriteInv, SpriteTypeOK
    <2>4. /\ asked >= 0 => passes + loops = asked
          /\ asked < 0 => loops < 0
      BY <1>1 DEF SpriteInv, PlaysWhatWasAsked
    <2>5. /\ asked' >= 0 => passes' + loops' = asked'
          /\ asked' < 0 => loops' < 0
      BY <1>1, <1>2, <1>3, <1>6, <2>1, <2>4
    <2>6. ~swapped' => /\ ~badFrame'
                       /\ frame' < Frames(sequence)'
                       /\ rect' = <<sequence'[1], sequence'[2], frame'>> /\ sequence'[1] = atlas'
      BY <1>1, <1>3, <1>4, <2>1 DEF SpriteInv, PlaysWhatWasAsked, Frames
    <2>7. PlaysWhatWasAsked'  BY <1>1, <2>1, <2>5, <2>6 DEF PlaysWhatWasAsked, Playing
    <2>8. QED  BY <1>1, <2>1, <2>3, <2>7 DEF SpriteInv, SpriteTypeOK, NameIsPlayed, Playing
  <1>7. QED  BY <1>5, <1>6

LEMMA ReadBadFrameKeeps ==
  ASSUME SpriteInv, ReadBadFrame, calls' = calls
  PROVE  SpriteInv'
  <1>1. /\ Playing /\ frame >= Frames(sequence) /\ badFrame' = TRUE
        /\ UNCHANGED <<atlas, rect, sequence, name, frame, loops, asked, passes, swapped>>
    BY DEF ReadBadFrame
  <1>2. frame \in Nat /\ Frames(sequence) \in Nat
    BY <1>1, SpriteAssumption DEF SpriteInv, SpriteTypeOK, Playing, Frames
  <1>3. swapped  BY <1>1, <1>2 DEF SpriteInv, PlaysWhatWasAsked
  <1>4. SpriteTypeOK'  BY <1>1 DEF SpriteInv, SpriteTypeOK
  <1>5. PlaysWhatWasAsked'  BY <1>1, <1>3 DEF SpriteInv, PlaysWhatWasAsked, Playing
  <1>6. QED  BY <1>1, <1>4, <1>5 DEF SpriteInv, NameIsPlayed, Playing

-----------------------------------------------------------------------------
(***************************************************************************)
(* The frames.                                                             *)
(***************************************************************************)

\* A frame that does not exist is read at the end of a frame, and no other begins.
BadFrameEnds == badFrame => todo = {}

FrameInv == TypeOK /\ SpriteInv /\ BadFrameEnds

LEMMA FrameInit == Init => FrameInv
  <1> SUFFICES ASSUME Init PROVE FrameInv  OBVIOUS
  <1>1. PICK s \in Starts : /\ position = s.position
                            /\ animated = s.animated
                            /\ SpriteInit(s.atlas)
    BY DEF Init
  <1>2. s \in [position : [Mover -> Int \X Int], animated : BOOLEAN,
               atlas : Atlas \union {None}]
    BY CharacterAssumption
  <1>3. PhysicsTypeOK  BY <1>1, <1>2 DEF Init, PhysicsTypeOK, Signs
  <1>4. SpriteTypeOK
    <2>1. atlas \in Atlas \union {None}  BY <1>1, <1>2 DEF SpriteInit
    <2>2. 0 \in -1..MaxLoops /\ 0 \in 0..MaxCalls  BY SpriteAssumption
    <2>3. QED  BY <1>1, <2>1, <2>2 DEF SpriteInit, SpriteTypeOK
  <1>5. PlaysWhatWasAsked /\ NameIsPlayed
    BY <1>1 DEF SpriteInit, PlaysWhatWasAsked, NameIsPlayed, Playing
  <1>6. BadFrameEnds  BY <1>1 DEF SpriteInit, BadFrameEnds
  <1>7. direction \in Directions /\ lastDirection \in Directions  BY DEF Init, Directions
  <1>8. keys \in Signs \X Signs /\ settled \in 0..3  BY DEF Init, Signs
  <1>9. lastMoving \in BOOLEAN /\ animated \in BOOLEAN
        /\ todo \subseteq Mover \union {"character", "animators"}
    BY <1>1, <1>2 DEF Init
  <1>10. QED
    BY <1>3, <1>4, <1>5, <1>6, <1>7, <1>8, <1>9 DEF FrameInv, SpriteInv, TypeOK

\* The character turns to a direction, and shows it.
LEMMA CharacterTurns ==
  ASSUME FrameInv, NEW d \in Keys, UpdateCharacter(d)
  PROVE  FrameInv'
  <1>1. d \in Signs \X Signs  BY CharacterAssumption
  <1>2. /\ "character" \in todo /\ todo' = todo \ {"character"}
        /\ Accelerate(Avatar, d) /\ direction' = Facing(d)
        /\ UNCHANGED <<position, velocity, animated>>
    BY DEF UpdateCharacter
  <1>3. PhysicsTypeOK'
    BY <1>1, <1>2, AccelerateTypes, CharacterAssumption DEF FrameInv, TypeOK
  <1>4. direction' \in Directions
    <2>1. direction \in Directions  BY DEF FrameInv, TypeOK
    <2>2. QED  BY <1>2, <2>1 DEF Facing, Directions
  <1>5. ~badFrame  BY <1>2 DEF FrameInv, BadFrameEnds
  <1>6. SpriteInv'
    <2>1. CASE ~PoseChanges(IsMoving) \/ ~animated
      <3>1. UNCHANGED spriteVars  BY <2>1 DEF UpdateCharacter
      <3>2. QED
        BY <3>1 DEF spriteVars, FrameInv, SpriteInv, SpriteTypeOK, PlaysWhatWasAsked,
                    NameIsPlayed, Playing, Frames
    <2>2. CASE PoseChanges(IsMoving) /\ animated /\ IsMoving
      <3>1. Play(Walk(direction'), -1) /\ calls' = calls  BY <2>2 DEF UpdateCharacter
      <3>2. Walk(direction') \in Sequence  BY <1>4, CharacterAssumption
      <3>3. calls' \in 0..MaxCalls  BY <3>1 DEF FrameInv, SpriteInv, SpriteTypeOK
      <3>4. -1 \in -1..MaxLoops  BY SpriteAssumption
      <3>5. QED  BY <1>5, <3>1, <3>2, <3>3, <3>4, PlayKeeps DEF FrameInv
    <2>3. CASE PoseChanges(IsMoving) /\ animated /\ ~IsMoving
      <3>1. ShowStill(Idle(direction')) /\ calls' = calls  BY <2>3 DEF UpdateCharacter
      <3>2. QED  BY <3>1, ShowStillKeeps DEF FrameInv
    <2>4. QED  BY <2>1, <2>2, <2>3
  <1>7. badFrame' = badFrame
    BY DEF UpdateCharacter, spriteVars, Play, ShowStill
  <1>8. lastDirection' \in Directions /\ lastMoving' \in BOOLEAN
    BY <1>4 DEF UpdateCharacter, FrameInv, TypeOK, IsMoving
  <1>9. keys' \in Signs \X Signs /\ settled' \in 0..3
    <2>1. keys \in Signs \X Signs /\ settled \in 0..3  BY DEF FrameInv, TypeOK
    <2>2. CASE animated
      <3>1. /\ keys' = d
            /\ settled' = IF d # keys THEN 1 ELSE IF settled < 3 THEN settled + 1 ELSE 3
        BY <2>2 DEF UpdateCharacter
      <3>2. QED  BY <1>1, <2>1, <3>1
    <2>3. CASE ~animated
      BY <2>1, <2>3 DEF UpdateCharacter
    <2>4. QED  BY <2>2, <2>3
  <1>10. TypeOK'
    BY <1>2, <1>3, <1>4, <1>6, <1>8, <1>9 DEF FrameInv, SpriteInv, TypeOK
  <1>11. BadFrameEnds'  BY <1>5, <1>7 DEF BadFrameEnds
  <1>12. QED  BY <1>6, <1>10, <1>11 DEF FrameInv

LEMMA FrameInvStep == FrameInv /\ [Next]_vars => FrameInv'
  <1> SUFFICES ASSUME FrameInv, [Next]_vars PROVE FrameInv'  OBVIOUS
  <1>1. TypeOK /\ SpriteInv /\ BadFrameEnds  BY DEF FrameInv
  <1> DEFINE spritesStay == UNCHANGED spriteVars
             movesStay == UNCHANGED physicsVars
             poseStays == UNCHANGED <<poseVars, animated, keys, settled>>
  <1>2. ASSUME spritesStay PROVE SpriteInv' /\ badFrame' = badFrame
    BY <1>1, <1>2 DEF spriteVars, SpriteInv, SpriteTypeOK, PlaysWhatWasAsked, NameIsPlayed,
                      Playing, Frames
  <1>3. ASSUME movesStay PROVE PhysicsTypeOK'
    BY <1>1, <1>3 DEF physicsVars, PhysicsTypeOK, TypeOK
  <1>4. ASSUME poseStays, PhysicsTypeOK', SpriteInv',
               todo' \subseteq Mover \union {"character", "animators"}
        PROVE  TypeOK'
    BY <1>1, <1>4 DEF poseVars, TypeOK, SpriteInv
  <1>5. CASE BeginFrame
    <2>1. spritesStay /\ movesStay /\ poseStays
          /\ todo' = Mover \union {"character", "animators"} /\ ~badFrame
      BY <1>5 DEF BeginFrame
    <2>2. SpriteInv' /\ badFrame' = FALSE
      BY <1>2, <2>1 DEF SpriteInv, SpriteTypeOK
    <2>3. BadFrameEnds'  BY <2>2 DEF BadFrameEnds
    <2>4. QED  BY <1>3, <1>4, <2>1, <2>2, <2>3 DEF FrameInv
  <1>6. ASSUME NEW m \in Mover, UpdateAMover(m) PROVE FrameInv'
    <2>1. /\ spritesStay /\ poseStays /\ UpdateMover(m)
          /\ m \in todo /\ todo' = todo \ {m}
      BY <1>6 DEF UpdateAMover
    <2>2. PhysicsTypeOK'  BY <1>1, <2>1, MoverMoves DEF TypeOK
    <2>3. SpriteInv' /\ badFrame' = badFrame  BY <1>2, <2>1
    <2>4. BadFrameEnds'  BY <1>1, <2>1, <2>3 DEF BadFrameEnds
    <2>5. TypeOK'  BY <1>1, <1>4, <2>1, <2>2, <2>3 DEF TypeOK
    <2>6. QED  BY <2>3, <2>4, <2>5 DEF FrameInv
  <1>7. ASSUME NEW m \in Mover, NEW d \in Keys, AccelerateAnother(m, d) PROVE FrameInv'
    <2>0. d \in Signs \X Signs  BY CharacterAssumption
    <2>1. /\ spritesStay /\ poseStays /\ todo' = todo
          /\ Accelerate(m, d) /\ UNCHANGED <<position, velocity>>
      BY <1>7 DEF AccelerateAnother, frameVars
    <2>2. PhysicsTypeOK'  BY <1>1, <2>0, <2>1, AccelerateTypes DEF TypeOK
    <2>3. SpriteInv' /\ badFrame' = badFrame  BY <1>2, <2>1
    <2>4. BadFrameEnds'  BY <1>1, <2>1, <2>3 DEF BadFrameEnds
    <2>5. TypeOK'  BY <1>1, <1>4, <2>1, <2>2, <2>3 DEF TypeOK
    <2>6. QED  BY <2>3, <2>4, <2>5 DEF FrameInv
  <1>8. ASSUME NEW d \in Keys, UpdateCharacter(d) PROVE FrameInv'
    BY <1>8, CharacterTurns
  <1>9. CASE UpdateAnimators
    <2>1. /\ SameFrame \/ ReadBadFrame
          /\ movesStay /\ poseStays /\ calls' = calls /\ todo' = {}
      BY <1>9 DEF UpdateAnimators, AnimatorsTurn
    <2>2. CASE SameFrame
      <3>1. spritesStay  BY <2>1, <2>2 DEF SameFrame, spriteVars
      <3>2. QED  BY <1>2, <1>3, <1>4, <2>1, <3>1 DEF FrameInv, BadFrameEnds
    <2>3. CASE ReadBadFrame
      BY <1>1, <1>3, <1>4, <2>1, <2>3, ReadBadFrameKeeps DEF FrameInv, BadFrameEnds
    <2>4. QED  BY <2>1, <2>2, <2>3
  <1>10. CASE UpdateFrame
    <2>1. NextFrame /\ movesStay /\ poseStays /\ calls' = calls /\ todo' = {}
      BY <1>10 DEF UpdateFrame, AnimatorsTurn
    <2>2. QED  BY <1>1, <1>3, <1>4, <2>1, NextFrameKeeps DEF FrameInv, BadFrameEnds
  <1>11. CASE UseAnimator
    <2>1. /\ ~badFrame /\ todo' = {} /\ movesStay /\ poseStays
          /\ calls < MaxCalls /\ calls' = calls + 1
          /\ \/ \E a \in Atlas \union {None} : SetAtlas(a)
             \/ \E n \in Sequence, k \in 0..MaxLoops : Play(n, k)
      BY <1>11 DEF UseAnimator, frameVars
    <2>2. calls' \in 0..MaxCalls
      BY <1>1, <2>1, SpriteAssumption DEF SpriteInv, SpriteTypeOK
    <2>3. ASSUME NEW a \in Atlas \union {None}, SetAtlas(a) PROVE SpriteInv'
      BY <1>1, <2>1, <2>2, <2>3, SetAtlasKeeps
    <2>4. ASSUME NEW n \in Sequence, NEW k \in 0..MaxLoops, Play(n, k) PROVE SpriteInv'
      <3>1. k \in -1..MaxLoops  OBVIOUS
      <3>2. QED  BY <1>1, <2>1, <2>2, <2>4, <3>1, PlayKeeps
    <2>5. SpriteInv'  BY <2>1, <2>3, <2>4
    <2>6. QED  BY <1>3, <1>4, <2>1, <2>5 DEF FrameInv, BadFrameEnds
  <1>12. CASE UNCHANGED vars
    <2>1. spritesStay /\ movesStay /\ poseStays /\ todo' = todo  BY <1>12 DEF vars, frameVars
    <2>2. SpriteInv' /\ badFrame' = badFrame  BY <1>2, <2>1
    <2>3. BadFrameEnds'  BY <1>1, <2>1, <2>2 DEF BadFrameEnds
    <2>4. TypeOK'  BY <1>1, <1>3, <1>4, <2>1, <2>2 DEF TypeOK
    <2>5. QED  BY <2>2, <2>3, <2>4 DEF FrameInv
  <1>13. QED
    BY <1>5, <1>6, <1>7, <1>8, <1>9, <1>10, <1>11, <1>12 DEF Next

LEMMA FrameInvariant == Spec => []FrameInv
  BY FrameInit, FrameInvStep, PTL DEF Spec

\* The state keeps its types, whatever the scene and the order of the updates.
THEOREM TypeCorrect == Spec => []TypeOK
  <1>1. FrameInv => TypeOK  BY DEF FrameInv
  <1>2. QED  BY <1>1, FrameInvariant, PTL

\* SpriteAnimator::onUpdate, play and onAtlasChanged: for every atlas and number of
\* loops, a sequence is played once more than the loops that were asked for, and shows
\* the frame it is at, unless the atlas was changed meanwhile.
THEOREM PlaysAsAsked == Spec => []PlaysWhatWasAsked
  <1>1. FrameInv => PlaysWhatWasAsked  BY DEF FrameInv, SpriteInv
  <1>2. QED  BY <1>1, FrameInvariant, PTL

-----------------------------------------------------------------------------
(***************************************************************************)
(* Colliders.                                                              *)
(***************************************************************************)

LEMMA ProductKeepsOrder ==
  ASSUME NEW a \in Int, NEW b \in Int, NEW c \in Nat \ {0}, a * c < b * c
  PROVE  a < b
  <1> SUFFICES ASSUME a >= b PROVE FALSE  OBVIOUS
  <1>1. (a - b) * c >= 0  OBVIOUS
  <1>2. (a - b) * c = a * c - b * c  OBVIOUS
  <1>3. a * c \in Int /\ b * c \in Int  OBVIOUS
  <1>4. QED  BY <1>1, <1>2, <1>3

LEMMA Quotient ==
  ASSUME NEW x \in Nat
  PROVE  /\ x \div CellSize \in Nat
         /\ (x \div CellSize) * CellSize <= x
         /\ x < (x \div CellSize + 1) * CellSize
  BY PhysicsAssumption

\* The index that a coordinate is cut to, and kept in the map: cells that lie before it
\* or after it, entirely, have a smaller or a greater index.
LEMMA CellIndexBounds ==
  ASSUME NEW count \in Nat \ {0}, NEW x \in Int, NEW i \in 0..(count - 1)
  PROVE  /\ CellIndex(x, count) \in Int
         /\ x >= i * CellSize => i <= CellIndex(x, count)
         /\ x < (i + 1) * CellSize => CellIndex(x, count) <= i
  <1>1. CellSize \in Nat \ {0}  BY PhysicsAssumption
  <1>2. i \in Nat /\ i <= count - 1 /\ i * CellSize \in Nat /\ (i + 1) * CellSize \in Nat
    BY <1>1
  <1>3. CASE x < 0
    BY <1>2, <1>3 DEF CellIndex
  <1>4. CASE x >= 0
    <2> DEFINE q == x \div CellSize
    <2>1. q \in Nat /\ q * CellSize <= x /\ x < (q + 1) * CellSize  BY <1>4, Quotient
    <2>2. CellIndex(x, count) = IF q > count - 1 THEN count - 1 ELSE q
      BY <1>4 DEF CellIndex
    <2> HIDE DEF q
    <2>3. q * CellSize \in Int /\ (q + 1) * CellSize \in Int  BY <1>1, <2>1
    <2>4. ASSUME x >= i * CellSize PROVE i <= q
      <3>1. i * CellSize < (q + 1) * CellSize  BY <1>2, <2>1, <2>3, <2>4
      <3>2. i < q + 1  BY <1>1, <1>2, <2>1, <3>1, ProductKeepsOrder
      <3>3. QED  BY <1>2, <2>1, <3>2
    <2>5. ASSUME x < (i + 1) * CellSize PROVE q <= i
      <3>1. q * CellSize < (i + 1) * CellSize  BY <1>2, <2>1, <2>3, <2>5
      <3>2. q < i + 1  BY <1>1, <1>2, <2>1, <3>1, ProductKeepsOrder
      <3>3. QED  BY <1>2, <2>1, <3>2
    <2>6. QED  BY <1>2, <2>1, <2>2, <2>4, <2>5
  <1>5. QED  BY <1>3, <1>4

\* MapCollider::collides misses no cell: the cells that it looks at, with cut and
\* clamped coordinates, are enough.
LEMMA MapIsClear ==
  ASSUME NEW m \in Mover, NEW p \in Int \X Int, ~MapCollides(Box(m, p))
  PROVE  Clear(m, p)
  <1> SUFFICES ASSUME NEW cell \in MapCells, Blocks(cell), Overlap(Box(m, p), MapRect(cell))
               PROVE  FALSE
    BY DEF Clear
  <1> DEFINE b == Box(m, p)
             o == <<-MapOrigin[1], -MapOrigin[2]>>
             r == At(b, o)
             x == cell[1]
             y == cell[2]
             t == TypeBox[MapCell[cell]]
             c == CellRect(cell)
  <1>1. MapOrigin[1] \in Int /\ MapOrigin[2] \in Int /\ o \in Int \X Int /\ MapOrigin \in Int \X Int
    BY PhysicsAssumption
  <1>2. /\ b \in Rects /\ b.left \in Int /\ b.top \in Int /\ b.width \in Nat /\ b.height \in Nat
    BY BoxAt DEF Rects
  <1> HIDE DEF b
  <1>3. /\ r.left = b.left - MapOrigin[1] /\ r.top = b.top - MapOrigin[2]
        /\ r.width = b.width /\ r.height = b.height
    BY <1>1, <1>2, AtMoves
  <1>4. /\ x \in 0..(Columns - 1) /\ y \in 0..(Rows - 1) /\ cell = <<x, y>>
        /\ Columns \in Nat \ {0} /\ Rows \in Nat \ {0} /\ CellSize \in Nat \ {0}
    BY PhysicsAssumption DEF MapCells
  <1>5. /\ t \in Rects
        /\ t.left >= 0 /\ t.left + t.width <= CellSize
        /\ t.top >= 0 /\ t.top + t.height <= CellSize
    BY PhysicsAssumption DEF Blocks
  <1>6. t.left \in Int /\ t.top \in Int /\ t.width \in Nat /\ t.height \in Nat
    BY <1>5 DEF Rects
  <1>7. x * CellSize \in Int /\ y * CellSize \in Int
        /\ (x + 1) * CellSize = x * CellSize + CellSize
        /\ (y + 1) * CellSize = y * CellSize + CellSize
    BY <1>4
  <1>8. /\ c \in Rects
        /\ c.left = t.left + x * CellSize /\ c.top = t.top + y * CellSize
        /\ c.width = t.width /\ c.height = t.height
    <2> HIDE DEF t
    <2> <<x * CellSize, y * CellSize>> \in Int \X Int  BY <1>7
    <2> c = At(t, <<x * CellSize, y * CellSize>>)  BY DEF CellRect, t
    <2> QED  BY <1>5, AtMoves
  <1> HIDE DEF t, c, r
  <1>9. /\ MapRect(cell).left = c.left + MapOrigin[1] /\ MapRect(cell).top = c.top + MapOrigin[2]
        /\ MapRect(cell).width = c.width /\ MapRect(cell).height = c.height
    BY <1>1, <1>8, AtMoves DEF MapRect, c
  <1>10. /\ b.left + b.width > c.left + MapOrigin[1]
         /\ b.top + b.height > c.top + MapOrigin[2]
         /\ c.left + MapOrigin[1] + c.width > b.left
         /\ c.top + MapOrigin[2] + c.height > b.top
    BY <1>9 DEF Overlap, b
  <1>11. /\ r.left + r.width > c.left /\ r.top + r.height > c.top
         /\ c.left + c.width > r.left /\ c.top + c.height > r.top
         /\ r.left \in Int /\ r.top \in Int /\ r.left + r.width \in Int /\ r.top + r.height \in Int
         /\ r.left + r.width \in Int /\ r.top + r.height \in Int
    BY <1>1, <1>2, <1>3, <1>6, <1>7, <1>8, <1>10
  <1>12. /\ r.left + r.width >= x * CellSize /\ r.left < (x + 1) * CellSize
         /\ r.top + r.height >= y * CellSize /\ r.top < (y + 1) * CellSize
    BY <1>4, <1>5, <1>6, <1>7, <1>8, <1>11
  <1>13. x \in CellIndex(r.left, Columns)..CellIndex(r.left + r.width, Columns)
    BY <1>4, <1>11, <1>12, CellIndexBounds
  <1>14. y \in CellIndex(r.top, Rows)..CellIndex(r.top + r.height, Rows)
    BY <1>4, <1>11, <1>12, CellIndexBounds
  <1>15. Intersects(c, r)
    BY <1>6, <1>7, <1>8, <1>11, <1>2, <1>3 DEF Intersects
  <1>16. Blocks(<<x, y>>) /\ Intersects(CellRect(<<x, y>>), r)
    BY <1>4, <1>15 DEF c
  <1>17. MapCollides(b)  BY <1>13, <1>14, <1>16 DEF MapCollides, r
  <1>18. QED  BY <1>17 DEF b

LEMMA BoxIsClear ==
  ASSUME NEW m \in Mover, NEW p \in Int \X Int, NEW other \in Mover,
         position[other] \in Int \X Int, ~BoxCollides(other, Box(m, p))
  PROVE  ~Overlap(Box(m, p), Box(other, position[other]))
  <1> DEFINE b == Box(m, p)
             q == position[other]
             o == <<-q[1], -q[2]>>
             r == At(b, o)
             h == HitBox[other]
             c == Box(other, q)
  <1>1. q[1] \in Int /\ q[2] \in Int /\ o \in Int \X Int  OBVIOUS
  <1>2. /\ b \in Rects /\ b.left \in Int /\ b.top \in Int /\ b.width \in Nat /\ b.height \in Nat
    BY BoxAt DEF Rects
  <1>3. /\ h.left \in Int /\ h.top \in Int /\ h.width \in Nat /\ h.height \in Nat
    BY PhysicsAssumption DEF Rects
  <1>4. ~Intersects(h, r)  BY DEF BoxCollides
  <1>5. /\ c.left = h.left + q[1] /\ c.top = h.top + q[2]
        /\ c.width = h.width /\ c.height = h.height
    BY BoxAt
  <1> HIDE DEF b, c
  <1>6. /\ r.left = b.left - q[1] /\ r.top = b.top - q[2]
        /\ r.width = b.width /\ r.height = b.height
    BY <1>1, <1>2, AtMoves
  <1> HIDE DEF r, h, q
  <1>7. ~Overlap(b, c)
    BY <1>1, <1>2, <1>3, <1>4, <1>5, <1>6 DEF Overlap, Intersects
  <1>8. QED  BY <1>7 DEF b, c, q

LEMMA OverlapIsMutual == ASSUME NEW a, NEW b PROVE Overlap(a, b) <=> Overlap(b, a)
  BY DEF Overlap

\* The update of one mover, in whatever order.
LEMMA MoverStaysClear ==
  ASSUME PhysicsTypeOK, NothingOverlaps, NEW m \in Mover, UpdateMover(m)
  PROVE  NothingOverlaps'
  <1>1. /\ PhysicsTypeOK'
        /\ \A other \in Mover \ {m} : position'[other] = position[other]
        /\ position'[m] = position[m] \/ ~Collides(Box(m, position'[m]), m)
    BY MoverMoves
  <1> DEFINE p == position'[m]
  <1>2. p \in Int \X Int  BY <1>1 DEF PhysicsTypeOK
  <1>3. Clear(m, p) /\ \A other \in Mover \ {m} : ~Overlap(Box(m, p), Box(other, position[other]))
    <2>1. CASE p = position[m]
      BY <2>1 DEF NothingOverlaps
    <2>2. CASE ~Collides(Box(m, p), m)
      <3>1. ~MapCollides(Box(m, p)) /\ \A other \in Mover \ {m} : ~BoxCollides(other, Box(m, p))
        BY <2>2 DEF Collides
      <3> HIDE DEF p
      <3>2. Clear(m, p)  BY <1>2, <3>1, MapIsClear
      <3>3. \A other \in Mover \ {m} : position[other] \in Int \X Int  BY DEF PhysicsTypeOK
      <3>4. QED  BY <1>2, <3>1, <3>2, <3>3, BoxIsClear
    <2>3. QED  BY <1>1, <2>1, <2>2
  <1> HIDE DEF p
  <1>4. ASSUME NEW n \in Mover
        PROVE  /\ Clear(n, position'[n])
               /\ \A other \in Mover \ {n} :
                    ~Overlap(Box(n, position'[n]), Box(other, position'[other]))
    <2>1. CASE n = m
      <3>1. position'[n] = p  BY <2>1 DEF p
      <3>2. QED  BY <1>1, <1>3, <2>1, <3>1
    <2>2. CASE n # m
      <3>1. position'[n] = position[n]  BY <1>1, <2>2
      <3>2. Clear(n, position'[n])  BY <3>1 DEF NothingOverlaps
      <3>3. ASSUME NEW other \in Mover \ {n}
            PROVE  ~Overlap(Box(n, position[n]), Box(other, position'[other]))
        <4>1. CASE other = m
          <5>1. position'[other] = p  BY <4>1 DEF p
          <5>2. ~Overlap(Box(m, p), Box(n, position[n]))  BY <1>3, <2>2
          <5>3. QED  BY <4>1, <5>1, <5>2, OverlapIsMutual
        <4>2. CASE other # m
          BY <1>1, <4>2 DEF NothingOverlaps
        <4>3. QED  BY <4>1, <4>2
      <3>4. QED  BY <3>1, <3>2, <3>3
    <2>3. QED  BY <2>1, <2>2
  <1>5. QED  BY <1>4 DEF NothingOverlaps, Clear

LEMMA NothingOverlapsStep == FrameInv /\ NothingOverlaps /\ [Next]_vars => NothingOverlaps'
  <1> SUFFICES ASSUME FrameInv, NothingOverlaps, [Next]_vars PROVE NothingOverlaps'  OBVIOUS
  <1>1. ASSUME NEW m \in Mover, UpdateAMover(m) PROVE NothingOverlaps'
    BY <1>1, MoverStaysClear DEF UpdateAMover, FrameInv, TypeOK
  <1>2. ASSUME position' = position PROVE NothingOverlaps'
    BY <1>2 DEF NothingOverlaps, Clear
  <1>3. CASE ~\E m \in Mover : UpdateAMover(m)
    <2>1. position' = position
      BY <1>3 DEF Next, BeginFrame, AccelerateAnother, UpdateCharacter, UpdateAnimators,
                  UpdateFrame, UseAnimator, physicsVars, vars
    <2>2. QED  BY <1>2, <2>1
  <1>4. QED  BY <1>1, <1>3

\* MapCollider::collides, BoxCollider::collides and Mover::onUpdate: in a scene where
\* nothing overlaps at the start, on any map and for any boxes and speeds, no mover is
\* ever inside a blocking cell or another mover, in whatever order they are updated.
THEOREM NothingGetsInside == NothingOverlaps /\ Spec => []NothingOverlaps
  BY FrameInvariant, NothingOverlapsStep, PTL DEF Spec

-----------------------------------------------------------------------------
(***************************************************************************)
(* Rooms: a motion is made of fractions, each along an axis, and a         *)
(* fraction of unit steps.  A wall cannot lie between two places that are  *)
(* clear of it when a fraction is shorter than the wall and the box of the *)
(* mover together, so that each unit step stays in the room.               *)
(***************************************************************************)

Less == {pair \in Nat \X Nat : pair[1] < pair[2]}

\* A set of natural numbers has a least element: the proofs by induction rest on it.
LEMMA LeastElement ==
  ASSUME NEW T, T \subseteq Nat, T # {}
  PROVE  \E x \in T : \A y \in T : x <= y
  <1>1. IsWellFoundedOn(Less, Nat)  BY NatLessThanWellFounded DEF OpToRel, Less
  <1>2. PICK x \in T : \A y \in T : <<y, x>> \notin Less  BY <1>1, WFMin
  <1>3. ASSUME NEW y \in T PROVE x <= y
    <2>1. ~(y < x)  BY <1>2 DEF Less
    <2>2. QED  BY <2>1
  <1>4. QED  BY <1>3

\* No fraction of a motion is as long as a wall and the box of the mover together.
WallsAreThick ==
  \A m \in Mover, cell \in MapCells : Blocks(cell) =>
    /\ Stride[m] < HitBox[m].width + TypeBox[MapCell[cell]].width
    /\ Stride[m] < HitBox[m].height + TypeBox[MapCell[cell]].height

\* The numbers of a box and of a cell of the map.
LEMMA MapRectAt ==
  ASSUME NEW cell \in MapCells, Blocks(cell)
  PROVE  /\ MapRect(cell).left \in Int /\ MapRect(cell).top \in Int
         /\ MapRect(cell).width = TypeBox[MapCell[cell]].width
         /\ MapRect(cell).height = TypeBox[MapCell[cell]].height
         /\ TypeBox[MapCell[cell]].width \in Nat /\ TypeBox[MapCell[cell]].height \in Nat
  <1> DEFINE t == TypeBox[MapCell[cell]]
             d == <<cell[1] * CellSize, cell[2] * CellSize>>
             c == CellRect(cell)
  <1>1. t \in Rects  BY PhysicsAssumption DEF Blocks
  <1>2. cell[1] \in Int /\ cell[2] \in Int /\ CellSize \in Int
    BY PhysicsAssumption DEF MapCells
  <1>3. cell[1] * CellSize \in Int /\ cell[2] * CellSize \in Int  BY <1>2
  <1>4. d \in Int \X Int  BY <1>3
  <1>5. c = At(t, d)  BY DEF CellRect
  <1> HIDE DEF t, d, c
  <1>6. c \in Rects /\ c.width = t.width /\ c.height = t.height  BY <1>1, <1>4, <1>5, AtMoves
  <1>7. MapOrigin \in Int \X Int  BY PhysicsAssumption
  <1>8. /\ MapRect(cell) \in Rects
        /\ MapRect(cell).width = c.width /\ MapRect(cell).height = c.height
    BY <1>6, <1>7, AtMoves DEF MapRect, c
  <1>9. QED  BY <1>1, <1>6, <1>8 DEF Rects, t

\* What lies between two clear places, along an axis, is clear.
LEMMA BetweenX ==
  ASSUME WallsAreThick, NEW m \in Mover, NEW p \in Int \X Int, NEW q \in Int \X Int,
         NEW r \in Int \X Int, Clear(m, p), Clear(m, q),
         p[2] = q[2], r[2] = p[2], q[1] - p[1] \in -Stride[m]..Stride[m],
         (p[1] <= r[1] /\ r[1] <= q[1]) \/ (q[1] <= r[1] /\ r[1] <= p[1])
  PROVE  Clear(m, r)
  <1> SUFFICES ASSUME NEW cell \in MapCells, Blocks(cell), Overlap(Box(m, r), MapRect(cell))
               PROVE  FALSE
    BY DEF Clear
  <1> DEFINE c == MapRect(cell)
             h == HitBox[m]
  <1>1. /\ c.left \in Int /\ c.top \in Int /\ c.width \in Nat /\ c.height \in Nat
        /\ Stride[m] < h.width + c.width /\ Stride[m] \in Nat
    BY MapRectAt, PhysicsAssumption DEF WallsAreThick
  <1>2. h.left \in Int /\ h.top \in Int /\ h.width \in Nat /\ h.height \in Nat
    BY PhysicsAssumption DEF Rects
  <1>3. ~Overlap(Box(m, p), c) /\ ~Overlap(Box(m, q), c)  BY DEF Clear
  <1>4. \A x \in Int \X Int :
          /\ Box(m, x).left = h.left + x[1] /\ Box(m, x).top = h.top + x[2]
          /\ Box(m, x).width = h.width /\ Box(m, x).height = h.height
    BY BoxAt
  <1> HIDE DEF c, h
  <1>5. \A x \in Int \X Int :
          Overlap(Box(m, x), c) <=>
            /\ h.left + x[1] + h.width > c.left /\ h.top + x[2] + h.height > c.top
            /\ c.left + c.width > h.left + x[1] /\ c.top + c.height > h.top + x[2]
    BY <1>4 DEF Overlap
  <1>6. Overlap(Box(m, r), c)  BY DEF c
  <1>7. p[1] \in Int /\ p[2] \in Int /\ q[1] \in Int /\ r[1] \in Int  OBVIOUS
  <1>8. QED  BY <1>1, <1>2, <1>3, <1>5, <1>6, <1>7

LEMMA BetweenY ==
  ASSUME WallsAreThick, NEW m \in Mover, NEW p \in Int \X Int, NEW q \in Int \X Int,
         NEW r \in Int \X Int, Clear(m, p), Clear(m, q),
         p[1] = q[1], r[1] = p[1], q[2] - p[2] \in -Stride[m]..Stride[m],
         (p[2] <= r[2] /\ r[2] <= q[2]) \/ (q[2] <= r[2] /\ r[2] <= p[2])
  PROVE  Clear(m, r)
  <1> SUFFICES ASSUME NEW cell \in MapCells, Blocks(cell), Overlap(Box(m, r), MapRect(cell))
               PROVE  FALSE
    BY DEF Clear
  <1> DEFINE c == MapRect(cell)
             h == HitBox[m]
  <1>1. /\ c.left \in Int /\ c.top \in Int /\ c.width \in Nat /\ c.height \in Nat
        /\ Stride[m] < h.height + c.height /\ Stride[m] \in Nat
    BY MapRectAt, PhysicsAssumption DEF WallsAreThick
  <1>2. h.left \in Int /\ h.top \in Int /\ h.width \in Nat /\ h.height \in Nat
    BY PhysicsAssumption DEF Rects
  <1>3. ~Overlap(Box(m, p), c) /\ ~Overlap(Box(m, q), c)  BY DEF Clear
  <1>4. \A x \in Int \X Int :
          /\ Box(m, x).left = h.left + x[1] /\ Box(m, x).top = h.top + x[2]
          /\ Box(m, x).width = h.width /\ Box(m, x).height = h.height
    BY BoxAt
  <1> HIDE DEF c, h
  <1>5. \A x \in Int \X Int :
          Overlap(Box(m, x), c) <=>
            /\ h.left + x[1] + h.width > c.left /\ h.top + x[2] + h.height > c.top
            /\ c.left + c.width > h.left + x[1] /\ c.top + c.height > h.top + x[2]
    BY <1>4 DEF Overlap
  <1>6. Overlap(Box(m, r), c)  BY DEF c
  <1>7. p[1] \in Int /\ p[2] \in Int /\ q[2] \in Int /\ r[2] \in Int  OBVIOUS
  <1>8. QED  BY <1>1, <1>2, <1>3, <1>5, <1>6, <1>7

\* A mover that goes from one clear place to another along an axis, in one fraction,
\* stays in its room: the first unit step that left it would be inside a wall.
LEMMA SlideX ==
  ASSUME WallsAreThick, NEW m \in Mover, NEW p \in Int \X Int, NEW q \in Int \X Int,
         Clear(m, p), Clear(m, q), p[2] = q[2], q[1] - p[1] \in -Stride[m]..Stride[m],
         NEW room \in Rooms, p \in room
  PROVE  q \in room
  <1> SUFFICES ASSUME q \notin room PROVE FALSE  OBVIOUS
  <1> DEFINE place(k) == <<IF p[1] <= q[1] THEN p[1] + k ELSE p[1] - k, p[2]>>
             length == IF p[1] <= q[1] THEN q[1] - p[1] ELSE p[1] - q[1]
             T == {k \in Nat : k <= length /\ place(k) \notin room}
  <1>1. p[1] \in Int /\ p[2] \in Int /\ q[1] \in Int /\ p = <<p[1], p[2]>> /\ q = <<q[1], q[2]>>
    OBVIOUS
  <1>2. length \in Nat /\ place(length) = q /\ place(0) = p  BY <1>1
  <1>3. \A k \in Nat : k <= length => place(k) \in Int \X Int /\ Clear(m, place(k))
    <2> SUFFICES ASSUME NEW k \in Nat, k <= length
                 PROVE  place(k) \in Int \X Int /\ Clear(m, place(k))
      OBVIOUS
    <2>1. place(k) \in Int \X Int /\ place(k)[2] = p[2]  BY <1>1
    <2>2. (p[1] <= place(k)[1] /\ place(k)[1] <= q[1]) \/ (q[1] <= place(k)[1] /\ place(k)[1] <= p[1])
      <3>1. CASE p[1] <= q[1]
        <4>1. place(k)[1] = p[1] + k /\ k <= q[1] - p[1]  BY <3>1
        <4>2. p[1] <= p[1] + k /\ p[1] + k <= q[1]  BY <1>1, <4>1
        <4> HIDE DEF place
        <4>3. QED  BY <4>1, <4>2
      <3>2. CASE ~(p[1] <= q[1])
        <4>1. place(k)[1] = p[1] - k /\ k <= p[1] - q[1]  BY <3>2
        <4>2. QED  BY <1>1, <4>1
      <3>3. QED  BY <3>1, <3>2
    <2> HIDE DEF place
    <2>3. QED  BY <2>1, <2>2, BetweenX
  <1>4. \A k \in Nat : place(k + 1) \in Neighbours(place(k))
    BY <1>1 DEF Neighbours
  <1> HIDE DEF place, length
  <1>5. PICK n \in T : \A k \in T : n <= k
    <2>1. T \subseteq Nat /\ length \in T  BY <1>2
    <2>2. QED  BY <2>1, LeastElement
  <1>6. n # 0 /\ n \in Nat /\ n <= length /\ place(n) \notin room  BY <1>2, <1>5
  <1>7. n - 1 \in Nat /\ n - 1 <= length /\ n - 1 \notin T  BY <1>2, <1>5, <1>6
  <1>8. place(n - 1) \in room  BY <1>7
  <1>9. place(n) \in Neighbours(place(n - 1)) \ room
    <2>1. n - 1 + 1 = n  BY <1>6
    <2>2. QED  BY <1>4, <1>6, <1>7, <2>1
  <1>10. ~Clear(m, place(n))  BY <1>8, <1>9, RoomsAssumption
  <1>11. QED  BY <1>3, <1>6, <1>10

LEMMA SlideY ==
  ASSUME WallsAreThick, NEW m \in Mover, NEW p \in Int \X Int, NEW q \in Int \X Int,
         Clear(m, p), Clear(m, q), p[1] = q[1], q[2] - p[2] \in -Stride[m]..Stride[m],
         NEW room \in Rooms, p \in room
  PROVE  q \in room
  <1> SUFFICES ASSUME q \notin room PROVE FALSE  OBVIOUS
  <1> DEFINE place(k) == <<p[1], IF p[2] <= q[2] THEN p[2] + k ELSE p[2] - k>>
             length == IF p[2] <= q[2] THEN q[2] - p[2] ELSE p[2] - q[2]
             T == {k \in Nat : k <= length /\ place(k) \notin room}
  <1>1. p[1] \in Int /\ p[2] \in Int /\ q[2] \in Int /\ p = <<p[1], p[2]>> /\ q = <<q[1], q[2]>>
    OBVIOUS
  <1>2. length \in Nat /\ place(length) = q /\ place(0) = p  BY <1>1
  <1>3. \A k \in Nat : k <= length => place(k) \in Int \X Int /\ Clear(m, place(k))
    <2> SUFFICES ASSUME NEW k \in Nat, k <= length
                 PROVE  place(k) \in Int \X Int /\ Clear(m, place(k))
      OBVIOUS
    <2>1. place(k) \in Int \X Int /\ place(k)[1] = p[1]  BY <1>1
    <2>2. (p[2] <= place(k)[2] /\ place(k)[2] <= q[2]) \/ (q[2] <= place(k)[2] /\ place(k)[2] <= p[2])
      <3>1. CASE p[2] <= q[2]
        <4>1. place(k)[2] = p[2] + k /\ k <= q[2] - p[2]  BY <3>1
        <4>2. p[2] <= p[2] + k /\ p[2] + k <= q[2]  BY <1>1, <4>1
        <4> HIDE DEF place
        <4>3. QED  BY <4>1, <4>2
      <3>2. CASE ~(p[2] <= q[2])
        <4>1. place(k)[2] = p[2] - k /\ k <= p[2] - q[2]  BY <3>2
        <4>2. QED  BY <1>1, <4>1
      <3>3. QED  BY <3>1, <3>2
    <2> HIDE DEF place
    <2>3. QED  BY <2>1, <2>2, BetweenY
  <1>4. \A k \in Nat : place(k + 1) \in Neighbours(place(k))
    BY <1>1 DEF Neighbours
  <1> HIDE DEF place, length
  <1>5. PICK n \in T : \A k \in T : n <= k
    <2>1. T \subseteq Nat /\ length \in T  BY <1>2
    <2>2. QED  BY <2>1, LeastElement
  <1>6. n # 0 /\ n \in Nat /\ n <= length /\ place(n) \notin room  BY <1>2, <1>5
  <1>7. n - 1 \in Nat /\ n - 1 <= length /\ n - 1 \notin T  BY <1>2, <1>5, <1>6
  <1>8. place(n - 1) \in room  BY <1>7
  <1>9. place(n) \in Neighbours(place(n - 1)) \ room
    <2>1. n - 1 + 1 = n  BY <1>6
    <2>2. QED  BY <1>4, <1>6, <1>7, <2>1
  <1>10. ~Clear(m, place(n))  BY <1>8, <1>9, RoomsAssumption
  <1>11. QED  BY <1>3, <1>6, <1>10

\* A motion of m in a room, in fractions that are not longer than its stride.
InRoom(m, s, room) ==
  /\ s \in Motion /\ s.p \in room /\ Clear(m, s.p)
  /\ s.u[1] \in -Stride[m]..Stride[m] /\ s.u[2] \in -Stride[m]..Stride[m]

LEMMA AdvanceXStays ==
  ASSUME WallsAreThick, NEW m \in Mover, NEW room \in Rooms, NEW s, InRoom(m, s, room)
  PROVE  InRoom(m, AdvanceX(m, s), room)
  <1> DEFINE q == <<s.p[1] + s.u[1], s.p[2]>>
  <1>1. s \in Motion /\ s.p \in Int \X Int /\ s.u \in Int \X Int /\ q \in Int \X Int
        /\ Stride[m] \in Nat
    BY PhysicsAssumption DEF InRoom, Motion
  <1>2. CASE s.u[1] = 0
    BY <1>2 DEF AdvanceX
  <1>3. CASE s.u[1] # 0 /\ Collides(Box(m, q), m)
    <2>1. AdvanceX(m, s) = [s EXCEPT !.u[1] = 0]  BY <1>3 DEF AdvanceX
    <2>2. /\ AdvanceX(m, s) \in Motion /\ AdvanceX(m, s).p = s.p
          /\ AdvanceX(m, s).u[1] = 0 /\ AdvanceX(m, s).u[2] = s.u[2]
      BY <1>1, <2>1 DEF Motion
    <2>3. 0 \in -Stride[m]..Stride[m]  BY <1>1
    <2>4. QED  BY <2>2, <2>3 DEF InRoom
  <1>4. CASE s.u[1] # 0 /\ ~Collides(Box(m, q), m)
    <2>1. AdvanceX(m, s) = [s EXCEPT !.p = q]  BY <1>4 DEF AdvanceX
    <2>2. Clear(m, q)  BY <1>1, <1>4, MapIsClear DEF Collides
    <2>3. q[2] = s.p[2] /\ q[1] - s.p[1] = s.u[1]  BY <1>1
    <2> HIDE DEF q
    <2>4. q \in room  BY <1>1, <2>2, <2>3, SlideX DEF InRoom
    <2>5. AdvanceX(m, s) \in Motion /\ AdvanceX(m, s).p = q /\ AdvanceX(m, s).u = s.u
      BY <1>1, <2>1 DEF Motion
    <2>6. QED  BY <2>2, <2>4, <2>5 DEF InRoom
  <1>5. QED  BY <1>2, <1>3, <1>4

LEMMA AdvanceYStays ==
  ASSUME WallsAreThick, NEW m \in Mover, NEW room \in Rooms, NEW s, InRoom(m, s, room)
  PROVE  InRoom(m, AdvanceY(m, s), room)
  <1> DEFINE q == <<s.p[1], s.p[2] + s.u[2]>>
  <1>1. s \in Motion /\ s.p \in Int \X Int /\ s.u \in Int \X Int /\ q \in Int \X Int
        /\ Stride[m] \in Nat
    BY PhysicsAssumption DEF InRoom, Motion
  <1>2. CASE s.u[2] = 0
    BY <1>2 DEF AdvanceY
  <1>3. CASE s.u[2] # 0 /\ Collides(Box(m, q), m)
    <2>1. AdvanceY(m, s) = [s EXCEPT !.u[2] = 0]  BY <1>3 DEF AdvanceY
    <2>2. /\ AdvanceY(m, s) \in Motion /\ AdvanceY(m, s).p = s.p
          /\ AdvanceY(m, s).u[2] = 0 /\ AdvanceY(m, s).u[1] = s.u[1]
      BY <1>1, <2>1 DEF Motion
    <2>3. 0 \in -Stride[m]..Stride[m]  BY <1>1
    <2>4. QED  BY <2>2, <2>3 DEF InRoom
  <1>4. CASE s.u[2] # 0 /\ ~Collides(Box(m, q), m)
    <2>1. AdvanceY(m, s) = [s EXCEPT !.p = q]  BY <1>4 DEF AdvanceY
    <2>2. Clear(m, q)  BY <1>1, <1>4, MapIsClear DEF Collides
    <2>3. q[1] = s.p[1] /\ q[2] - s.p[2] = s.u[2]  BY <1>1
    <2> HIDE DEF q
    <2>4. q \in room  BY <1>1, <2>2, <2>3, SlideY DEF InRoom
    <2>5. AdvanceY(m, s) \in Motion /\ AdvanceY(m, s).p = q /\ AdvanceY(m, s).u = s.u
      BY <1>1, <2>1 DEF Motion
    <2>6. QED  BY <2>2, <2>4, <2>5 DEF InRoom
  <1>5. QED  BY <1>2, <1>3, <1>4

LEMMA SweptStays ==
  ASSUME WallsAreThick, PhysicsTypeOK, NothingOverlaps, NEW m \in Mover, NEW room \in Rooms,
         position[m] \in room, NEW u \in Int \X Int,
         u[1] \in -Stride[m]..Stride[m], u[2] \in -Stride[m]..Stride[m]
  PROVE  Swept(m, u) \in room
  <1> DEFINE s == [p |-> position[m], u |-> u]
             s1 == Fraction(m, s)
             s2 == Fraction(m, s1)
             s3 == Fraction(m, s2)
             s4 == Fraction(m, s3)
  <1>1. InRoom(m, s, room)
    BY DEF InRoom, Motion, PhysicsTypeOK, NothingOverlaps
  <1>2. \A x : InRoom(m, x, room) => InRoom(m, Fraction(m, x), room)
    BY AdvanceXStays, AdvanceYStays DEF Fraction
  <1> HIDE DEF s
  <1>3. InRoom(m, s1, room)  BY <1>1, <1>2
  <1> HIDE DEF s1
  <1>4. InRoom(m, s2, room)  BY <1>2, <1>3
  <1> HIDE DEF s2
  <1>5. InRoom(m, s3, room)  BY <1>2, <1>4
  <1> HIDE DEF s3
  <1>6. InRoom(m, s4, room)  BY <1>2, <1>5
  <1>7. Swept(m, u) = s4.p  BY DEF Swept, s4, s3, s2, s1, s
  <1> HIDE DEF s4
  <1>8. QED  BY <1>6, <1>7 DEF InRoom

\* The step of the action property: whatever mover is updated, each is in its room.
LEMMA RoomsAreKept ==
  ASSUME WallsAreThick, FrameInv, NothingOverlaps, [Next]_vars,
         NEW n \in Mover, NEW room \in Rooms, position[n] \in room
  PROVE  position'[n] \in room
  <1>1. PhysicsTypeOK  BY DEF FrameInv, TypeOK
  <1>2. CASE UpdateAMover(n)
    <2>1. PICK v \in Signs \X Signs, x \in 0..Stride[n], y \in 0..Stride[n] :
            position' = [position EXCEPT ![n] = Swept(n, <<x * v[1], y * v[2]>>)]
      BY <1>1, <1>2, MoverSpeed DEF UpdateAMover
    <2> DEFINE u == <<x * v[1], y * v[2]>>
    <2>2. Stride[n] \in Nat  BY PhysicsAssumption
    <2>3. v[1] \in {-1, 0, 1} /\ v[2] \in {-1, 0, 1}  BY DEF Signs
    <2>4. x * v[1] \in -Stride[n]..Stride[n] /\ y * v[2] \in -Stride[n]..Stride[n]
      BY <2>2, <2>3
    <2>5. u \in Int \X Int /\ u[1] \in -Stride[n]..Stride[n] /\ u[2] \in -Stride[n]..Stride[n]
      BY <2>2, <2>4
    <2>6. position' = [position EXCEPT ![n] = Swept(n, u)]  BY <2>1
    <2> HIDE DEF u
    <2>7. position'[n] = Swept(n, u)  BY <1>1, <2>6 DEF PhysicsTypeOK
    <2>8. QED  BY <1>1, <2>5, <2>7, SweptStays
  <1>3. CASE \E m \in Mover \ {n} : UpdateAMover(m)
    BY <1>1, <1>3, MoverMoves DEF UpdateAMover
  <1>4. CASE ~\E m \in Mover : UpdateAMover(m)
    <2>1. position' = position
      BY <1>4 DEF Next, BeginFrame, AccelerateAnother, UpdateCharacter, UpdateAnimators,
                  UpdateFrame, UseAnimator, physicsVars, vars
    <2>2. QED  BY <2>1
  <1>5. QED  BY <1>2, <1>3, <1>4

\* Mover::onUpdate: no wall is jumped over, on any map and from any place, when no
\* fraction of a motion is as long as a wall and the box of the mover together.
THEOREM NoWallIsJumped ==
  ASSUME WallsAreThick
  PROVE  NothingOverlaps /\ Spec => StaysInRoom
  <1>1. FrameInv /\ NothingOverlaps /\ [Next]_vars
          => [\A m \in Mover, room \in Rooms :
                position[m] \in room => position'[m] \in room]_position
    BY RoomsAreKept
  <1>2. QED  BY <1>1, FrameInvariant, NothingGetsInside, PTL DEF Spec, StaysInRoom

-----------------------------------------------------------------------------
(***************************************************************************)
(* The pose of the character.                                              *)
(***************************************************************************)

\* Every atlas that a sprite may be given has the walks: play() ignores the others.
EveryAtlasWalks == \A a \in Atlas, d \in Directions : FrameCount[a][Walk(d)] > 0

\* The character's pose is that of its last direction and of whether it moved then, and
\* nothing but another part of the game ends its walk.
PoseMatches ==
  calls = 0 =>
    /\ Playing => loops < 0
    /\ atlas # None =>
         IF lastMoving
           THEN Playing /\ sequence = <<atlas, Walk(lastDirection)>>
           ELSE ~Playing /\ rect \in {<<atlas, Idle(lastDirection)>>, None}

\* Whether the character and its mover have still to be updated in this frame.
CharacterWaits == "character" \in todo
MoverWaits == Avatar \in todo

Quiet == acceleration[Avatar] = <<0, 0>>
AtRest == velocity[Avatar] = <<0, 0>>

\* How the mover answers to keys that stay released, and how to keys that stay pressed:
\* a frame later than they are if it is updated before the character.
Released ==
  keys = <<0, 0>> =>
    /\ settled = 1 /\ (CharacterWaits \/ ~MoverWaits) => Quiet
    /\ settled >= 2 => Quiet
    /\ settled = 1 /\ CharacterWaits /\ ~MoverWaits => AtRest
    /\ settled = 2 /\ (CharacterWaits \/ ~MoverWaits) => AtRest
    /\ settled = 3 => AtRest /\ ~lastMoving

Pressed ==
  keys # <<0, 0>> =>
    /\ settled >= 1 /\ (CharacterWaits <=> MoverWaits)
         => acceleration[Avatar] \in {<<0, 0>>, keys}
    /\ settled >= 2 => lastMoving

PoseInv ==
  /\ direction = lastDirection
  /\ animated => /\ PoseMatches
                 /\ CharacterWaits /\ ~MoverWaits => Quiet
                 /\ Released /\ Pressed

LEMMA PoseInit == Init => PoseInv
  <1> SUFFICES ASSUME Init PROVE PoseInv  OBVIOUS
  <1>1. acceleration[Avatar] = <<0, 0>> /\ velocity[Avatar] = <<0, 0>>
    BY CharacterAssumption DEF Init
  <1>2. PoseMatches  BY DEF Init, SpriteInit, PoseMatches, Playing
  <1>3. Released /\ Pressed  BY DEF Init, Released, Pressed
  <1>4. QED  BY <1>1, <1>2, <1>3 DEF Init, PoseInv, Quiet

\* The update of the character: IsMoving is TRUE at once when a key is pressed, and FALSE
\* only when the mover has met a frame without keys.
LEMMA CharacterPoses ==
  ASSUME EveryAtlasWalks, FrameInv, PoseInv, NEW d \in Keys, UpdateCharacter(d)
  PROVE  PoseInv'
  <1>1. /\ CharacterWaits /\ todo' = todo \ {"character"}
        /\ Accelerate(Avatar, d) /\ direction' = Facing(d)
        /\ UNCHANGED <<position, velocity, animated>>
    BY DEF UpdateCharacter, CharacterWaits
  <1>2. d \in Signs \X Signs /\ Avatar \in Mover /\ Avatar # "character"
    BY CharacterAssumption
  <1>3. ~CharacterWaits' /\ MoverWaits' = MoverWaits /\ AtRest' = AtRest
    BY <1>1, <1>2 DEF CharacterWaits, MoverWaits, AtRest
  <1>4. direction' = lastDirection' /\ lastMoving' = IsMoving
    <2>1. lastMoving \in BOOLEAN /\ IsMoving \in BOOLEAN  BY DEF FrameInv, TypeOK, IsMoving
    <2>2. CASE PoseChanges(IsMoving)
      BY <2>2 DEF UpdateCharacter
    <2>3. CASE ~PoseChanges(IsMoving)
      BY <2>1, <2>3 DEF UpdateCharacter, PoseChanges
    <2>4. QED  BY <2>2, <2>3
  <1>5. direction' \in Directions  BY CharacterTurns DEF FrameInv, TypeOK
  <1>6. ASSUME animated
        PROVE  PoseMatches' /\ Released' /\ Pressed'
    <2>1. /\ PoseMatches /\ Released /\ Pressed
          /\ CharacterWaits /\ ~MoverWaits => Quiet
      BY <1>6 DEF PoseInv
    <2>2. PoseMatches'
      <3>1. CASE ~PoseChanges(IsMoving)
        <4>1. UNCHANGED spriteVars /\ lastDirection' = lastDirection /\ lastMoving' = lastMoving
          BY <3>1 DEF UpdateCharacter
        <4>2. QED  BY <2>1, <4>1 DEF PoseMatches, spriteVars, Playing
      <3>2. CASE PoseChanges(IsMoving) /\ IsMoving
        <4>1. Play(Walk(direction'), -1) /\ calls' = calls
          BY <1>6, <3>2 DEF UpdateCharacter
        <4>2. CASE atlas = None
          <5>1. /\ UNCHANGED <<atlas, rect, sequence, name, frame, loops>>
            BY <4>1, <4>2 DEF Play, Exists
          <5>2. QED  BY <2>1, <4>1, <4>2, <5>1 DEF PoseMatches, Playing
        <4>3. CASE atlas # None
          <5>1. atlas \in Atlas  BY <4>3 DEF FrameInv, SpriteInv, SpriteTypeOK
          <5>2. Exists(atlas, Walk(direction'))
            BY <1>5, <4>3, <5>1 DEF EveryAtlasWalks, Exists
          <5>3. /\ sequence' = <<atlas, Walk(direction')>> /\ loops' = -1 /\ atlas' = atlas
            BY <4>1, <5>2 DEF Play
          <5>4. sequence' \in Atlas \X Sequence
            BY <1>5, <5>1, <5>3, CharacterAssumption
          <5>5. sequence' # None  BY <5>4, SpriteAssumption
          <5>6. QED  BY <1>4, <3>2, <5>3, <5>5 DEF PoseMatches, Playing
        <4>4. QED  BY <4>2, <4>3
      <3>3. CASE PoseChanges(IsMoving) /\ ~IsMoving
        <4>1. ShowStill(Idle(direction')) /\ calls' = calls
          BY <1>6, <3>3 DEF UpdateCharacter
        <4>2. QED  BY <1>4, <3>3, <4>1 DEF PoseMatches, ShowStill, Playing
      <3>4. QED  BY <3>1, <3>2, <3>3
    <2>3. /\ Quiet => acceleration'[Avatar] = d
          /\ acceleration[Avatar] = d => acceleration'[Avatar] = d
          /\ d = <<0, 0>> => acceleration'[Avatar] = acceleration[Avatar]
      BY <1>1, <1>2, AccelerateTypes DEF FrameInv, TypeOK, Quiet
    <2>4. /\ keys' = d /\ settled \in 0..3
          /\ settled' = IF d # keys THEN 1 ELSE IF settled < 3 THEN settled + 1 ELSE 3
      BY <1>6 DEF UpdateCharacter, FrameInv, TypeOK
    <2>5. /\ settled' = 1 \/ keys = d
          /\ settled' = 2 => settled = 1
          /\ settled' = 3 => settled \in {2, 3}
          /\ settled' \in {1, 2, 3}
      BY <2>4
    <2>6. IsMoving <=> (~AtRest \/ ~Quiet')  BY DEF IsMoving, AtRest, Quiet
    <2>7. ASSUME d = <<0, 0>> PROVE Released'
      <3>1. Quiet' <=> Quiet  BY <2>3, <2>7 DEF Quiet
      <3>2. settled' = 1 /\ ~MoverWaits' => Quiet'  BY <1>1, <1>3, <2>1, <3>1
      <3>3. settled' \in {2, 3} => keys = <<0, 0>> /\ settled \in {1, 2, 3}  BY <2>5, <2>7
      <3>4. settled' \in {2, 3} => Quiet'
        <4>1. settled \in {2, 3} => settled >= 2  OBVIOUS
        <4>2. QED  BY <1>1, <2>1, <3>1, <3>3, <4>1 DEF Released
      <3>5. settled' = 2 /\ ~MoverWaits' => AtRest'  BY <1>1, <1>3, <2>1, <2>5, <2>7 DEF Released
      <3>6. settled' = 3 => AtRest'  BY <1>1, <1>3, <2>1, <2>5, <2>7 DEF Released
      <3>7. settled' = 3 => ~lastMoving'  BY <1>3, <1>4, <2>6, <3>4, <3>6
      <3>8. settled' >= 2 => settled' \in {2, 3}  BY <2>5
      <3>9. QED  BY <1>3, <3>2, <3>4, <3>5, <3>6, <3>7, <3>8 DEF Released
    <2>8. ASSUME d # <<0, 0>> PROVE Pressed'
      <3>1. ~MoverWaits => acceleration'[Avatar] = d  BY <1>1, <2>1, <2>3
      <3>2. settled' \in {2, 3} => keys = d /\ settled >= 1  BY <2>5
      <3>3. settled' \in {2, 3} => acceleration'[Avatar] = d
        <4>1. CASE MoverWaits
          BY <1>1, <2>1, <2>3, <2>8, <3>2, <4>1 DEF Pressed, Quiet
        <4>2. CASE ~MoverWaits  BY <3>1, <4>2
        <4>3. QED  BY <4>1, <4>2
      <3>4. settled' \in {2, 3} => lastMoving'  BY <1>4, <2>6, <2>8, <3>3 DEF Quiet
      <3>5. settled' >= 2 => settled' \in {2, 3}  BY <2>5
      <3>6. QED  BY <1>3, <2>4, <3>1, <3>4, <3>5 DEF Pressed
    <2>9. QED  BY <2>2, <2>4, <2>7, <2>8 DEF Released, Pressed
  <1>7. QED  BY <1>1, <1>3, <1>4, <1>6 DEF PoseInv

LEMMA PoseStep ==
  ASSUME EveryAtlasWalks, FrameInv, PoseInv, [Next]_vars
  PROVE  PoseInv'
  <1> DEFINE spritesStay == UNCHANGED <<atlas, rect, sequence, loops, calls>>
             posesStay == UNCHANGED <<poseVars, animated, keys, settled>>
             moverStays == AtRest' = AtRest /\ acceleration'[Avatar] = acceleration[Avatar]
  <1>1. Avatar \in Mover /\ Avatar \notin {"character", "animators"} /\ "character" \notin Mover
    BY CharacterAssumption
  <1>2. PhysicsTypeOK  BY DEF FrameInv, TypeOK
  <1>3. ASSUME posesStay, PoseMatches => PoseMatches', moverStays,
               CharacterWaits' = CharacterWaits, MoverWaits' = MoverWaits
        PROVE  PoseInv'
    BY <1>3 DEF PoseInv, poseVars, Quiet, Released, Pressed
  <1>4. ASSUME spritesStay, posesStay PROVE PoseMatches => PoseMatches'
    BY <1>4 DEF PoseMatches, poseVars, Playing
  <1>5. CASE BeginFrame
    <2>1. /\ spritesStay /\ posesStay /\ moverStays /\ todo = {}
          /\ todo' = Mover \union {"character", "animators"}
      BY <1>5 DEF BeginFrame, spriteVars, physicsVars, AtRest
    <2>2. ~CharacterWaits /\ ~MoverWaits /\ CharacterWaits' /\ MoverWaits'
      BY <1>1, <2>1 DEF CharacterWaits, MoverWaits
    <2>3. ASSUME animated PROVE Released' /\ Pressed'
      <3>1. Released /\ Pressed  BY <2>3 DEF PoseInv
      <3>2. /\ keys' = keys /\ settled' = settled /\ lastMoving' = lastMoving /\ AtRest' = AtRest
            /\ Quiet' = Quiet /\ acceleration'[Avatar] = acceleration[Avatar]
        BY <2>1 DEF poseVars, Quiet
      <3>3. Released'  BY <2>2, <3>1, <3>2 DEF Released
      <3>4. Pressed'  BY <2>2, <3>1, <3>2 DEF Pressed
      <3>5. QED  BY <3>3, <3>4
    <2>4. QED  BY <1>4, <2>1, <2>2, <2>3 DEF PoseInv, poseVars
  <1>6. CASE UpdateAMover(Avatar)
    <2>1. /\ spritesStay /\ posesStay /\ UpdateMover(Avatar)
          /\ Avatar \in todo /\ todo' = todo \ {Avatar}
      BY <1>6 DEF UpdateAMover, spriteVars
    <2>2. Quiet' /\ (Quiet => AtRest')  BY <1>1, <1>2, <2>1, MoverMoves DEF Quiet, AtRest
    <2>3. MoverWaits /\ ~MoverWaits' /\ CharacterWaits' = CharacterWaits
      BY <1>1, <2>1 DEF CharacterWaits, MoverWaits
    <2>4. ASSUME animated PROVE Released' /\ Pressed'
      <3>1. Released /\ Pressed  BY <2>4 DEF PoseInv
      <3>2. keys' = keys /\ settled' = settled /\ lastMoving' = lastMoving /\ settled \in 0..3
        BY <2>1 DEF poseVars, FrameInv, TypeOK
      <3>3. Released'
        <4>1. settled \in {2, 3} => settled >= 2  OBVIOUS
        <4>2. QED  BY <2>2, <2>3, <3>1, <3>2, <4>1 DEF Released
      <3>4. Pressed'
        BY <2>2, <3>1, <3>2 DEF Pressed, Quiet
      <3>5. QED  BY <3>3, <3>4
    <2>5. QED  BY <1>4, <2>1, <2>2, <2>4 DEF PoseInv, poseVars
  <1>7. ASSUME NEW m \in Mover \ {Avatar}, UpdateAMover(m) PROVE PoseInv'
    <2>1. /\ spritesStay /\ posesStay /\ UpdateMover(m) /\ todo' = todo \ {m}
      BY <1>7 DEF UpdateAMover, spriteVars
    <2>2. moverStays  BY <1>1, <1>2, <2>1, MoverMoves DEF AtRest
    <2>3. CharacterWaits' = CharacterWaits /\ MoverWaits' = MoverWaits
      BY <1>1, <2>1 DEF CharacterWaits, MoverWaits
    <2>4. QED  BY <1>3, <1>4, <2>1, <2>2, <2>3
  <1>8. ASSUME NEW m \in Mover, NEW d \in Keys, AccelerateAnother(m, d) PROVE PoseInv'
    BY <1>8 DEF AccelerateAnother, frameVars, poseVars, PoseInv
  <1>9. ASSUME NEW d \in Keys, UpdateCharacter(d) PROVE PoseInv'
    BY <1>9, CharacterPoses
  <1>10. CASE UpdateAnimators \/ UpdateFrame
    <2>1. /\ posesStay /\ moverStays /\ calls' = calls
          /\ todo = {"animators"} /\ todo' = {}
      BY <1>10 DEF UpdateAnimators, UpdateFrame, AnimatorsTurn, physicsVars, AtRest
    <2>2. CharacterWaits' = CharacterWaits /\ MoverWaits' = MoverWaits
      BY <1>1, <2>1 DEF CharacterWaits, MoverWaits
    <2>3. PoseMatches => PoseMatches'
      <3>1. CASE UpdateAnimators
        <4>1. spritesStay
          BY <3>1 DEF UpdateAnimators, SameFrame, ReadBadFrame
        <4>2. QED  BY <1>4, <2>1, <4>1
      <3>2. CASE UpdateFrame
        <4>1. NextFrame /\ Playing /\ atlas' = atlas
          BY <3>2 DEF UpdateFrame, NextFrame
        <4>2. CASE calls = 0 /\ PoseMatches
          <5>1. loops < 0  BY <4>1, <4>2 DEF PoseMatches
          <5>2. loops \in Int  BY DEF FrameInv, SpriteInv, SpriteTypeOK
          <5>3. loops' = loops /\ sequence' = sequence
            BY <4>1, <5>1, <5>2 DEF NextFrame, LastPass
          <5>4. QED
            BY <2>1, <4>1, <4>2, <5>3 DEF PoseMatches, poseVars, Playing
        <4>3. CASE calls # 0
          BY <2>1, <4>3 DEF PoseMatches
        <4>4. QED  BY <4>2, <4>3
      <3>3. QED  BY <1>10, <3>1, <3>2
    <2>4. QED  BY <1>3, <2>1, <2>2, <2>3
  <1>11. CASE UseAnimator
    <2>1. /\ posesStay /\ moverStays /\ todo' = todo /\ calls' = calls + 1 /\ calls \in Nat
      BY <1>11 DEF UseAnimator, physicsVars, frameVars, AtRest, FrameInv, SpriteInv, SpriteTypeOK
    <2>2. calls' # 0  BY <2>1
    <2>3. PoseMatches'  BY <2>2 DEF PoseMatches
    <2>4. CharacterWaits' = CharacterWaits /\ MoverWaits' = MoverWaits
      BY <2>1 DEF CharacterWaits, MoverWaits
    <2>5. QED  BY <1>3, <2>1, <2>3, <2>4
  <1>12. CASE UNCHANGED vars
    <2>1. spritesStay /\ posesStay /\ moverStays /\ todo' = todo
      BY <1>12 DEF vars, spriteVars, physicsVars, frameVars, AtRest
    <2>2. QED  BY <1>3, <1>4, <2>1 DEF CharacterWaits, MoverWaits
  <1>13. QED
    BY <1>5, <1>6, <1>7, <1>8, <1>9, <1>10, <1>11, <1>12 DEF Next

\* Avatar::onUpdate, Character::onUpdate and Mover::onUpdate, whichever is first: if every
\* atlas has the walks, three frames of the same keys are enough for the character to
\* walk in its direction, or to be idle in it.
THEOREM CharacterFollowsKeys ==
  ASSUME EveryAtlasWalks
  PROVE  Spec => []PoseFollowsKeys
  <1>1. FrameInv /\ PoseInv /\ [Next]_vars => PoseInv'  BY PoseStep
  <1>2. FrameInv /\ PoseInv => PoseFollowsKeys
    BY DEF FrameInv, TypeOK, PoseInv, PoseMatches, Pressed, Released, PoseFollowsKeys
  <1>3. QED  BY <1>1, <1>2, PoseInit, FrameInvariant, PTL DEF Spec
=============================================================================

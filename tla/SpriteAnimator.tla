--------------------------- MODULE SpriteAnimator ---------------------------
(***************************************************************************)
(* zn::SpriteAnimator and the zn::SpriteRenderer it drives: sequences of   *)
(* frames of a texture atlas, played a number of times on the clock, and   *)
(* still frames.                                                           *)
(*                                                                         *)
(* A frame of a sequence is named by the atlas, the sequence and its       *)
(* number; its rectangle, its duration and the clock are left out: an      *)
(* update finds the frame over, or not.  Reading a frame that a sequence   *)
(* has not sets badFrame, after which the model says nothing more.         *)
(***************************************************************************)
EXTENDS Integers

CONSTANTS
  Atlas,      \* the texture atlases
  Sequence,   \* the names of sequences
  Still,      \* the names of frames, which every atlas has
  FrameCount, \* the frames of each sequence in each atlas, 0 where it has it not
  None,       \* a null pointer
  MaxLoops,   \* bound: the loops asked for
  MaxCalls    \* bound: the calls of setAtlas, and of play with a number of loops

ASSUME SpriteAssumption ==
  /\ FrameCount \in [Atlas -> [Sequence -> Nat]]
  /\ None \notin Atlas \union Sequence \union Still \union (Atlas \X Sequence)
  /\ MaxLoops \in Nat /\ MaxCalls \in Nat

VARIABLES
  atlas,      \* r_atlas of the renderer
  rect,       \* the frame whose rectangle the sprite shows
  sequence,   \* r_sequence: an atlas and a name, or None
  name,       \* m_sequenceName
  frame,      \* m_sequenceFrame
  loops,      \* m_remainingLoops
  badFrame,   \* a frame that does not exist has been read
  asked,      \* history: the loops of the last play
  passes,     \* history: how often it has been played to its end since, up to once more
  swapped,    \* history: the atlas was changed while the sequence was playing
  calls       \* history: the calls that MaxCalls bounds

spriteVars == <<atlas, rect, sequence, name, frame, loops, badFrame, asked, passes,
                swapped, calls>>

Playing == sequence # None
Frames(s) == FrameCount[s[1]][s[2]]
Exists(a, n) == a # None /\ FrameCount[a][n] > 0

\* The texture is set first, and with it a rectangle that is all of it.
SpriteInit(a) ==
  /\ atlas = a
  /\ rect = None
  /\ sequence = None /\ name = None /\ frame = 0 /\ loops = 0
  /\ badFrame = FALSE
  /\ asked = 0 /\ passes = 0 /\ swapped = FALSE /\ calls = 0

-----------------------------------------------------------------------------
\* Slip: the new sequence goes on at the frame of the old one.
PlayOn(n, k) ==
  IF Exists(atlas, n)
    THEN /\ sequence' = <<atlas, n>> /\ name' = n
         /\ rect' = <<atlas, n, 0>>
         /\ loops' = k
         /\ asked' = k /\ passes' = 0 /\ swapped' = FALSE
         /\ UNCHANGED <<atlas, frame, badFrame>>
    ELSE UNCHANGED <<atlas, rect, sequence, name, frame, loops, badFrame, asked, passes,
                     swapped>>

\* play(n, k), which does nothing when the atlas has no sequence n.
Play(n, k) ==
  IF Exists(atlas, n)
    THEN /\ sequence' = <<atlas, n>> /\ name' = n
         /\ rect' = <<atlas, n, 0>>
         /\ frame' = 0
         /\ loops' = k
         /\ asked' = k /\ passes' = 0 /\ swapped' = FALSE
         /\ UNCHANGED <<atlas, badFrame>>
    ELSE UNCHANGED <<atlas, rect, sequence, name, frame, loops, badFrame, asked, passes,
                     swapped>>

\* stop(), then setFrame(id) of the sprite, which stops as well.
ShowStill(id) ==
  /\ sequence' = None
  /\ rect' = IF atlas # None THEN <<atlas, id>> ELSE rect
  /\ UNCHANGED <<atlas, name, frame, loops, badFrame, asked, passes, swapped>>

\* setAtlas of the renderer, and onAtlasChanged: the sequence of the same name goes
\* on, at the same frame, with the rectangle of the old one.
SetAtlas(a) ==
  /\ atlas' = a
  /\ swapped' = (swapped \/ Playing)
  /\ sequence' = IF Playing /\ Exists(a, name) THEN <<a, name>> ELSE None
  /\ name' = IF Playing /\ a # None /\ ~Exists(a, name) THEN None ELSE name
  /\ UNCHANGED <<rect, frame, loops, badFrame, asked, passes>>

\* Slip: the loops that remain are tested after they are counted down.
LoopsOver == loops = 1

\* The animation ends with this pass: a negative number of loops has no end.
LastPass == loops = 0

\* onUpdate, when the duration of the frame has passed.
NextFrame ==
  LET last == frame + 1 = Frames(sequence)
      next == IF last THEN 0 ELSE frame + 1
  IN  /\ Playing /\ ~badFrame
      /\ frame < Frames(sequence)
      /\ frame' = next
      /\ passes' = IF last /\ passes <= asked THEN passes + 1 ELSE passes
      /\ IF last /\ LastPass
           THEN sequence' = None /\ UNCHANGED <<loops, rect>>
           ELSE /\ loops' = IF last /\ loops > 0 THEN loops - 1 ELSE loops
                /\ rect' = <<sequence[1], sequence[2], next>>
                /\ UNCHANGED sequence
      /\ UNCHANGED <<atlas, name, badFrame, asked, swapped>>

\* The frame that the other atlas has not is read.
ReadBadFrame ==
  /\ Playing /\ ~badFrame
  /\ frame >= Frames(sequence)
  /\ badFrame' = TRUE
  /\ UNCHANGED <<atlas, rect, sequence, name, frame, loops, asked, passes, swapped>>

\* The duration has not passed.
SameFrame == ~badFrame /\ UNCHANGED <<atlas, rect, sequence, name, frame, loops, badFrame,
                                      asked, passes, swapped>>

-----------------------------------------------------------------------------
(***************************************************************************)
(* Properties.                                                             *)
(***************************************************************************)

SpriteTypeOK ==
  /\ atlas \in Atlas \union {None}
  /\ sequence \in (Atlas \X Sequence) \union {None}
  /\ name \in Sequence \union {None}
  /\ frame \in Nat /\ loops \in -1..MaxLoops /\ asked \in -1..MaxLoops
  /\ passes \in Nat
  /\ badFrame \in BOOLEAN /\ swapped \in BOOLEAN
  /\ calls \in 0..MaxCalls

\* A sequence is played once more than the loops that were asked for (play's
\* "loops", SpriteAnimator.hpp:24), and shows the frame it is at, which it has; unless
\* the atlas was changed meanwhile: the old rectangle then stays until the next frame,
\* and the sequence of the same name may be shorter.
PlaysWhatWasAsked ==
  /\ Playing /\ asked >= 0 => passes + loops = asked
  /\ Playing /\ asked < 0 => loops < 0
  /\ ~swapped =>
       /\ ~badFrame
       /\ Playing => /\ frame < Frames(sequence)
                     /\ rect = <<sequence[1], sequence[2], frame>> /\ sequence[1] = atlas
=============================================================================

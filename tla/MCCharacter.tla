----------------------------- MODULE MCCharacter -----------------------------
EXTENDS Character, TLC

CONSTANTS avatar, cat    \* movers
CONSTANTS long, short    \* atlases

MCMover == {avatar, cat}

\* Lengths are halves of a cell; both boxes are a quarter of one.
MCHitBox == [m \in MCMover |-> [left |-> 0, top |-> 0, width |-> 1, height |-> 1]]
MCStride == [m \in MCMover |-> IF m = cat THEN 2 ELSE 1]

\* A room with a corner, where the two movers meet; one beyond half a cell of wall;
\* and below them two pockets that nothing leaves.  No collider has the type 9.
MCMap == << <<1, 1, 1, 1, 1, 1, 1>>,
            <<1, 9, 0, 9, 2, 0, 1>>,
            <<1, 0, 1, 1, 1, 1, 1>>,
            <<1, 1, 1, 2, 1, 2, 1>>,
            <<1, 1, 1, 1, 1, 1, 1>> >>
MCMapCell == [c \in (0..6) \X (0..4) |-> MCMap[c[2] + 1][c[1] + 1]]

\* The whole cell, and its right half.
MCTypeBox == 1 :> [left |-> 0, top |-> 0, width |-> 2, height |-> 2]
          @@ 2 :> [left |-> 1, top |-> 0, width |-> 1, height |-> 2]

MCOrigin == <<-1, 3>>
InMap(x, y) == <<MCOrigin[1] + x, MCOrigin[2] + y>>

MCRooms == { {InMap(x, y) : x \in 2..8, y \in 2..3} \union {InMap(x, y) : x \in 2..3, y \in 4..5},
             {InMap(x, y) : x \in 10..11, y \in 2..3},
             {InMap(6, y) : y \in 6..7}, {InMap(10, y) : y \in 6..7} }

MCSequence == {Walk(d) : d \in Directions} \union {<<"meow">>}
MCStill == {Idle(d) : d \in Directions}
MCFrameCount == [a \in {long, short} |-> [n \in MCSequence |->
                   IF n = <<"meow">> THEN IF a = long THEN 2 ELSE 0
                   ELSE IF a = long THEN 3 ELSE 1]]

MCKeys == {<<0, 0>>, <<-1, 1>>, <<1, -1>>}

\* Two movers in the first room, and a character with an animator.
MCStarts ==
  { [position |-> avatar :> InMap(2, 4) @@ cat :> InMap(7, 2), animated |-> FALSE, atlas |-> None] }
    \union
  { [position |-> avatar :> InMap(6, 6) @@ cat :> InMap(10, 6), animated |-> TRUE, atlas |-> a] :
      a \in {None, long} }
=============================================================================

--------------------------- MODULE PriorityQueueB ---------------------------
(***************************************************************************)
(* zn::PriorityQueueB, the binary heap of the path finder: a sequence in   *)
(* which the children of position p are 2p and 2p + 1.  The comparer reads *)
(* a cost of the items, here the field of a function of records.           *)
(*                                                                         *)
(* The loops of push and pop switch one item with its neighbours on a line *)
(* from the root to where it stops: the operators say where it stops and   *)
(* what the places along the line hold then.                               *)
(***************************************************************************)
EXTENDS Integers, Sequences

\* The positions from p up to the root.
UpFrom(p) ==
  LET line[k \in 1..p] == IF k = 1 THEN {1} ELSE {k} \union line[k \div 2]
  IN  line[p]

\* Where an item that comes in at the end of the list moves up to.
Rise(list, item, nodes) ==
  LET rise[p \in 1..(Len(list) + 1)] ==
        IF p > 1 /\ nodes[item].cost < nodes[list[p \div 2]].cost
          THEN rise[p \div 2]
          ELSE p
  IN  rise[Len(list) + 1]

Push(list, item, nodes) ==
  LET top  == Rise(list, item, nodes)
      line == {p \in UpFrom(Len(list) + 1) : p > top}
  IN  [p \in 1..(Len(list) + 1) |->
         IF p = top THEN item ELSE list[IF p \in line THEN p \div 2 ELSE p]]

\* Slip: only what is under it on the left is looked at.
SinkLeft(list, item, nodes) ==
  LET sink[p \in 1..Len(list)] ==
        IF 2 * p <= Len(list) /\ nodes[list[2 * p]].cost < nodes[item].cost
          THEN sink[2 * p]
          ELSE p
  IN  sink[1]

\* Where an item that takes the place of the root moves down to: at each place
\* it goes to the smallest of what is under it, the left one if they are equal,
\* as long as that is smaller than itself.
Sink(list, item, nodes) ==
  LET smaller(c, p) ==
        c <= Len(list) /\ nodes[list[c]].cost < nodes[IF p = 0 THEN item ELSE list[p]].cost
      sink[p \in 1..Len(list)] ==
        LET left  == IF smaller(2 * p, 0) THEN 2 * p ELSE 0
            least == IF smaller(2 * p + 1, left) THEN 2 * p + 1 ELSE left
        IN  IF least = 0 THEN p ELSE sink[least]
  IN  sink[1]

\* The list without its first item, in which the last takes the first place.
Pop(list, nodes) ==
  LET n      == Len(list)
      rest   == SubSeq(list, 1, n - 1)
      bottom == Sink(rest, list[n], nodes)
      line   == UpFrom(bottom)
  IN  IF n = 1
        THEN <<>>
        ELSE [p \in 1..(n - 1) |->
                IF p = bottom THEN list[n]
                ELSE IF p \in line
                  THEN list[IF 2 * p \in line THEN 2 * p ELSE 2 * p + 1]
                  ELSE list[p]]
=============================================================================

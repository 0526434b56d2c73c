-------------------------- MODULE PathFinderProofs --------------------------
(***************************************************************************)
(* Proofs about the heap of zn::PriorityQueueB and the searches of         *)
(* zn::PathFinder, for any grid, any costs and any number of searches.     *)
(***************************************************************************)
EXTENDS PathFinder, SequenceTheorems, WellFoundedInduction, TLAPS

-----------------------------------------------------------------------------
(***************************************************************************)
(* Numbers.                                                                *)
(***************************************************************************)

Less == {pair \in Nat \X Nat : pair[1] < pair[2]}

\* A set of natural numbers has a least element.
LEMMA LeastElement ==
  ASSUME NEW T, T \subseteq Nat, T # {}
  PROVE  \E x \in T : \A y \in T : x <= y
<1>1. IsWellFoundedOn(Less, Nat)
  BY NatLessThanWellFounded DEF OpToRel, Less
<1>2. PICK x \in T : \A y \in T : <<y, x>> \notin Less
  BY <1>1, WFMin
<1>3. ASSUME NEW y \in T PROVE x <= y
  <2>1. ~(y < x)
    BY <1>2 DEF Less
  <2> QED BY <2>1
<1> QED BY <1>3

\* The place above another one in the heap.
LEMMA HalfIs ==
  ASSUME NEW p \in Nat
  PROVE  p \div 2 \in Nat /\ (p = 2 * (p \div 2) \/ p = 2 * (p \div 2) + 1)
OBVIOUS

-----------------------------------------------------------------------------
(***************************************************************************)
(* The line from the root of the heap to a place.                          *)
(***************************************************************************)

\* The function line of UpFrom.
AreLines(f, p) ==
  f = [k \in 1..p |-> IF k = 1 THEN {1} ELSE {k} \union f[k \div 2]]

LEMMA LinesExist ==
  ASSUME NEW p \in Nat
  PROVE  \E f : AreLines(f, p)
<1> DEFINE T == {k \in Nat : ~\E f : AreLines(f, k)}
<1> SUFFICES ASSUME T # {} PROVE FALSE
  OBVIOUS
<1>1. PICK k \in T : \A y \in T : k <= y
  BY LeastElement
<1>2. CASE k = 0
  <2> DEFINE g == [n \in 1..0 |-> {}]
             H(n) == IF n = 1 THEN {1} ELSE {n} \union g[n \div 2]
  <2>1. \A n \in 1..0 : FALSE
    OBVIOUS
  <2>2. g = [n \in 1..0 |-> H(n)]
    BY <2>1
  <2>3. AreLines(g, 0)
    <3> HIDE DEF g
    <3> QED BY <2>2 DEF AreLines
  <2> QED BY <1>1, <1>2, <2>3
<1>3. CASE k # 0
  <2>1. k - 1 \in Nat /\ k - 1 \notin T /\ k \in Nat
    BY <1>1, <1>3
  <2>2. PICK f : AreLines(f, k - 1)
    BY <2>1
  <2> DEFINE h == [n \in 1..k |-> IF n = 1 THEN {1} ELSE {n} \union f[n \div 2]]
             H(n) == IF n = 1 THEN {1} ELSE {n} \union h[n \div 2]
  <2>3. ASSUME NEW n \in 1..k PROVE h[n] = H(n)
    <3>1. CASE n = 1
      BY <3>1
    <3>2. CASE n # 1
      <4>1. n \div 2 \in 1..(k - 1) /\ n \div 2 \in 1..k
        BY <2>1, <3>2, HalfIs
      <4>2. f[n \div 2] = IF n \div 2 = 1 THEN {1} ELSE {n \div 2} \union f[(n \div 2) \div 2]
        BY <2>2, <4>1 DEF AreLines
      <4>3. h[n \div 2] = f[n \div 2]
        BY <4>1, <4>2
      <4>4. h[n] = {n} \union f[n \div 2]
        BY <3>2
      <4> HIDE DEF h
      <4> QED BY <3>2, <4>3, <4>4
    <3> QED BY <3>1, <3>2
  <2>4. h = [n \in 1..k |-> H(n)]
    <3>1. h = [n \in 1..k |-> h[n]]
      OBVIOUS
    <3> HIDE DEF h, H
    <3> QED BY <2>3, <3>1
  <2>5. AreLines(h, k)
    <3> HIDE DEF h
    <3> QED BY <2>4 DEF AreLines
  <2> QED BY <1>1, <2>5
<1> QED BY <1>2, <1>3

\* A line from the root to p: with every place it has the one above it, and with
\* every place but p one and only one of the two below.
IsLine(L, p) ==
  /\ L \subseteq 1..p /\ 1 \in L /\ p \in L
  /\ \A k \in L : k # 1 => k \div 2 \in L
  /\ \A k \in L : k # p => 2 * k \in L \/ 2 * k + 1 \in L
  /\ \A k \in L, j \in L : j < k => j <= k \div 2

LEMMA UpFromIsLine ==
  ASSUME NEW p \in Nat \ {0}
  PROVE  IsLine(UpFrom(p), p)
<1> DEFINE f == CHOOSE f : AreLines(f, p)
<1>1. AreLines(f, p)
  BY LinesExist
<1>2. UpFrom(p) = f[p]
  BY DEF UpFrom, AreLines
<1> HIDE DEF f
<1>3. \A k \in 1..p : f[k] = IF k = 1 THEN {1} ELSE {k} \union f[k \div 2]
  BY <1>1 DEF AreLines
<1> DEFINE T == {k \in 1..p : ~IsLine(f[k], k)}
<1>4. ASSUME T # {} PROVE FALSE
  <2>1. PICK k \in T : \A y \in T : k <= y
    <3>1. T \subseteq Nat
      OBVIOUS
    <3> HIDE DEF T
    <3> QED BY <1>4, <3>1, LeastElement
  <2>2. k \in 1..p /\ ~IsLine(f[k], k)
    BY <2>1
  <2>3. CASE k = 1
    <3>1. f[k] = {1}
      BY <1>3, <2>2, <2>3
    <3> QED BY <2>2, <2>3, <3>1 DEF IsLine
  <2>4. CASE k # 1
    <3> DEFINE h == k \div 2
               L == f[h]
    <3>1. h \in 1..p /\ h < k /\ (k = 2 * h \/ k = 2 * h + 1)
      BY <2>2, <2>4, HalfIs
    <3>2. h \notin T
      BY <2>1, <3>1
    <3>3. IsLine(L, h)
      BY <3>1, <3>2
    <3>4. f[k] = {k} \union L
      BY <1>3, <2>2, <2>4
    <3> HIDE DEF L
    <3>5. L \subseteq 1..h /\ 1 \in L /\ h \in L
      BY <3>3 DEF IsLine
    <3>6. \A j \in f[k] : j # 1 => j \div 2 \in f[k]
      BY <3>3, <3>4, <3>5 DEF IsLine
    <3> HIDE DEF h
    <3>7. \A j \in f[k] : j # k => 2 * j \in f[k] \/ 2 * j + 1 \in f[k]
      BY <3>1, <3>3, <3>4, <3>5 DEF IsLine
    <3>8. \A i \in f[k], j \in f[k] : j < i => j <= i \div 2
      <4> SUFFICES ASSUME NEW i \in f[k], NEW j \in f[k], j < i PROVE j <= i \div 2
        OBVIOUS
      <4>1. CASE i = k
        <5>0. j # k
          BY <2>2, <4>1
        <5>1. j \in 1..h
          BY <3>4, <3>5, <5>0
        <5>2. i \div 2 = h
          BY <4>1 DEF h
        <5> QED BY <3>1, <5>1, <5>2
      <4>2. CASE i # k
        <5>1. i \in L
          BY <3>4, <4>2
        <5>2. j \in L
          BY <3>1, <3>4, <3>5, <5>1
        <5> QED BY <3>3, <5>1, <5>2 DEF IsLine
      <4> QED BY <4>1, <4>2
    <3>9. f[k] \subseteq 1..k /\ 1 \in f[k] /\ k \in f[k]
      <4>1. 1..h \subseteq 1..k /\ k \in 1..k
        BY <2>2, <3>1
      <4> QED BY <3>4, <3>5, <4>1
    <3> QED BY <2>2, <3>6, <3>7, <3>8, <3>9 DEF IsLine
  <2> QED BY <2>3, <2>4
<1> QED BY <1>2, <1>4

\* Of the two places below one, at most one is on a line.
LEMMA OneBelow ==
  ASSUME NEW p \in Nat, NEW L, IsLine(L, p), NEW k \in Nat, 2 * k \in L
  PROVE  2 * k + 1 \notin L
<1> SUFFICES ASSUME 2 * k + 1 \in L PROVE FALSE
  OBVIOUS
<1>1. \A i \in L, j \in L : j < i => j <= i \div 2
  BY DEF IsLine
<1>2. 2 * k < 2 * k + 1 /\ (2 * k + 1) \div 2 = k
  OBVIOUS
<1>3. 2 * k <= (2 * k + 1) \div 2
  BY <1>1, <1>2
<1>4. 2 * k \in 1..p
  BY DEF IsLine
<1> QED BY <1>2, <1>3, <1>4

-----------------------------------------------------------------------------
(***************************************************************************)
(* Moving along a line of the heap: from place to place as long as Go says *)
(* so, each place being of a smaller rank than the one before.             *)
(***************************************************************************)

AreMoves(f, D, Go, next) == f = [p \in D |-> IF p \in Go THEN f[next[p]] ELSE p]

LEMMA MoveExists ==
  ASSUME NEW D, NEW Go, NEW next, NEW rank, NEW bound \in Nat,
         \A p \in D : rank[p] \in 0..bound,
         \A p \in D : p \in Go => next[p] \in D /\ rank[next[p]] < rank[p]
  PROVE  \E f : AreMoves(f, D, Go, next)
<1> DEFINE Dom(m) == {p \in D : rank[p] < m}
           Moves(f, m) == f = [p \in Dom(m) |-> IF p \in Go THEN f[next[p]] ELSE p]
           T == {m \in Nat : ~\E f : Moves(f, m)}
<1>1. ASSUME T # {} PROVE FALSE
  <2>1. PICK m \in T : \A y \in T : m <= y
    <3>1. T \subseteq Nat
      OBVIOUS
    <3> HIDE DEF T
    <3> QED BY <1>1, <3>1, LeastElement
  <2>2. m \in Nat /\ ~\E f : Moves(f, m)
    BY <2>1
  <2>3. CASE m = 0
    <3>1. Dom(m) = {}
      BY <2>3
    <3> DEFINE g == [p \in Dom(m) |-> p]
               H(p) == IF p \in Go THEN g[next[p]] ELSE p
    <3>2. g = [p \in Dom(m) |-> H(p)]
      BY <3>1
    <3> HIDE DEF g
    <3> QED BY <2>2, <3>2
  <2>4. CASE m # 0
    <3>1. m - 1 \in Nat /\ m - 1 \notin T
      BY <2>1, <2>2, <2>4
    <3>2. PICK f : Moves(f, m - 1)
      BY <3>1
    <3> DEFINE h == [p \in Dom(m) |-> IF p \in Go THEN f[next[p]] ELSE p]
               H(p) == IF p \in Go THEN h[next[p]] ELSE p
    <3>3. ASSUME NEW p \in Dom(m) PROVE h[p] = H(p)
      <4>1. CASE p \in Go
        <5>1. p \in D /\ next[p] \in D /\ rank[p] \in 0..bound /\ rank[next[p]] \in 0..bound
          BY <4>1
        <5>2. rank[next[p]] < rank[p] /\ rank[p] < m
          BY <4>1
        <5>3. next[p] \in Dom(m) /\ next[p] \in Dom(m - 1)
          BY <2>2, <5>1, <5>2
        <5>4. f[next[p]] = IF next[p] \in Go THEN f[next[next[p]]] ELSE next[p]
          BY <3>2, <5>3
        <5>5. h[next[p]] = f[next[p]]
          BY <5>3, <5>4
        <5>6. h[p] = f[next[p]]
          BY <4>1
        <5> HIDE DEF h
        <5> QED BY <4>1, <5>5, <5>6
      <4>2. CASE p \notin Go
        BY <4>2
      <4> QED BY <4>1, <4>2
    <3>4. h = [p \in Dom(m) |-> H(p)]
      <4>1. h = [p \in Dom(m) |-> h[p]]
        OBVIOUS
      <4> HIDE DEF h, H, Dom
      <4> QED BY <3>3, <4>1
    <3>5. Moves(h, m)
      <4> HIDE DEF h, Dom
      <4> QED BY <3>4
    <3> HIDE DEF Moves
    <3> QED BY <2>2, <3>5
  <2> QED BY <2>3, <2>4
<1>2. Dom(bound + 1) = D
  OBVIOUS
<1>3. bound + 1 \notin T
  BY <1>1
<1>4. \E f : Moves(f, bound + 1)
  <2>1. bound + 1 \in Nat
    OBVIOUS
  <2> HIDE DEF Moves
  <2> QED BY <1>3, <2>1
<1> QED BY <1>2, <1>4 DEF AreMoves

\* A list of items of C with their costs.
ListOf(list, C, nodes) ==
  list \in Seq(C) /\ \A c \in C : nodes[c].cost \in Int

\* The function rise of Rise.
AreRises(f, list, item, nodes) ==
  f = [p \in 1..(Len(list) + 1) |->
        IF p > 1 /\ nodes[item].cost < nodes[list[p \div 2]].cost THEN f[p \div 2] ELSE p]

LEMMA RisesExist ==
  ASSUME NEW C, NEW list \in Seq(C), NEW item, NEW nodes
  PROVE  \E f : AreRises(f, list, item, nodes)
<1> DEFINE N == Len(list) + 1
           D == 1..N
           Go == {p \in D : p > 1 /\ nodes[item].cost < nodes[list[p \div 2]].cost}
           next == [p \in D |-> p \div 2]
           rank == [p \in D |-> p]
<1>1. N \in Nat
  OBVIOUS
<1> HIDE DEF N
<1>2. \A p \in D : rank[p] \in 0..N
  BY <1>1
<1>3. \A p \in D : p \in Go => next[p] \in D /\ rank[next[p]] < rank[p]
  <2> SUFFICES ASSUME NEW p \in D, p \in Go PROVE next[p] \in D /\ rank[next[p]] < rank[p]
    OBVIOUS
  <2>1. p > 1 /\ p \div 2 \in D /\ p \div 2 < p
    BY <1>1, HalfIs
  <2> QED BY <2>1
<1>4. PICK f : AreMoves(f, D, Go, next)
  <2> HIDE DEF D, Go, next, rank
  <2> QED BY <1>1, <1>2, <1>3, MoveExists
<1>5. f = [p \in D |-> IF p > 1 /\ nodes[item].cost < nodes[list[p \div 2]].cost
                         THEN f[p \div 2] ELSE p]
  BY <1>4 DEF AreMoves
<1> QED BY <1>5 DEF AreRises, N

\* Where a new item stops: the item above it is not greater, and those that it has
\* passed are.
IsTop(top, list, item, nodes) ==
  /\ top \in UpFrom(Len(list) + 1)
  /\ top # 1 => nodes[list[top \div 2]].cost <= nodes[item].cost
  /\ \A q \in UpFrom(Len(list) + 1) :
       q > top => nodes[item].cost < nodes[list[q \div 2]].cost

LEMMA RiseIsTop ==
  ASSUME NEW C, NEW nodes, NEW list, ListOf(list, C, nodes), NEW item \in C
  PROVE  IsTop(Rise(list, item, nodes), list, item, nodes)
<1> DEFINE f == CHOOSE f : AreRises(f, list, item, nodes)
           N == Len(list) + 1
           L == UpFrom(N)
           cost(p) == nodes[list[p]].cost
<1>1. AreRises(f, list, item, nodes)
  BY RisesExist DEF ListOf
<1>2. Rise(list, item, nodes) = f[N]
  BY DEF Rise, AreRises
<1> HIDE DEF f
<1>3. N \in Nat \ {0} /\ Len(list) = N - 1
  BY DEF ListOf
<1>4. \A p \in 1..N : f[p] = IF p > 1 /\ nodes[item].cost < cost(p \div 2) THEN f[p \div 2] ELSE p
  BY <1>1 DEF AreRises
<1>5. IsLine(L, N)
  BY <1>3, UpFromIsLine
<1>6. nodes[item].cost \in Int /\ \A p \in 1..(N - 1) : cost(p) \in Int
  BY <1>3 DEF ListOf
<1> HIDE DEF N, L, cost
<1> DEFINE Good(p) == /\ f[p] \in L /\ f[p] <= p
                      /\ f[p] # 1 => cost(f[p] \div 2) <= nodes[item].cost
                      /\ \A q \in L : f[p] < q /\ q <= p => nodes[item].cost < cost(q \div 2)
           T == {p \in L : ~Good(p)}
<1>7. ASSUME T # {} PROVE FALSE
  <2>1. PICK p \in T : \A y \in T : p <= y
    <3>1. L \subseteq Nat
      BY <1>3, <1>5 DEF IsLine
    <3>2. T \subseteq Nat
      BY <3>1
    <3> HIDE DEF T
    <3> QED BY <1>7, <3>2, LeastElement
  <2>2. p \in L /\ ~Good(p) /\ p \in 1..N
    BY <1>5, <2>1 DEF IsLine
  <2>3. CASE p > 1 /\ nodes[item].cost < cost(p \div 2)
    <3> DEFINE h == p \div 2
    <3>1. h \in L /\ h < p /\ h \in 1..N
      BY <1>3, <1>5, <2>2, <2>3, HalfIs DEF IsLine
    <3>2. f[p] = f[h]
      BY <1>4, <2>2, <2>3
    <3>3. Good(h)
      <4>1. h \notin T
        BY <2>1, <2>2, <3>1
      <4> HIDE DEF Good
      <4> QED BY <3>1, <4>1
    <3>4. f[h] \in 1..N /\ L \subseteq 1..N
      BY <1>5, <3>3 DEF IsLine
    <3>5. \A q \in L : q <= p => q = p \/ q <= h
      BY <1>5, <2>2, <3>4 DEF IsLine
    <3>6. nodes[item].cost < cost(h)
      BY <2>3
    <3> HIDE DEF h
    <3>7. f[p] \in L /\ f[p] <= p
      BY <2>2, <3>1, <3>2, <3>3, <3>4
    <3>8. \A q \in L : f[p] < q /\ q <= p => nodes[item].cost < cost(q \div 2)
      BY <2>3, <3>2, <3>3, <3>5
    <3> QED BY <2>2, <3>2, <3>3, <3>7, <3>8
  <2>4. CASE ~(p > 1 /\ nodes[item].cost < cost(p \div 2))
    <3>1. f[p] = p
      BY <1>4, <2>2, <2>4
    <3>2. p # 1 => cost(p \div 2) <= nodes[item].cost
      <4>1. p # 1 => p \div 2 \in 1..(N - 1)
        BY <1>3, <2>2, HalfIs
      <4> QED BY <1>6, <2>2, <2>4, <4>1
    <3>3. \A q \in L : ~(p < q /\ q <= p)
      BY <1>5, <2>2 DEF IsLine
    <3> QED BY <2>2, <3>1, <3>2, <3>3
  <2> QED BY <2>3, <2>4
<1>8. Good(N)
  BY <1>5, <1>7 DEF IsLine
<1>9. \A q \in L : q <= N
  BY <1>3, <1>5 DEF IsLine
<1>10. IsTop(f[N], list, item, nodes)
  BY <1>8, <1>9 DEF IsTop, N, L, cost
<1> QED BY <1>2, <1>10

\* A function on 1..n is a sequence of n items.
LEMMA SeqIs ==
  ASSUME NEW S, NEW n \in Nat, NEW f \in [1..n -> S]
  PROVE  f \in Seq(S) /\ Len(f) = n
<1>1. f \in Seq(S)
  BY SeqDef
<1>2. Len(f) \in Nat /\ DOMAIN f = 1..Len(f)
  BY <1>1, LenProperties
<1> QED BY <1>2

\* Every item is at least as great as the one above it.
IsHeap(list, nodes) ==
  \A k \in 2..Len(list) : nodes[list[k \div 2]].cost <= nodes[list[k]].cost

\* What push() makes of a list: at the place top the item, on the line below it the
\* items that were one place above, and elsewhere what was there.
LEMMA PushPlaces ==
  ASSUME NEW C, NEW nodes, NEW list, ListOf(list, C, nodes), NEW item \in C
  PROVE  \E N \in Nat \ {0}, top \in Nat :
           /\ Len(list) = N - 1
           /\ IsLine(UpFrom(N), N)
           /\ IsTop(top, list, item, nodes)
           /\ Push(list, item, nodes) =
                [p \in 1..N |-> IF p = top THEN item
                                ELSE IF p \in UpFrom(N) /\ p > top THEN list[p \div 2]
                                ELSE list[p]]
<1> DEFINE N == Len(list) + 1
           top == Rise(list, item, nodes)
<1>1. N \in Nat \ {0} /\ Len(list) = N - 1
  BY DEF ListOf
<1>2. IsLine(UpFrom(N), N)
  BY <1>1, UpFromIsLine
<1>3. IsTop(top, list, item, nodes)
  BY RiseIsTop
<1>4. top \in Nat
  BY <1>1, <1>2, <1>3 DEF IsTop, IsLine
<1>5. Push(list, item, nodes) =
        [p \in 1..N |-> IF p = top THEN item
                        ELSE IF p \in UpFrom(N) /\ p > top THEN list[p \div 2]
                        ELSE list[p]]
  BY DEF Push
<1> QED BY <1>1, <1>2, <1>3, <1>4, <1>5

\* push() adds the item, loses none, and keeps the order of the heap.
LEMMA PushIs ==
  ASSUME NEW C, NEW nodes, NEW list, ListOf(list, C, nodes), NEW item \in C
  PROVE  /\ Push(list, item, nodes) \in Seq(C)
         /\ ToSet(Push(list, item, nodes)) = ToSet(list) \union {item}
         /\ IsHeap(list, nodes) => IsHeap(Push(list, item, nodes), nodes)
<1>1. PICK N \in Nat \ {0}, top \in Nat :
        /\ Len(list) = N - 1
        /\ IsLine(UpFrom(N), N)
        /\ IsTop(top, list, item, nodes)
        /\ Push(list, item, nodes) =
             [p \in 1..N |-> IF p = top THEN item
                             ELSE IF p \in UpFrom(N) /\ p > top THEN list[p \div 2]
                             ELSE list[p]]
  BY PushPlaces
<1> DEFINE L == UpFrom(N)
           new == Push(list, item, nodes)
<1>2. \A k \in 1..(N - 1) : list[k] \in C
  BY <1>1 DEF ListOf
<1>3. /\ L \subseteq 1..N /\ 1 \in L /\ N \in L /\ top \in L
      /\ \A k \in L : k # 1 => k \div 2 \in L
      /\ \A k \in L : k # N => 2 * k \in L \/ 2 * k + 1 \in L
      /\ \A i \in L, j \in L : j < i => j <= i \div 2
  <2>1. Len(list) + 1 = N
    BY <1>1
  <2> QED BY <1>1, <2>1 DEF IsLine, IsTop
<1> HIDE DEF L
<1>4. \A p \in 1..N : new[p] = IF p = top THEN item
                               ELSE IF p \in L /\ p > top THEN list[p \div 2]
                               ELSE list[p]
  BY <1>1 DEF L
<1>5. \A p \in 1..N :
        /\ p # top /\ p \in L /\ p > top => p \div 2 \in 1..(N - 1)
        /\ p # top /\ ~(p \in L /\ p > top) => p \in 1..(N - 1)
  <2> SUFFICES ASSUME NEW p \in 1..N, p # top
      PROVE /\ p \in L /\ p > top => p \div 2 \in 1..(N - 1)
            /\ ~(p \in L /\ p > top) => p \in 1..(N - 1)
    OBVIOUS
  <2>1. top \in 1..N
    BY <1>3
  <2>2. p > top => p \div 2 \in 1..(N - 1)
    BY <2>1, HalfIs
  <2>3. p = N => p \in L /\ p > top
    BY <1>3, <2>1
  <2> QED BY <2>2, <2>3
<1>6. new \in [1..N -> C]
  <2>1. \A p \in 1..N : new[p] \in C
    BY <1>2, <1>4, <1>5
  <2>2. new = [p \in 1..N |-> new[p]]
    BY <1>1
  <2> HIDE DEF new
  <2> QED BY <2>1, <2>2
<1>7. new \in Seq(C) /\ Len(new) = N
  BY <1>6, SeqIs
<1>8. ToSet(new) = ToSet(list) \union {item}
  <2>1. ToSet(new) = {new[p] : p \in 1..N} /\ ToSet(list) = {list[p] : p \in 1..(N - 1)}
    <3>1. DOMAIN new = 1..N /\ DOMAIN list = 1..(N - 1)
      BY <1>1, <1>6 DEF ListOf
    <3> HIDE DEF new
    <3> QED BY <3>1 DEF ToSet
  <2>2. ASSUME NEW p \in 1..N PROVE new[p] = item \/ \E k \in 1..(N - 1) : new[p] = list[k]
    BY <1>4, <1>5
  <2>3. \E p \in 1..N : new[p] = item
    BY <1>3, <1>4
  <2>4. ASSUME NEW k \in 1..(N - 1) PROVE \E p \in 1..N : new[p] = list[k]
    <3>1. CASE k \in L /\ k >= top
      <4>1. PICK c \in L : c = 2 * k \/ c = 2 * k + 1
        BY <1>3, <3>1
      <4>2. c \in 1..N /\ c \div 2 = k /\ c > k
        BY <1>3, <4>1
      <4>3. c > top /\ c # top
        BY <3>1, <4>2
      <4> QED BY <1>4, <4>2, <4>3
    <3>2. CASE ~(k \in L /\ k >= top)
      <4>1. k # top /\ ~(k \in L /\ k > top) /\ k \in 1..N
        BY <1>3, <3>2
      <4> QED BY <1>4, <4>1
    <3> QED BY <3>1, <3>2
  <2> HIDE DEF new
  <2> QED BY <2>1, <2>2, <2>3, <2>4
<1>9. ASSUME IsHeap(list, nodes) PROVE IsHeap(new, nodes)
  <2> DEFINE cost(p) == nodes[list[p]].cost
             it == nodes[item].cost
  <2>1. it \in Int /\ \A k \in 1..(N - 1) : cost(k) \in Int
    BY <1>2 DEF ListOf
  <2>2. \A k \in 2..(N - 1) : cost(k \div 2) <= cost(k)
    BY <1>1, <1>9 DEF IsHeap
  <2>3. /\ top # 1 => cost(top \div 2) <= it
        /\ \A q \in L : q > top => it < cost(q \div 2)
    <3>1. Len(list) + 1 = N
      BY <1>1
    <3> QED BY <1>1, <3>1 DEF IsTop, L
  <2> SUFFICES ASSUME NEW p \in 2..N PROVE nodes[new[p \div 2]].cost <= nodes[new[p]].cost
    BY <1>7 DEF IsHeap
  <2> DEFINE h == p \div 2
  <2>4. h \in 1..(N - 1) /\ h < p /\ h # 0 /\ p \in 1..N /\ h \in 1..N /\ p # 1
    BY HalfIs
  <2>5. nodes[new[h]].cost = IF h = top THEN it
                             ELSE IF h \in L /\ h > top THEN cost(h \div 2) ELSE cost(h)
    BY <1>4, <2>4
  <2>6. nodes[new[p]].cost = IF p = top THEN it
                             ELSE IF p \in L /\ p > top THEN cost(h) ELSE cost(p)
    BY <1>4, <2>4
  <2>7. h \in L /\ h > top => h \div 2 \in 1..(N - 1) /\ cost(h \div 2) <= cost(h)
    <3> SUFFICES ASSUME h > top PROVE h \div 2 \in 1..(N - 1) /\ cost(h \div 2) <= cost(h)
      OBVIOUS
    <3>1. h >= 2
      BY <1>3, <2>4
    <3>2. h \div 2 \in 1..(N - 1) /\ h \in 2..(N - 1)
      BY <2>4, <3>1, HalfIs
    <3> QED BY <2>2, <3>2
  <2>8. p \in L => h \in L
    BY <1>3, <2>4
  <2>9. p \in L /\ p > top => h >= top
    BY <1>3
  <2>10. h = top => it <= cost(h)
    <3> SUFFICES ASSUME h = top PROVE it <= cost(h)
      OBVIOUS
    <3>1. PICK c \in L : c = 2 * h \/ c = 2 * h + 1
      BY <1>3, <2>4
    <3>2. c > h /\ c \div 2 = h
      BY <2>4, <3>1
    <3>3. it < cost(c \div 2)
      BY <2>3, <3>2
    <3>4. cost(h) \in Int
      BY <2>1, <2>4
    <3> QED BY <2>1, <3>2, <3>3, <3>4
  <2>11. cost(h) \in Int /\ (p <= N - 1 => cost(p) \in Int /\ cost(h) <= cost(p))
    BY <2>1, <2>2, <2>4
  <2>12. p # top /\ ~(p \in L /\ p > top) => p <= N - 1
    BY <1>5, <2>4
  <2> HIDE DEF h, cost, it, new
  <2>13. cost(h \div 2) \in Int \/ ~(h \in L /\ h > top)
    BY <2>1, <2>7
  <2>14. CASE p = top
    <3>1. h # top /\ ~(h > top) /\ cost(h) <= it
      BY <2>3, <2>4, <2>14 DEF h
    <3> QED BY <2>5, <2>6, <2>14, <3>1 DEF h
  <2>15. CASE p # top /\ p \in L /\ p > top
    <3>1. h \in L /\ (h = top \/ h > top)
      BY <1>3, <2>4, <2>8, <2>9, <2>15
    <3> QED BY <2>5, <2>6, <2>7, <2>10, <2>15, <3>1 DEF h
  <2>16. CASE p # top /\ ~(p \in L /\ p > top)
    <3>1. cost(h) <= cost(p) /\ cost(p) \in Int /\ cost(h) \in Int
      BY <2>11, <2>12, <2>16
    <3>2. nodes[new[p]].cost = cost(p)
      BY <2>6, <2>16
    <3>3. nodes[new[h]].cost \in Int /\ nodes[new[h]].cost <= cost(h)
      BY <2>1, <2>5, <2>7, <2>10, <2>13, <3>1
    <3> QED BY <3>1, <3>2, <3>3 DEF h
  <2> QED BY <2>14, <2>15, <2>16
<1> QED BY <1>7, <1>8, <1>9

-----------------------------------------------------------------------------
(***************************************************************************)
(* Taking the root out of the heap.                                        *)
(***************************************************************************)

\* The function sink of Sink.
AreSinks(f, list, item, nodes) ==
  LET smaller(c, p) ==
        c <= Len(list) /\ nodes[list[c]].cost < nodes[IF p = 0 THEN item ELSE list[p]].cost
  IN  f = [p \in 1..Len(list) |->
        LET left  == IF smaller(2 * p, 0) THEN 2 * p ELSE 0
            least == IF smaller(2 * p + 1, left) THEN 2 * p + 1 ELSE left
        IN  IF least = 0 THEN p ELSE f[least]]

\* The place under p to which an item goes from there, 0 if it stays.
Under(p, list, item, nodes) ==
  LET smaller(c, q) ==
        c <= Len(list) /\ nodes[list[c]].cost < nodes[IF q = 0 THEN item ELSE list[q]].cost
      left == IF smaller(2 * p, 0) THEN 2 * p ELSE 0
  IN  IF smaller(2 * p + 1, left) THEN 2 * p + 1 ELSE left

\* The items under p are not smaller than this one, or it goes to the smallest.
LEMMA UnderIs ==
  ASSUME NEW C, NEW nodes, NEW list, ListOf(list, C, nodes), NEW item \in C,
         NEW p \in 1..Len(list), NEW t, t = Under(p, list, item, nodes)
  PROVE  /\ t = 0 => \A c \in {2 * p, 2 * p + 1} :
              c <= Len(list) => nodes[item].cost <= nodes[list[c]].cost
         /\ t # 0 => /\ t \in {2 * p, 2 * p + 1} /\ t \in 1..Len(list)
                     /\ nodes[list[t]].cost < nodes[item].cost
                     /\ \A c \in {2 * p, 2 * p + 1} :
                          c <= Len(list) => nodes[list[t]].cost <= nodes[list[c]].cost
<1> DEFINE N == Len(list)
           cost(k) == nodes[list[k]].cost
           it == nodes[item].cost
<1>1. N \in Nat /\ p \in 1..N
  BY DEF ListOf
<1>2. it \in Int /\ \A k \in 1..N : cost(k) \in Int
  BY DEF ListOf
<1>3. /\ (2 * p <= N => 2 * p \in 1..N) /\ 2 * p # 0
      /\ (2 * p + 1 <= N => 2 * p + 1 \in 1..N /\ 2 * p <= N) /\ 2 * p + 1 # 0
  BY <1>1
<1>4. CASE 2 * p <= N /\ cost(2 * p) < it
  <2>1. t = IF 2 * p + 1 <= N /\ cost(2 * p + 1) < cost(2 * p) THEN 2 * p + 1 ELSE 2 * p
    BY <1>3, <1>4 DEF Under
  <2> HIDE DEF N, cost, it
  <2>2. /\ t \in {2 * p, 2 * p + 1} /\ t \in 1..N /\ t # 0
        /\ cost(t) < it
        /\ \A c \in {2 * p, 2 * p + 1} : c <= N => cost(t) <= cost(c)
    BY <1>2, <1>3, <1>4, <2>1
  <2> QED BY <2>2 DEF N, cost, it
<1>5. CASE ~(2 * p <= N /\ cost(2 * p) < it)
  <2>1. t = IF 2 * p + 1 <= N /\ cost(2 * p + 1) < it THEN 2 * p + 1 ELSE 0
    BY <1>3, <1>5 DEF Under
  <2> HIDE DEF N, cost, it
  <2>2. CASE 2 * p + 1 <= N /\ cost(2 * p + 1) < it
    <3>1. t = 2 * p + 1 /\ t \in 1..N /\ 2 * p \in 1..N /\ t # 0
      BY <1>3, <2>1, <2>2
    <3>2. cost(t) < it /\ cost(t) <= cost(2 * p) /\ cost(t) <= cost(t)
      BY <1>2, <1>5, <2>2, <3>1
    <3> QED BY <3>1, <3>2 DEF N, cost, it
  <2>3. CASE ~(2 * p + 1 <= N /\ cost(2 * p + 1) < it)
    <3>1. t = 0
      BY <2>1, <2>3
    <3>2. \A c \in {2 * p, 2 * p + 1} : c <= N => it <= cost(c)
      BY <1>2, <1>3, <1>5, <2>3
    <3> QED BY <3>1, <3>2 DEF N, cost, it
  <2> QED BY <2>2, <2>3
<1> QED BY <1>4, <1>5

LEMMA SinksExist ==
  ASSUME NEW C, NEW nodes, NEW list, ListOf(list, C, nodes), NEW item \in C
  PROVE  \E f : AreSinks(f, list, item, nodes)
<1> DEFINE N == Len(list)
           D == 1..N
           next == [p \in D |-> Under(p, list, item, nodes)]
           Go == {p \in D : next[p] # 0}
           rank == [p \in D |-> N - p]
<1>1. N \in Nat
  BY DEF ListOf
<1>2. \A p \in D : rank[p] \in 0..N
  <2> HIDE DEF N
  <2> QED BY <1>1
<1>3. \A p \in D : p \in Go => next[p] \in D /\ rank[next[p]] < rank[p]
  <2> SUFFICES ASSUME NEW p \in D, p \in Go PROVE next[p] \in D /\ rank[next[p]] < rank[p]
    OBVIOUS
  <2>1. next[p] = Under(p, list, item, nodes) /\ next[p] # 0
    OBVIOUS
  <2> HIDE DEF next
  <2>2. next[p] \in {2 * p, 2 * p + 1} /\ next[p] \in D
    BY <2>1, UnderIs
  <2>3. next[p] > p
    BY <1>1, <2>2
  <2> HIDE DEF N
  <2> QED BY <1>1, <2>2, <2>3
<1>4. PICK f : AreMoves(f, D, Go, next)
  <2> HIDE DEF D, Go, next, rank, N
  <2> QED BY <1>1, <1>2, <1>3, MoveExists
<1> DEFINE H(p) == IF Under(p, list, item, nodes) = 0 THEN p
                   ELSE f[Under(p, list, item, nodes)]
<1>5. f = [p \in D |-> H(p)]
  BY <1>4 DEF AreMoves
<1>6. AreSinks(f, list, item, nodes)
  BY <1>5 DEF AreSinks, Under
<1> QED BY <1>6

\* Where the last item stops: those under it are not smaller, and those that went up
\* along the line are smaller than it and not greater than their neighbours.
IsBottom(b, list, item, nodes) ==
  /\ b \in 1..Len(list)
  /\ \A c \in {2 * b, 2 * b + 1} :
       c <= Len(list) => nodes[item].cost <= nodes[list[c]].cost
  /\ \A k \in UpFrom(b) : k # 1 =>
       /\ nodes[list[k]].cost < nodes[item].cost
       /\ \A c \in {2 * (k \div 2), 2 * (k \div 2) + 1} :
            c <= Len(list) => nodes[list[k]].cost <= nodes[list[c]].cost

LEMMA SinkIsBottom ==
  ASSUME NEW C, NEW nodes, NEW list, ListOf(list, C, nodes), NEW item \in C, list # <<>>
  PROVE  IsBottom(Sink(list, item, nodes), list, item, nodes)
<1> DEFINE f == CHOOSE f : AreSinks(f, list, item, nodes)
           N == Len(list)
           cost(p) == nodes[list[p]].cost
           it == nodes[item].cost
           next(p) == Under(p, list, item, nodes)
<1>1. AreSinks(f, list, item, nodes)
  BY SinksExist
<1>2. Sink(list, item, nodes) = f[1]
  BY DEF Sink, AreSinks
<1> HIDE DEF f
<1>3. N \in Nat \ {0}
  BY DEF ListOf
<1>4. \A p \in 1..N : f[p] = IF next(p) = 0 THEN p ELSE f[next(p)]
  BY <1>1 DEF AreSinks, Under
<1>5. \A p \in 1..N :
        /\ next(p) = 0 => \A c \in {2 * p, 2 * p + 1} : c <= N => it <= cost(c)
        /\ next(p) # 0 =>
             /\ next(p) \in {2 * p, 2 * p + 1} /\ next(p) \in 1..N
             /\ cost(next(p)) < it
             /\ \A c \in {2 * p, 2 * p + 1} : c <= N => cost(next(p)) <= cost(c)
  BY UnderIs
<1> HIDE DEF N, cost, it, next
<1> DEFINE Ordered(k) ==
             /\ cost(k) < it
             /\ \A c \in {2 * (k \div 2), 2 * (k \div 2) + 1} : c <= N => cost(k) <= cost(c)
           Good(p) ==
             /\ f[p] \in 1..N /\ p \in UpFrom(f[p])
             /\ \A c \in {2 * f[p], 2 * f[p] + 1} : c <= N => it <= cost(c)
             /\ \A k \in UpFrom(f[p]) : p < k => Ordered(k)
           T == {i \in Nat : i < N /\ ~Good(N - i)}
<1>6. ASSUME T # {} PROVE FALSE
  <2>1. PICK i \in T : \A y \in T : i <= y
    <3>1. T \subseteq Nat
      OBVIOUS
    <3> HIDE DEF T
    <3> QED BY <1>6, <3>1, LeastElement
  <2> DEFINE p == N - i
  <2>2. p \in 1..N /\ ~Good(p)
    BY <1>3, <2>1
  <2>3. \A q \in 1..N : p < q => Good(q)
    <3> SUFFICES ASSUME NEW q \in 1..N, p < q PROVE Good(q)
      OBVIOUS
    <3>1. N - q \in Nat /\ N - q < i /\ N - q < N /\ N - (N - q) = q
      BY <1>3, <2>1, <2>2
    <3>2. N - q \notin T
      BY <2>1, <3>1
    <3> HIDE DEF Good
    <3> QED BY <3>1, <3>2
  <2> HIDE DEF p
  <2>4. CASE next(p) = 0
    <3>1. f[p] = p
      BY <1>4, <2>2, <2>4
    <3>2. IsLine(UpFrom(p), p)
      BY <2>2, UpFromIsLine
    <3>3. p \in UpFrom(p) /\ \A k \in UpFrom(p) : ~(p < k)
      BY <2>2, <3>2 DEF IsLine
    <3>4. \A c \in {2 * p, 2 * p + 1} : c <= N => it <= cost(c)
      BY <1>5, <2>2, <2>4
    <3> QED BY <2>2, <3>1, <3>3, <3>4
  <2>5. CASE next(p) # 0
    <3> DEFINE t == next(p)
    <3>1. /\ t \in {2 * p, 2 * p + 1} /\ t \in 1..N
          /\ cost(t) < it
          /\ \A c \in {2 * p, 2 * p + 1} : c <= N => cost(t) <= cost(c)
      BY <1>5, <2>2, <2>5
    <3>2. f[p] = f[t]
      BY <1>4, <2>2, <2>5
    <3> HIDE DEF t
    <3>3. t > p /\ t \div 2 = p /\ t # 1
      BY <2>2, <3>1
    <3>4. Good(t)
      BY <2>3, <3>1, <3>3
    <3> DEFINE b == f[t]
               L == UpFrom(b)
    <3>5. b \in 1..N /\ t \in L
      BY <3>4
    <3>6. IsLine(L, b)
      BY <3>5, UpFromIsLine
    <3>7. p \in L
      BY <3>3, <3>5, <3>6 DEF IsLine
    <3>8. Ordered(t)
      BY <3>1, <3>3
    <3>9. ASSUME NEW k \in L, p < k PROVE Ordered(k)
      <4>1. k \in 1..b /\ t \in 1..b
        BY <3>5, <3>6 DEF IsLine
      <4>2. ~(k < t)
        BY <2>2, <3>3, <3>5, <3>6, <3>9, <4>1 DEF IsLine
      <4>3. k = t \/ t < k
        BY <4>1, <4>2
      <4> QED BY <3>4, <3>8, <4>3
    <3>10. \A c \in {2 * b, 2 * b + 1} : c <= N => it <= cost(c)
      BY <3>4
    <3> HIDE DEF Ordered, b
    <3> QED BY <2>2, <3>2, <3>5, <3>7, <3>9, <3>10 DEF b
  <2> QED BY <2>4, <2>5
<1>7. Good(1)
  <2>1. N - 1 \in Nat /\ N - 1 < N /\ N - (N - 1) = 1
    BY <1>3
  <2>2. N - 1 \notin T
    BY <1>6
  <2> HIDE DEF Good
  <2> QED BY <2>1, <2>2
<1>8. \A k \in UpFrom(f[1]) : k # 1 => 1 < k
  <2>1. IsLine(UpFrom(f[1]), f[1])
    BY <1>7, UpFromIsLine
  <2> QED BY <1>7, <2>1 DEF IsLine
<1>9. \A k \in UpFrom(f[1]) : k # 1 => Ordered(k)
  BY <1>7, <1>8
<1>10. IsBottom(f[1], list, item, nodes)
  BY <1>7, <1>9 DEF IsBottom, N, cost, it
<1> QED BY <1>2, <1>10

\* What pop() makes of a list of n items: at the place bottom the last item, on the
\* line above it the items that were one place below, and elsewhere what was there.
LEMMA PopPlaces ==
  ASSUME NEW C, NEW nodes, NEW list, ListOf(list, C, nodes), Len(list) > 1
  PROVE  \E b \in Nat \ {0} :
           /\ IsLine(UpFrom(b), b)
           /\ IsBottom(b, SubSeq(list, 1, Len(list) - 1), list[Len(list)], nodes)
           /\ Pop(list, nodes) =
                [p \in 1..(Len(list) - 1) |->
                   IF p = b THEN list[Len(list)]
                   ELSE IF p \in UpFrom(b)
                     THEN list[IF 2 * p \in UpFrom(b) THEN 2 * p ELSE 2 * p + 1]
                   ELSE list[p]]
<1> DEFINE n == Len(list)
           rest == SubSeq(list, 1, n - 1)
           b == Sink(rest, list[n], nodes)
<1>1. n \in Nat /\ n > 1 /\ \A k \in 1..n : list[k] \in C
  BY DEF ListOf
<1>2. rest \in Seq(C) /\ Len(rest) = n - 1
  <2> HIDE DEF n
  <2>1. \A i \in 1..(n - 1) : list[i] \in C
    BY <1>1
  <2> QED BY <1>1, <2>1, SubSeqProperties
<1>3. ListOf(rest, C, nodes) /\ rest # <<>> /\ list[n] \in C
  BY <1>1, <1>2 DEF ListOf
<1>4. IsBottom(b, rest, list[n], nodes)
  <2> HIDE DEF rest
  <2> QED BY <1>3, SinkIsBottom
<1>5. b \in Nat \ {0}
  <2> HIDE DEF rest, b
  <2> QED BY <1>1, <1>2, <1>4 DEF IsBottom
<1>6. IsLine(UpFrom(b), b)
  BY <1>5, UpFromIsLine
<1>7. Pop(list, nodes) =
        [p \in 1..(n - 1) |->
           IF p = b THEN list[n]
           ELSE IF p \in UpFrom(b) THEN list[IF 2 * p \in UpFrom(b) THEN 2 * p ELSE 2 * p + 1]
           ELSE list[p]]
  BY <1>1 DEF Pop
<1> HIDE DEF b
<1> QED BY <1>4, <1>5, <1>6, <1>7

\* pop() loses the first item and no other, and keeps the order of the heap.
LEMMA PopIs ==
  ASSUME NEW C, NEW nodes, NEW list, ListOf(list, C, nodes), list # <<>>
  PROVE  /\ Pop(list, nodes) \in Seq(C)
         /\ ToSet(Pop(list, nodes)) = {list[k] : k \in 2..Len(list)}
         /\ IsHeap(list, nodes) => IsHeap(Pop(list, nodes), nodes)
<1> DEFINE n == Len(list)
           new == Pop(list, nodes)
<1>1. n \in Nat \ {0} /\ \A k \in 1..n : list[k] \in C
  BY DEF ListOf
<1>2. CASE n = 1
  <2>1. new = <<>>
    BY <1>2 DEF Pop
  <2>2. \A k \in 2..n : FALSE
    BY <1>2
  <2>3. ToSet(new) = {} /\ {list[k] : k \in 2..n} = {}
    BY <2>1, <2>2 DEF ToSet
  <2>4. IsHeap(new, nodes)
    BY <2>1 DEF IsHeap
  <2>5. <<>> \in Seq(C)
    OBVIOUS
  <2> QED BY <2>1, <2>3, <2>4, <2>5
<1>3. CASE n > 1
  <2>1. PICK b \in Nat \ {0} :
          /\ IsLine(UpFrom(b), b)
          /\ IsBottom(b, SubSeq(list, 1, n - 1), list[n], nodes)
          /\ new = [p \in 1..(n - 1) |->
                      IF p = b THEN list[n]
                      ELSE IF p \in UpFrom(b)
                        THEN list[IF 2 * p \in UpFrom(b) THEN 2 * p ELSE 2 * p + 1]
                      ELSE list[p]]
    BY <1>3, PopPlaces
  <2> DEFINE L == UpFrom(b)
             cost(p) == nodes[list[p]].cost
             it == cost(n)
             below(p) == IF 2 * p \in L THEN 2 * p ELSE 2 * p + 1
  <2>2. /\ b \in 1..(n - 1)
        /\ \A c \in {2 * b, 2 * b + 1} : c <= n - 1 => it <= cost(c)
        /\ \A k \in L : k # 1 =>
             /\ cost(k) < it
             /\ \A c \in {2 * (k \div 2), 2 * (k \div 2) + 1} : c <= n - 1 => cost(k) <= cost(c)
    <3> DEFINE rest == SubSeq(list, 1, n - 1)
    <3>1. /\ Len(rest) = n - 1
          /\ \A i \in 1..(n - 1) : rest[i] = list[i]
      <4> HIDE DEF n
      <4>1. \A i \in 1..(n - 1) : list[i] \in C
        BY <1>1
      <4> QED BY <1>1, <1>3, <4>1, SubSeqProperties
    <3> HIDE DEF rest
    <3>2. IsBottom(b, rest, list[n], nodes)
      BY <2>1 DEF rest
    <3>3. b \in 1..(n - 1) /\ \A k \in L : k \in 1..(n - 1)
      BY <1>1, <2>1, <3>1, <3>2 DEF IsBottom, IsLine
    <3>4. \A c \in {2 * b, 2 * b + 1} : c <= n - 1 => it <= cost(c)
      BY <1>1, <3>1, <3>2, <3>3 DEF IsBottom
    <3>5. \A k \in L : k # 1 =>
             /\ cost(k) < it
             /\ \A c \in {2 * (k \div 2), 2 * (k \div 2) + 1} : c <= n - 1 => cost(k) <= cost(c)
      <4> SUFFICES ASSUME NEW k \in L, k # 1,
                          NEW c \in {2 * (k \div 2), 2 * (k \div 2) + 1}
          PROVE cost(k) < it /\ (c <= n - 1 => cost(k) <= cost(c))
        OBVIOUS
      <4>1. k \in 1..(n - 1) /\ rest[k] = list[k]
        BY <3>1, <3>3
      <4>2. c <= n - 1 => c \in 1..(n - 1) /\ rest[c] = list[c]
        <5>1. k \div 2 \in Nat \ {0}
          BY <4>1, HalfIs
        <5>2. c \in Nat \ {0}
          BY <5>1
        <5> QED BY <1>1, <3>1, <5>2
      <4>3. /\ nodes[rest[k]].cost < nodes[list[n]].cost
            /\ c <= n - 1 => nodes[rest[k]].cost <= nodes[rest[c]].cost
        BY <3>1, <3>2 DEF IsBottom
      <4> QED BY <4>1, <4>2, <4>3
    <3> QED BY <3>3, <3>4, <3>5
  <2>3. /\ L \subseteq 1..b /\ 1 \in L /\ b \in L
        /\ \A k \in L : k # 1 => k \div 2 \in L
        /\ \A k \in L : k # b => 2 * k \in L \/ 2 * k + 1 \in L
        /\ \A k \in Nat : ~(2 * k \in L /\ 2 * k + 1 \in L)
    BY <2>1, OneBelow DEF IsLine
  <2>4. \A p \in 1..(n - 1) : new[p] = IF p = b THEN list[n]
                                       ELSE IF p \in L THEN list[below(p)] ELSE list[p]
    BY <2>1
  <2>5. \A p \in L : p # b => /\ below(p) \in L /\ below(p) \in 2..(n - 1)
                              /\ below(p) \div 2 = p
                              /\ below(p) \in {2 * p, 2 * p + 1}
    <3> SUFFICES ASSUME NEW p \in L, p # b
        PROVE /\ below(p) \in L /\ below(p) \in 2..(n - 1) /\ below(p) \div 2 = p
              /\ below(p) \in {2 * p, 2 * p + 1}
      OBVIOUS
    <3>1. p \in 1..b /\ below(p) \in L /\ (below(p) = 2 * p \/ below(p) = 2 * p + 1)
      BY <2>3
    <3> HIDE DEF below
    <3>2. below(p) \in 1..b /\ below(p) \div 2 = p /\ below(p) >= 2
      <4>1. below(p) \in 1..b /\ p \in Nat \ {0}
        BY <2>3, <3>1
      <4>2. CASE below(p) = 2 * p
        BY <4>1, <4>2
      <4>3. CASE below(p) = 2 * p + 1
        BY <4>1, <4>3
      <4> QED BY <3>1, <4>2, <4>3
    <3>3. below(p) \in 2..(n - 1)
      BY <1>1, <2>2, <3>2
    <3> QED BY <3>1, <3>2, <3>3
  <2> HIDE DEF L, below
  <2>6. new \in [1..(n - 1) -> C]
    <3>1. \A p \in 1..(n - 1) : new[p] \in C
      <4> SUFFICES ASSUME NEW p \in 1..(n - 1) PROVE new[p] \in C
        OBVIOUS
      <4>1. new[p] = IF p = b THEN list[n] ELSE IF p \in L THEN list[below(p)] ELSE list[p]
        BY <2>4
      <4>2. p \in L /\ p # b => below(p) \in 1..n
        BY <1>1, <2>5
      <4>3. p \in 1..n /\ n \in 1..n
        BY <1>1
      <4> QED BY <1>1, <4>1, <4>2, <4>3
    <3>2. new = [p \in 1..(n - 1) |-> new[p]]
      BY <2>1
    <3> HIDE DEF new
    <3> QED BY <3>1, <3>2
  <2>7. new \in Seq(C) /\ Len(new) = n - 1
    <3>1. n - 1 \in Nat
      BY <1>1
    <3> HIDE DEF new, n
    <3> QED BY <2>6, <3>1, SeqIs
  <2>8. ToSet(new) = {list[k] : k \in 2..n}
    <3>1. ToSet(new) = {new[p] : p \in 1..(n - 1)}
      <4>1. DOMAIN new = 1..(n - 1)
        BY <2>6
      <4> HIDE DEF new
      <4> QED BY <4>1 DEF ToSet
    <3>2. ASSUME NEW p \in 1..(n - 1) PROVE \E k \in 2..n : new[p] = list[k]
      <4>1. new[p] = IF p = b THEN list[n] ELSE IF p \in L THEN list[below(p)] ELSE list[p]
        BY <2>4
      <4>2. n \in 2..n
        BY <1>1, <1>3
      <4>3. p \in L /\ p # b => below(p) \in 2..n
        BY <1>1, <2>5
      <4>4. p \notin L => p \in 2..n
        BY <1>1, <2>3
      <4> HIDE DEF new, n
      <4> QED BY <4>1, <4>2, <4>3, <4>4
    <3>3. ASSUME NEW k \in 2..n PROVE \E p \in 1..(n - 1) : new[p] = list[k]
      <4>1. CASE k = n
        BY <2>2, <2>4, <4>1
      <4>2. CASE k # n /\ k \notin L
        <5>1. k \in 1..(n - 1) /\ k # b
          BY <1>1, <2>3, <4>2
        <5> QED BY <2>4, <4>2, <5>1
      <4>3. CASE k # n /\ k \in L
        <5> DEFINE p == k \div 2
        <5>1. k \in 1..b /\ k \in 2..n
          BY <2>3, <4>3
        <5>2. p \in 1..(n - 1) /\ p < k /\ k \in {2 * p, 2 * p + 1}
          BY <1>1, <2>2, <5>1, HalfIs
        <5>3. p \in L /\ p # b
          <6>1. p \in L
            BY <2>3, <4>3, <5>1
          <6> HIDE DEF p
          <6> QED BY <2>2, <5>1, <5>2, <6>1
        <5>4. below(p) = k
          <6>1. p \in Nat
            BY <5>2
          <6> HIDE DEF p
          <6> QED BY <2>3, <4>3, <5>2, <6>1 DEF below
        <5> HIDE DEF p
        <5>5. new[p] = list[k]
          BY <2>4, <5>2, <5>3, <5>4
        <5> QED BY <5>2, <5>5
      <4> QED BY <4>1, <4>2, <4>3
    <3> HIDE DEF new, n
    <3> QED BY <3>1, <3>2, <3>3
  <2>9. ASSUME IsHeap(list, nodes) PROVE IsHeap(new, nodes)
    <3>1. \A k \in 1..n : cost(k) \in Int
      BY DEF ListOf
    <3>2. \A k \in 2..n : cost(k \div 2) <= cost(k)
      BY <2>9 DEF IsHeap
    <3> SUFFICES ASSUME NEW p \in 2..(n - 1)
        PROVE nodes[new[p \div 2]].cost <= nodes[new[p]].cost
      BY <2>7 DEF IsHeap
    <3> DEFINE h == p \div 2
    <3>3. /\ h \in 1..(n - 1) /\ h < p /\ p \in {2 * h, 2 * h + 1} /\ p \in 1..(n - 1) /\ p # 1
          /\ p \in 1..n /\ h \in 1..n /\ n \in 1..n /\ p \in 2..n
      BY <1>1, HalfIs
    <3>4. nodes[new[h]].cost = IF h = b THEN it ELSE IF h \in L THEN cost(below(h)) ELSE cost(h)
      BY <2>4, <3>3
    <3>5. nodes[new[p]].cost = IF p = b THEN it ELSE IF p \in L THEN cost(below(p)) ELSE cost(p)
      BY <2>4, <3>3
    <3>6. cost(h) <= cost(p) /\ cost(p) \in Int /\ cost(h) \in Int /\ it \in Int
      BY <3>1, <3>2, <3>3
    <3>7. p \in L => h \in L
      BY <2>3, <3>3
    <3>8. ASSUME h \notin L PROVE nodes[new[h]].cost <= nodes[new[p]].cost
      <4>1. p \notin L /\ b \in L
        BY <2>3, <3>7, <3>8
      <4> QED BY <3>4, <3>5, <3>6, <3>8, <4>1
    <3>9. ASSUME h = b PROVE nodes[new[h]].cost <= nodes[new[p]].cost
      <4>1. p \notin L /\ p # b
        BY <2>2, <2>3, <3>3, <3>9
      <4>2. it <= cost(p)
        <5>1. p \in {2 * b, 2 * b + 1} /\ p <= n - 1
          <6> HIDE DEF h
          <6> QED BY <1>1, <3>3, <3>9
        <5> QED BY <2>2, <5>1
      <4> QED BY <3>4, <3>5, <3>9, <4>1, <4>2
    <3>10. ASSUME h \in L, h # b PROVE nodes[new[h]].cost <= nodes[new[p]].cost
      <4> DEFINE c == below(h)
      <4>1. c \in L /\ c \in 2..(n - 1) /\ c \div 2 = h /\ c \in {2 * h, 2 * h + 1}
        BY <2>5, <3>10
      <4> HIDE DEF c
      <4>2. nodes[new[h]].cost = cost(c)
        BY <3>4, <3>10 DEF c
      <4>3. c # 1 /\ c \in 1..n
        BY <1>1, <4>1
      <4>4. cost(c) < it /\ cost(c) \in Int
        BY <2>2, <3>1, <4>1, <4>3
      <4>5. cost(c) <= cost(p)
        <5>1. p \in {2 * (c \div 2), 2 * (c \div 2) + 1} /\ p <= n - 1
          <6> HIDE DEF h
          <6> QED BY <1>1, <3>3, <4>1
        <5> QED BY <2>2, <4>1, <4>3, <5>1
      <4>6. CASE p = b
        BY <3>5, <3>6, <4>2, <4>4, <4>6
      <4>7. CASE p # b /\ p \in L
        <5>1. p = c
          <6>1. h \in Nat
            BY <3>3
          <6> HIDE DEF h
          <6> QED BY <2>3, <3>3, <4>1, <4>7, <6>1
        <5>2. below(p) \in 2..(n - 1) /\ below(p) \div 2 = p
          BY <2>5, <4>7
        <5>3. below(p) \in 2..n
          BY <1>1, <5>2
        <5>4. cost(p) <= cost(below(p))
          BY <3>2, <5>2, <5>3
        <5> QED BY <3>5, <4>2, <4>7, <5>1, <5>4
      <4>8. CASE p # b /\ p \notin L
        BY <3>5, <4>2, <4>5, <4>8
      <4> QED BY <4>6, <4>7, <4>8
    <3> HIDE DEF h
    <3>11. h \notin L \/ h = b \/ (h \in L /\ h # b)
      OBVIOUS
    <3>12. nodes[new[h]].cost <= nodes[new[p]].cost
      BY <3>8, <3>9, <3>10, <3>11
    <3> QED BY <3>12 DEF h
  <2> QED BY <2>7, <2>8, <2>9
<1> HIDE DEF n
<1>4. n = 1 \/ n > 1
  BY <1>1
<1> QED BY <1>2, <1>3, <1>4 DEF n

\* The first item of a heap is one of the smallest.
LEMMA RootIsLeast ==
  ASSUME NEW C, NEW nodes, NEW list, ListOf(list, C, nodes), IsHeap(list, nodes)
  PROVE  \A k \in 1..Len(list) : nodes[list[1]].cost <= nodes[list[k]].cost
<1> DEFINE n == Len(list)
           cost(p) == nodes[list[p]].cost
           T == {k \in 1..n : ~(cost(1) <= cost(k))}
<1>1. n \in Nat /\ \A k \in 1..n : cost(k) \in Int
  BY DEF ListOf
<1>2. \A k \in 2..n : cost(k \div 2) <= cost(k)
  BY DEF IsHeap
<1> HIDE DEF n, cost
<1> SUFFICES ASSUME T # {} PROVE FALSE
  BY DEF n, cost
<1>3. PICK k \in T : \A y \in T : k <= y
  <2>1. T \subseteq Nat
    BY <1>1
  <2> HIDE DEF T
  <2> QED BY <2>1, LeastElement
<1>4. k \in 1..n /\ k # 1
  BY <1>1, <1>3
<1>5. k \in 2..n /\ k \div 2 \in 1..n /\ k \div 2 < k /\ 1 \in 1..n
  BY <1>1, <1>4, HalfIs
<1>6. cost(1) <= cost(k \div 2)
  BY <1>3, <1>5
<1> QED BY <1>1, <1>2, <1>3, <1>5, <1>6

-----------------------------------------------------------------------------
(***************************************************************************)
(* The steps of a search.                                                  *)
(***************************************************************************)

\* Types of the state.
TypeOK ==
  /\ grid \in [Cells -> 0..127]
  /\ calc \in [Cells -> [gone : Nat, cost : Nat, parent : Cells, state : Nat]]
  /\ searches \in Nat /\ closeCount \in Nat /\ turn \in Nat \ {0}
  /\ open \in Seq(Cells) /\ path \in Seq(Cells) /\ (pc = "trace" => path # <<>>)
  /\ location \in Cells /\ start \in Cells /\ end \in Cells
  /\ lowered \in BOOLEAN
  /\ pc \in {"search", "expand", "trace", "found", "notFound", "limit"}

\* What this search has marked: with no more values of marks than it needs, that can
\* be nodes of earlier searches as well.
Marked(n) == calc[n].state \in {OpenValue, CloseValue}

\* T is a set of nodes that this search has opened, each with its parent: a node
\* of the set from which a step leads to it.
OpenedFrom(T) ==
  /\ start \in T /\ ToSet(open) \subseteq T
  /\ \A n \in T \ {start} : calc[n].parent \in T /\ CanStep(calc[n].parent, n)
  /\ pc = "expand" => location \in T
  /\ pc = "trace" => Last(path) \in T \ {start}

\* The start keeps its parent: it costs nothing to be there, so that it is never
\* reached at a lower cost.
SearchInv ==
  Running =>
    /\ Marked(start) /\ calc[start].gone = 0 /\ calc[start].parent = start
    /\ \E T \in SUBSET Cells : OpenedFrom(T)

PathInv ==
  pc \in {"trace", "found"} =>
    /\ path # <<>> /\ path[1] = end
    /\ \A k \in 1..(Len(path) - 1) : CanStep(path[k + 1], path[k])
    /\ pc = "found" => Last(path) = start

HeapInv == ~lowered => IsHeap(open, calc)

\* The values of the marks do not start again from 0.
NoWrap == 2 * searches + 2 < MarkValues

\* No node has a mark of a later search.
MarksInv == NoWrap => \A n \in Cells : calc[n].state <= CloseValue

\* The open nodes are in the heap, but for the one that is processed; what can be
\* reached from a closed node is marked.
CompleteInv ==
  NoWrap /\ searches > 0 /\ pc \in {"search", "expand", "notFound"} =>
    /\ Marked(start)
    /\ \A n \in ToSet(open) : Marked(n)
    /\ \A n \in Cells : calc[n].state = OpenValue =>
         n \in ToSet(open) \/ (pc = "expand" /\ n = location)
    /\ \A n \in Cells : calc[n].state = CloseValue =>
         n # end /\ \A b \in Cells : CanStep(n, b) => Marked(b)
    /\ pc = "expand" =>
         /\ calc[location].state = OpenValue /\ location # end
         /\ \A i \in 1..DirectionCount :
              i < turn /\ CanCross(location, i) => Marked(Beyond(location, i))
    /\ pc = "notFound" => open = <<>>

\* A direction leads one cell further in at least one of the coordinates; the first
\* four along one only.
LEMMA DirectionIs ==
  ASSUME NEW i \in 1..DirectionCount
  PROVE  /\ i \in 1..8
         /\ Directions[i][1] \in -1..1 /\ Directions[i][2] \in -1..1
         /\ Directions[i][1] # 0 \/ Directions[i][2] # 0
         /\ i <= 4 => Directions[i][1] = 0 \/ Directions[i][2] = 0
<1>1. i \in 1..8
  BY DEF DirectionCount
<1>2. \/ i = 1 \/ i = 2 \/ i = 3 \/ i = 4
      \/ i = 5 \/ i = 6 \/ i = 7 \/ i = 8
  BY <1>1
<1>3. /\ Directions[1] = <<0, -1>> /\ Directions[2] = <<1, 0>>
      /\ Directions[3] = <<0, 1>> /\ Directions[4] = <<-1, 0>>
      /\ Directions[5] = <<1, -1>> /\ Directions[6] = <<1, 1>>
      /\ Directions[7] = <<-1, 1>> /\ Directions[8] = <<-1, -1>>
  BY DEF Directions
<1> QED BY <1>1, <1>2, <1>3

\* What a step leads to.
LEMMA CrossIs ==
  ASSUME TypeOK, NEW a \in Cells, NEW i \in 1..DirectionCount, CanCross(a, i)
  PROVE  /\ Beyond(a, i) \in Cells /\ Beyond(a, i) # a
         /\ grid[Beyond(a, i)] \in Nat /\ grid[Beyond(a, i)] # 0
         /\ StepCost(a, i) \in Nat
         /\ CanStep(a, Beyond(a, i))
<1>1. Beyond(a, i) \in Cells /\ grid[Beyond(a, i)] # 0
  BY DEF CanCross
<1>2. Beyond(a, i) # a
  <2>1. a[1] \in Int /\ a[2] \in Int
    BY ConstantsAssumption DEF Cells
  <2>2. /\ Directions[i][1] \in Int /\ Directions[i][2] \in Int
        /\ Directions[i][1] # 0 \/ Directions[i][2] # 0
    BY DirectionIs
  <2>3. /\ Beyond(a, i)[1] = a[1] + Directions[i][1]
        /\ Beyond(a, i)[2] = a[2] + Directions[i][2]
    BY DEF Beyond
  <2>4. \A u, p \in Int : p # 0 => u + p # u
    OBVIOUS
  <2>5. Beyond(a, i)[1] # a[1] \/ Beyond(a, i)[2] # a[2]
    <3>1. CASE Directions[i][1] # 0
      BY <2>1, <2>2, <2>3, <2>4, <3>1
    <3>2. CASE Directions[i][2] # 0
      BY <2>1, <2>2, <2>3, <2>4, <3>2
    <3> QED BY <2>2, <3>1, <3>2
  <2> QED BY <2>5
<1>3. grid[Beyond(a, i)] \in 0..127
  BY <1>1 DEF TypeOK
<1>4. StepCost(a, i) \in Nat
  <2>1. \A x \in 0..127 : x \in Nat /\ (x * 241) \div 100 \in Nat
    OBVIOUS
  <2> QED BY <1>3, <2>1 DEF StepCost
<1>5. CanStep(a, Beyond(a, i))
  BY DEF CanStep
<1> QED BY <1>1, <1>2, <1>3, <1>4, <1>5

LEMMA ManhattanType ==
  ASSUME NEW a \in Cells, NEW b \in Cells
  PROVE  Manhattan(a, b) \in Nat
<1>1. a[1] \in Int /\ a[2] \in Int /\ b[1] \in Int /\ b[2] \in Int
  BY ConstantsAssumption DEF Cells
<1> QED BY <1>1 DEF Manhattan

\* The marks are numbers.
LEMMA MarkTypes ==
  ASSUME NEW s \in Nat
  PROVE  /\ (1 + 2 * s) % MarkValues \in Nat /\ (2 + 2 * s) % MarkValues \in Nat
         /\ 2 * s + 2 < MarkValues =>
              (1 + 2 * s) % MarkValues = 1 + 2 * s /\ (2 + 2 * s) % MarkValues = 2 + 2 * s
<1>1. MarkValues \in Nat \ {0}
  BY ConstantsAssumption
<1>2. \A x \in Nat, m \in Nat \ {0} : x % m \in Nat /\ (x < m => x % m = x)
  OBVIOUS
<1> DEFINE x == 1 + 2 * s
           y == 2 + 2 * s
<1>3. x \in Nat /\ y \in Nat /\ (2 * s + 2 < MarkValues => x < MarkValues /\ y < MarkValues)
  BY <1>1
<1> HIDE DEF x, y
<1>4. /\ x % MarkValues \in Nat /\ y % MarkValues \in Nat
      /\ 2 * s + 2 < MarkValues => x % MarkValues = x /\ y % MarkValues = y
  BY <1>1, <1>2, <1>3
<1> QED BY <1>4 DEF x, y

\* Only the mark of a node changes.
LEMMA MarkedNode ==
  ASSUME TypeOK, NEW n \in Cells, NEW v \in Nat,
         NEW new, new = [calc EXCEPT ![n].state = v]
  PROVE  /\ new \in [Cells -> [gone : Nat, cost : Nat, parent : Cells, state : Nat]]
         /\ \A m \in Cells :
              /\ new[m].gone = calc[m].gone /\ new[m].cost = calc[m].cost
              /\ new[m].parent = calc[m].parent
              /\ new[m].state = IF m = n THEN v ELSE calc[m].state
<1>1. calc \in [Cells -> [gone : Nat, cost : Nat, parent : Cells, state : Nat]]
  BY DEF TypeOK
<1> DEFINE c == calc[n]
           r == [c EXCEPT !.state = v]
<1>2. c \in [gone : Nat, cost : Nat, parent : Cells, state : Nat]
  BY <1>1
<1>3. /\ r \in [gone : Nat, cost : Nat, parent : Cells, state : Nat]
      /\ r.gone = c.gone /\ r.cost = c.cost /\ r.parent = c.parent /\ r.state = v
  <2> HIDE DEF c
  <2> QED BY <1>2
<1>4. new = [calc EXCEPT ![n] = r]
  OBVIOUS
<1> HIDE DEF r
<1>5. new \in [Cells -> [gone : Nat, cost : Nat, parent : Cells, state : Nat]]
  BY <1>1, <1>3, <1>4
<1>6. \A m \in Cells : new[m] = IF m = n THEN r ELSE calc[m]
  BY <1>1, <1>4
<1> QED BY <1>3, <1>5, <1>6

\* The heap is a list of cells with their costs.
LEMMA OpenIsList ==
  ASSUME TypeOK
  PROVE  ListOf(open, Cells, calc)
BY DEF TypeOK, ListOf

\* The heap after the first location is taken out of it.
LEMMA PopOpen ==
  ASSUME TypeOK, open # <<>>
  PROVE  /\ First \in Cells /\ First \in ToSet(open)
         /\ Pop(open, calc) \in Seq(Cells)
         /\ ToSet(Pop(open, calc)) \subseteq ToSet(open)
         /\ ToSet(open) \subseteq ToSet(Pop(open, calc)) \union {First}
         /\ IsHeap(open, calc) => IsHeap(Pop(open, calc), calc)
<1> DEFINE n == Len(open)
<1>1. open \in Seq(Cells) /\ n \in Nat \ {0}
  BY DEF TypeOK
<1>2. ToSet(open) = {open[k] : k \in 1..n}
  BY <1>1 DEF ToSet
<1>3. /\ Pop(open, calc) \in Seq(Cells)
      /\ ToSet(Pop(open, calc)) = {open[k] : k \in 2..n}
      /\ IsHeap(open, calc) => IsHeap(Pop(open, calc), calc)
  BY OpenIsList, PopIs
<1>4. \A k \in 1..n : k = 1 \/ k \in 2..n
  BY <1>1
<1>5. \A k \in 2..n : k \in 1..n
  BY <1>1
<1>6. 1 \in 1..n
  BY <1>1
<1>7. open[1] \in Cells
  BY <1>1, <1>6
<1> HIDE DEF n
<1> QED BY <1>2, <1>3, <1>4, <1>5, <1>6, <1>7 DEF First

\* What a search knows of a successor that it opens.
Entry(n) ==
  [gone   |-> GoneBeyond,
   cost   |-> GoneBeyond + Estimate * Manhattan(n, end),
   parent |-> location,
   state  |-> OpenValue]

LEMMA OpenSuccessorIs ==
  ASSUME TypeOK, OpenSuccessor, NEW n, n = Beyond(location, turn)
  PROVE  /\ pc = "expand" /\ turn \in 1..DirectionCount /\ CanCross(location, turn)
         /\ ~Known(n)
         /\ n \in Cells /\ n # location /\ CanStep(location, n)
         /\ GoneBeyond \in Nat
         /\ Entry(n) \in [gone : Nat, cost : Nat, parent : Cells, state : Nat]
         /\ calc' = [calc EXCEPT ![n] = Entry(n)]
         /\ calc' \in [Cells -> [gone : Nat, cost : Nat, parent : Cells, state : Nat]]
         /\ open' = Push(open, n, calc')
         /\ lowered' = (lowered \/ n \in ToSet(open))
<1>1. /\ pc = "expand" /\ turn \in 1..DirectionCount /\ CanCross(location, turn)
      /\ ~Known(n)
  BY DEF OpenSuccessor, Turn, TypeOK, DirectionCount
<1>2. location \in Cells
  BY DEF TypeOK
<1>3. n \in Cells /\ n # location /\ CanStep(location, n) /\ StepCost(location, turn) \in Nat
  BY <1>1, <1>2, CrossIs
<1>4. GoneBeyond \in Nat
  BY <1>2, <1>3 DEF GoneBeyond, TypeOK
<1>5. Manhattan(n, end) \in Nat
  BY <1>3, ManhattanType DEF TypeOK
<1>6. OpenValue \in Nat
  BY MarkTypes DEF OpenValue, TypeOK
<1>7. Entry(n) \in [gone : Nat, cost : Nat, parent : Cells, state : Nat]
  BY <1>2, <1>4, <1>5, <1>6 DEF Entry, Estimate
<1>8. calc' = [calc EXCEPT ![n] = Entry(n)]
  BY DEF OpenSuccessor, Entry
<1>9. calc' \in [Cells -> [gone : Nat, cost : Nat, parent : Cells, state : Nat]]
  BY <1>7, <1>8 DEF TypeOK
<1>10. open' = Push(open, n, calc') /\ lowered' = (lowered \/ n \in ToSet(open))
  BY DEF OpenSuccessor
<1> QED BY <1>1, <1>3, <1>4, <1>7, <1>8, <1>9, <1>10

\* The heap after the successor is put in it.
LEMMA PushOpen ==
  ASSUME TypeOK, OpenSuccessor, NEW n, n = Beyond(location, turn)
  PROVE  /\ open' \in Seq(Cells)
         /\ ToSet(open') = ToSet(open) \union {n}
         /\ IsHeap(open, calc') => IsHeap(open', calc')
<1>1. ListOf(open, Cells, calc')
  BY OpenSuccessorIs DEF ListOf, TypeOK
<1> QED BY <1>1, OpenSuccessorIs, PushIs

\* Grid, marks, heap and path keep their types.
LEMMA TypeCorrect == Spec => []TypeOK
<1>1. Init => TypeOK
  <2> SUFFICES ASSUME Init PROVE TypeOK
    OBVIOUS
  <2>1. <<0, 0>> \in Cells
    BY ConstantsAssumption DEF Cells
  <2>2. grid \in [Cells -> 0..127]
    BY ConstantsAssumption DEF Init
  <2>3. calc \in [Cells -> [gone : Nat, cost : Nat, parent : Cells, state : Nat]]
    BY <2>1 DEF Init
  <2>4. open \in Seq(Cells) /\ path \in Seq(Cells)
    <3>1. <<>> \in Seq(Cells)
      OBVIOUS
    <3> QED BY <3>1 DEF Init
  <2>5. location \in Cells /\ start \in Cells /\ end \in Cells
    BY <2>1 DEF Init
  <2>6. searches \in Nat /\ closeCount \in Nat /\ turn \in Nat \ {0}
    BY DEF Init
  <2>7. lowered \in BOOLEAN /\ pc = "notFound"
    BY DEF Init
  <2> QED BY <2>2, <2>3, <2>4, <2>5, <2>6, <2>7 DEF TypeOK
<1>2. TypeOK /\ [Next]_vars => TypeOK'
  <2> SUFFICES ASSUME TypeOK, [Next]_vars PROVE TypeOK'
    OBVIOUS
  <2> DEFINE CalcType == [Cells -> [gone : Nat, cost : Nat, parent : Cells, state : Nat]]
  <2>0. ASSUME NEW n \in Cells, NEW v \in Nat
        PROVE [calc EXCEPT ![n].state = v] \in CalcType
    BY MarkedNode
  <2>a. OpenValue \in Nat /\ CloseValue \in Nat
    BY MarkTypes DEF OpenValue, CloseValue, TypeOK
  <2>1. ASSUME NEW from \in Ends, NEW to \in Ends, FindPath(from, to) PROVE TypeOK'
    <3>1. from \in Cells /\ to \in Cells
      BY ConstantsAssumption
    <3>2. searches' \in Nat
      BY <2>1 DEF FindPath, TypeOK
    <3>3. OpenValue' \in Nat
      BY <3>2, MarkTypes DEF OpenValue
    <3>4. calc' \in CalcType
      <4> DEFINE e == [gone |-> 0, cost |-> Estimate, parent |-> from, state |-> OpenValue']
      <4>1. e \in [gone : Nat, cost : Nat, parent : Cells, state : Nat]
        BY <3>1, <3>3 DEF Estimate
      <4>2. calc' = [calc EXCEPT ![from] = e]
        BY <2>1 DEF FindPath
      <4> HIDE DEF e
      <4> QED BY <3>1, <4>1, <4>2 DEF TypeOK
    <3>5. <<from>> \in Seq(Cells) /\ <<>> \in Seq(Cells)
      BY <3>1
    <3> QED BY <2>1, <3>1, <3>2, <3>4, <3>5 DEF FindPath, TypeOK
  <2>2. CASE Ignore
    BY <2>2, PopOpen DEF Ignore, TypeOK, call
  <2>3. CASE Reach
    <3>1. calc' \in CalcType
      BY <2>0, <2>3, <2>a DEF Reach, TypeOK
    <3>2. path' \in Seq(Cells)
      BY <2>3 DEF Reach, TypeOK
    <3> QED BY <2>3, <3>1, <3>2, PopOpen DEF Reach, TypeOK, call
  <2>4. CASE GiveUp
    BY <2>4, PopOpen DEF GiveUp, TypeOK, call
  <2>5. CASE Expand
    BY <2>5, PopOpen DEF Expand, TypeOK, call
  <2>6. CASE SkipSuccessor
    BY <2>6 DEF SkipSuccessor, Turn, TypeOK, call
  <2>7. CASE OpenSuccessor
    <3>1. calc' \in CalcType /\ open' \in Seq(Cells) /\ lowered' \in BOOLEAN
      BY <2>7, OpenSuccessorIs, PushOpen DEF TypeOK
    <3>2. /\ UNCHANGED <<grid, searches, start, end, path, closeCount, location, pc>>
          /\ turn <= DirectionCount /\ turn' = turn + 1
      BY <2>7 DEF OpenSuccessor, Turn, call
    <3> QED BY <3>1, <3>2 DEF TypeOK
  <2>8. CASE CloseLocation
    <3>1. calc' \in CalcType
      BY <2>0, <2>8, <2>a DEF CloseLocation, TypeOK
    <3>2. closeCount' \in Nat
      BY <2>8 DEF CloseLocation, TypeOK
    <3>3. UNCHANGED <<grid, searches, open, path, location, turn, start, end, lowered>>
      BY <2>8 DEF CloseLocation, call
    <3>4. pc' = "search"
      BY <2>8 DEF CloseLocation
    <3> QED BY <3>1, <3>2, <3>3, <3>4 DEF TypeOK
  <2>9. CASE NotFound
    BY <2>9 DEF NotFound, TypeOK, call
  <2>10. CASE Trace
    <3>1. path # <<>> /\ path \in Seq(Cells)
      BY <2>10 DEF Trace, TypeOK
    <3>2. Last(path) \in Cells
      BY <3>1 DEF Last
    <3>3. calc[Last(path)].parent \in Cells
      BY <3>2 DEF TypeOK
    <3>4. path' \in Seq(Cells) /\ path' # <<>>
      BY <2>10, <3>1, <3>3 DEF Trace
    <3>5. pc' \in {"found", "trace"} /\ UNCHANGED <<call, lowered, calc, open, closeCount>>
      BY <2>10 DEF Trace
    <3>6. UNCHANGED <<location, turn>>
      BY <2>10 DEF Trace
    <3> QED BY <3>4, <3>5, <3>6 DEF TypeOK, call
  <2>11. CASE UNCHANGED vars
    BY <2>11 DEF vars, TypeOK
  <2> QED BY <2>1, <2>2, <2>3, <2>4, <2>5, <2>6, <2>7, <2>8, <2>9, <2>10, <2>11
          DEF Next, Step
<1> QED BY <1>1, <1>2, PTL DEF Spec

-----------------------------------------------------------------------------
(***************************************************************************)
(* The path that is found.                                                 *)
(***************************************************************************)

\* The grid does not change, and with it where a step leads.
LEMMA StepsStay ==
  ASSUME [Next]_vars
  PROVE  grid' = grid /\ \A a, b : CanStep(a, b)' <=> CanStep(a, b)
<1>1. grid' = grid
  BY DEF Next, Step, vars, call, FindPath, Ignore, Reach, GiveUp, Expand, SkipSuccessor,
         OpenSuccessor, Turn, CloseLocation, NotFound, Trace
<1> QED BY <1>1 DEF CanStep, CanCross

\* A step leads to another cell, that can be crossed, one further, and not past the
\* corner of one that cannot.
LEMMA StepIsWalkable ==
  ASSUME TypeOK, NEW a \in Cells, NEW b, CanStep(a, b)
  PROVE  /\ b \in Cells /\ b # a /\ grid[b] # 0
         /\ b[1] - a[1] \in -1..1 /\ b[2] - a[2] \in -1..1
         /\ AvoidDiagonalCross => grid[<<b[1], a[2]>>] # 0 \/ a = <<b[1], a[2]>>
         /\ AvoidDiagonalCross => grid[<<a[1], b[2]>>] # 0 \/ a = <<a[1], b[2]>>
<1>1. PICK i \in 1..DirectionCount : Beyond(a, i) = b /\ CanCross(a, i)
  BY DEF CanStep
<1>2. b \in Cells /\ b # a /\ grid[b] # 0
  BY <1>1, CrossIs
<1>3. a = <<a[1], a[2]>> /\ a[1] \in Int /\ a[2] \in Int
  BY ConstantsAssumption DEF Cells
<1>4. /\ i \in 1..8
      /\ Directions[i][1] \in -1..1 /\ Directions[i][2] \in -1..1
      /\ i <= 4 => Directions[i][1] = 0 \/ Directions[i][2] = 0
  BY DirectionIs
<1>5. b = <<a[1] + Directions[i][1], a[2] + Directions[i][2]>>
  BY <1>1 DEF Beyond
<1>6. b[1] - a[1] \in -1..1 /\ b[2] - a[2] \in -1..1
  BY <1>3, <1>4, <1>5
<1>7. CASE i <= 4
  <2>1. CASE Directions[i][1] = 0
    <3>1. b[1] = a[1] /\ <<a[1], b[2]>> = b /\ a = <<b[1], a[2]>>
      BY <1>3, <1>5, <2>1
    <3> QED BY <1>2, <1>6, <3>1
  <2>2. CASE Directions[i][2] = 0
    <3>1. b[2] = a[2] /\ <<b[1], a[2]>> = b /\ a = <<a[1], b[2]>>
      BY <1>3, <1>5, <2>2
    <3> QED BY <1>2, <1>6, <3>1
  <2> QED BY <1>4, <1>7, <2>1, <2>2
<1>8. CASE i > 4
  BY <1>1, <1>2, <1>6, <1>8 DEF CanCross
<1> QED BY <1>4, <1>7, <1>8

\* What the processes of a search have in common: nodes are opened and marked, but
\* keep their parents.
LEMMA SameParents ==
  ASSUME TypeOK, NEW T \in SUBSET Cells, OpenedFrom(T), [Next]_vars,
         start' = start, ToSet(open') \subseteq T,
         \A n \in Cells : calc'[n].parent = calc[n].parent,
         pc' = "expand" => location' \in T,
         pc' = "trace" => Last(path') \in T \ {start}
  PROVE  OpenedFrom(T)'
<1>1. grid' = grid
  BY StepsStay
<1>2. \A n \in T \ {start} : calc'[n].parent \in T /\ CanStep(calc'[n].parent, n)
  BY DEF OpenedFrom
<1>3. \A n \in T \ {start} : CanStep(calc[n].parent, n)'
  BY <1>1, <1>2 DEF CanStep, CanCross
<1> QED BY <1>2, <1>3 DEF OpenedFrom

SearchAndPath == SearchInv /\ PathInv

LEMMA StepSearchInv ==
  ASSUME TypeOK, SearchInv, [Next]_vars
  PROVE  SearchInv'
<1>0. ASSUME Running PROVE \E T \in SUBSET Cells : OpenedFrom(T)
  BY <1>0 DEF SearchInv
<1>1. ASSUME NEW from \in Ends, NEW to \in Ends, FindPath(from, to) PROVE SearchInv'
  <2>1. from \in Cells
    BY ConstantsAssumption
  <2>2. calc'[from] = [gone |-> 0, cost |-> Estimate, parent |-> from, state |-> OpenValue']
    BY <1>1, <2>1 DEF FindPath, TypeOK
  <2>3. start' = from /\ open' = <<from>> /\ pc' = "search"
    BY <1>1 DEF FindPath
  <2>4. OpenedFrom({from})'
    <3>1. ToSet(<<from>>) \subseteq {from}
      BY DEF ToSet
    <3> QED BY <2>3, <3>1 DEF OpenedFrom
  <2>5. Marked(start)'
    BY <2>2, <2>3 DEF Marked
  <2> QED BY <2>1, <2>2, <2>3, <2>4, <2>5 DEF SearchInv
<1>2. ASSUME Ignore \/ Expand \/ SkipSuccessor PROVE SearchInv'
  <2>1. Running /\ UNCHANGED <<calc, searches, start>>
    BY <1>2 DEF Ignore, Expand, SkipSuccessor, Turn, Running, call
  <2>2. PICK T \in SUBSET Cells : OpenedFrom(T)
    BY <1>0, <2>1
  <2>3. /\ ToSet(open') \subseteq T
        /\ pc' = "expand" => location' \in T
        /\ pc' # "trace"
    <3>1. CASE Ignore \/ Expand
      <4>1. First \in ToSet(open) /\ ToSet(open') \subseteq ToSet(open)
        BY <3>1, PopOpen DEF Ignore, Expand
      <4> QED BY <2>2, <3>1, <4>1 DEF Ignore, Expand, OpenedFrom
    <3>2. CASE SkipSuccessor
      BY <2>2, <3>2 DEF SkipSuccessor, Turn, OpenedFrom
    <3> QED BY <1>2, <3>1, <3>2
  <2>4. OpenedFrom(T)'
    BY <2>1, <2>2, <2>3, SameParents
  <2>5. Marked(start)' /\ calc'[start'].gone = 0 /\ calc'[start'].parent = start'
    BY <2>1 DEF SearchInv, Marked, OpenValue, CloseValue
  <2> QED BY <2>4, <2>5 DEF SearchInv
<1>3. ASSUME Reach \/ CloseLocation PROVE SearchInv'
  <2>1. Running /\ UNCHANGED <<searches, start, end>>
    BY <1>3 DEF Reach, CloseLocation, Running, call
  <2>2. PICK T \in SUBSET Cells : OpenedFrom(T)
    BY <1>0, <2>1
  <2>3. PICK n \in Cells : calc' = [calc EXCEPT ![n].state = CloseValue]
    BY <1>3 DEF Reach, CloseLocation, TypeOK
  <2>4. CloseValue \in Nat
    BY MarkTypes DEF CloseValue, TypeOK
  <2>5. \A m \in Cells :
          /\ calc'[m].gone = calc[m].gone /\ calc'[m].parent = calc[m].parent
          /\ calc'[m].state = IF m = n THEN CloseValue ELSE calc[m].state
    <3>1. PICK v \in Nat : v = CloseValue
      BY <2>4
    <3>2. calc' = [calc EXCEPT ![n].state = v]
      BY <2>3, <3>1
    <3> QED BY <3>1, <3>2, MarkedNode
  <2>6. start \in Cells /\ Marked(start) /\ calc[start].gone = 0 /\ calc[start].parent = start
    BY <2>1 DEF SearchInv, TypeOK
  <2>7. Marked(start)' /\ calc'[start'].gone = 0 /\ calc'[start'].parent = start'
    BY <2>1, <2>5, <2>6 DEF Marked, OpenValue, CloseValue
  <2>8. /\ ToSet(open') \subseteq T
        /\ pc' # "expand"
        /\ pc' = "trace" => Last(path') \in T \ {start}
    <3>1. CASE Reach
      <4>1. end \in T /\ ToSet(open') \subseteq T
        BY <2>2, <3>1, PopOpen DEF Reach, OpenedFrom
      <4>2. pc' = "trace" => end # start
        BY <2>6, <3>1 DEF Reach
      <4>3. path' = <<end>> /\ Last(<<end>>) = end
        BY <3>1 DEF Reach, Last
      <4>4. pc' # "expand"
        BY <3>1 DEF Reach
      <4> QED BY <4>1, <4>2, <4>3, <4>4
    <3>2. CASE CloseLocation
      BY <2>2, <3>2 DEF CloseLocation, OpenedFrom
    <3> QED BY <1>3, <3>1, <3>2
  <2>9. OpenedFrom(T)'
    BY <2>1, <2>2, <2>5, <2>8, SameParents
  <2> QED BY <2>7, <2>9 DEF SearchInv
<1>4. ASSUME OpenSuccessor PROVE SearchInv'
  <2>0. PICK n : n = Beyond(location, turn)
    OBVIOUS
  <2>1. Running /\ pc' = pc /\ pc = "expand" /\ UNCHANGED <<searches, start, location>>
    BY <1>4 DEF OpenSuccessor, Turn, Running, call
  <2>2. PICK T \in SUBSET Cells : OpenedFrom(T)
    BY <1>0, <2>1
  <2>3. /\ ~Known(n) /\ n \in Cells /\ CanStep(location, n) /\ GoneBeyond \in Nat
        /\ calc' = [calc EXCEPT ![n] = Entry(n)]
        /\ ToSet(open') = ToSet(open) \union {n}
    BY <1>4, <2>0, OpenSuccessorIs, PushOpen
  <2>4. n # start
    <3>1. Marked(start) /\ calc[start].gone = 0
      BY <2>1 DEF SearchInv
    <3> QED BY <2>3, <3>1 DEF Known, Marked
  <2>5. /\ \A m \in Cells \ {n} : calc'[m] = calc[m]
        /\ calc'[n].parent = location
    BY <2>3 DEF TypeOK, Entry
  <2> DEFINE U == T \union {n}
  <2>6. \A m \in U \ {start} : calc'[m].parent \in U /\ CanStep(calc'[m].parent, m)
    BY <2>1, <2>2, <2>3, <2>4, <2>5 DEF OpenedFrom
  <2>7. \A m \in U \ {start} : CanStep(calc[m].parent, m)'
    <3>1. grid' = grid
      BY StepsStay
    <3> HIDE DEF U
    <3> QED BY <2>6, <3>1 DEF CanStep, CanCross
  <2>8. start \in U /\ ToSet(open') \subseteq U /\ location \in U
    BY <2>1, <2>2, <2>3 DEF OpenedFrom
  <2> HIDE DEF U
  <2>9. OpenedFrom(U)'
    BY <2>1, <2>6, <2>7, <2>8 DEF OpenedFrom
  <2>10. U \in SUBSET Cells
    BY <2>3 DEF U
  <2>11. calc'[start'] = calc[start] /\ start' = start
    BY <2>1, <2>4, <2>5 DEF TypeOK
  <2>12. Marked(start)' /\ calc'[start'].gone = 0 /\ calc'[start'].parent = start'
    BY <2>1, <2>11 DEF SearchInv, Marked, OpenValue, CloseValue
  <2> QED BY <2>9, <2>10, <2>12 DEF SearchInv
<1>5. ASSUME Trace PROVE SearchInv'
  <2>1. Running /\ UNCHANGED <<calc, searches, start, open>>
    BY <1>5 DEF Trace, Running, call
  <2>2. PICK T \in SUBSET Cells : OpenedFrom(T)
    BY <1>0, <2>1
  <2> DEFINE node == calc[Last(path)].parent
  <2>3. node \in T
    BY <1>5, <2>2 DEF Trace, OpenedFrom
  <2>4. path' = Append(path, node) /\ (pc' = "trace" => calc[node].parent # node) /\ pc' # "expand"
    BY <1>5 DEF Trace
  <2>5. Last(path') = node
    <3> HIDE DEF node
    <3>1. path \in Seq(Cells) /\ node \in Cells
      BY <2>3 DEF TypeOK
    <3> QED BY <2>4, <3>1 DEF Last
  <2>6. calc[start].parent = start
    BY <2>1 DEF SearchInv
  <2> HIDE DEF node
  <2>7. pc' = "trace" => Last(path') \in T \ {start}
    BY <2>3, <2>4, <2>5, <2>6
  <2>8. OpenedFrom(T)'
    BY <2>1, <2>2, <2>4, <2>7, SameParents DEF OpenedFrom
  <2>9. Marked(start)' /\ calc'[start'].gone = 0 /\ calc'[start'].parent = start'
    BY <2>1 DEF SearchInv, Marked, OpenValue, CloseValue
  <2> QED BY <2>8, <2>9 DEF SearchInv
<1>6. ASSUME GiveUp \/ NotFound PROVE SearchInv'
  BY <1>6 DEF GiveUp, NotFound, SearchInv, Running
<1>7. ASSUME UNCHANGED vars PROVE SearchInv'
  <2>1. \A T : OpenedFrom(T)' <=> OpenedFrom(T)
    BY <1>7 DEF vars, OpenedFrom, CanStep, CanCross
  <2>2. UNCHANGED <<calc, searches, start, pc>>
    BY <1>7 DEF vars
  <2> QED BY <2>1, <2>2 DEF SearchInv, Running, Marked, OpenValue, CloseValue
<1> QED BY <1>1, <1>2, <1>3, <1>4, <1>5, <1>6, <1>7 DEF Next, Step

LEMMA StepPathInv ==
  ASSUME TypeOK, SearchInv, PathInv, [Next]_vars
  PROVE  PathInv'
<1>0. \A a, b : CanStep(a, b)' <=> CanStep(a, b)
  BY StepsStay
<1>1. ASSUME Reach PROVE PathInv'
  <2>1. path' = <<end>> /\ end' = end /\ start' = start
    BY <1>1 DEF Reach, call
  <2>2. PICK T \in SUBSET Cells : OpenedFrom(T)
    BY <1>1 DEF SearchInv, Running, Reach
  <2>3. end \in T
    BY <1>1, <2>2, PopOpen DEF Reach, OpenedFrom
  <2>4. calc[end].parent = end => end = start
    <3>1. CanStep(end, end) => FALSE
      BY <2>3, StepIsWalkable
    <3> QED BY <2>2, <2>3, <3>1 DEF OpenedFrom
  <2>5. pc' = "found" => end = start
    BY <1>1, <2>4 DEF Reach
  <2>6. Len(<<end>>) = 1 /\ <<end>> # <<>> /\ <<end>>[1] = end /\ Last(<<end>>) = end
    BY DEF Last
  <2> QED BY <2>1, <2>5, <2>6 DEF PathInv
<1>2. ASSUME Trace PROVE PathInv'
  <2> DEFINE node == calc[Last(path)].parent
             n == Len(path)
  <2>1. /\ path' = Append(path, node) /\ end' = end /\ start' = start
        /\ pc' = "found" => calc[node].parent = node
    BY <1>2 DEF Trace, call
  <2>2. PICK T \in SUBSET Cells : OpenedFrom(T)
    BY <1>2 DEF SearchInv, Running, Trace
  <2>3. Last(path) \in T \ {start} /\ node \in T /\ CanStep(node, Last(path))
    BY <1>2, <2>2 DEF OpenedFrom, Trace
  <2>4. calc[node].parent = node => node = start
    <3>1. CanStep(node, node) => FALSE
      BY <2>3, StepIsWalkable
    <3> QED BY <2>2, <2>3, <3>1 DEF OpenedFrom
  <2> HIDE DEF node
  <2>5. path \in Seq(Cells) /\ node \in Cells /\ n \in Nat \ {0}
    BY <1>2, <2>3 DEF TypeOK, Trace
  <2>6. /\ Len(path') = n + 1 /\ path' # <<>>
        /\ \A k \in 1..n : path'[k] = path[k]
        /\ path'[n + 1] = node
    BY <2>1, <2>5
  <2>7. path[n] = Last(path) /\ Last(path') = node
    BY <2>6 DEF Last
  <2>8. path[1] = end /\ \A k \in 1..(n - 1) : CanStep(path[k + 1], path[k])
    BY <1>2 DEF PathInv, Trace
  <2>9. \A k \in 1..n : CanStep(path'[k + 1], path'[k])
    <3> SUFFICES ASSUME NEW k \in 1..n PROVE CanStep(path'[k + 1], path'[k])
      OBVIOUS
    <3>1. CASE k = n
      BY <2>3, <2>6, <2>7, <3>1
    <3>2. CASE k # n
      <4>1. k \in 1..(n - 1) /\ k + 1 \in 1..n
        BY <2>5, <3>2
      <4> QED BY <2>6, <2>8, <4>1
    <3> QED BY <3>1, <3>2
  <2>10. path'[1] = end
    BY <2>5, <2>6, <2>8
  <2>11. (\A k \in 1..(Len(path) - 1) : CanStep(path[k + 1], path[k]))'
    <3>1. grid' = grid
      BY StepsStay
    <3>2. Len(path') - 1 = n
      BY <2>5, <2>6
    <3> QED BY <2>9, <3>1, <3>2 DEF CanStep, CanCross
  <2> QED BY <2>1, <2>4, <2>6, <2>7, <2>10, <2>11 DEF PathInv
<1>3. ASSUME UNCHANGED vars PROVE PathInv'
  BY <1>0, <1>3 DEF vars, PathInv
<1>4. ASSUME Next, ~Reach, ~Trace PROVE pc' \notin {"trace", "found"}
  BY <1>4 DEF Next, Step, FindPath, Ignore, GiveUp, Expand, SkipSuccessor, OpenSuccessor,
              Turn, CloseLocation, NotFound
<1> QED BY <1>1, <1>2, <1>3, <1>4 DEF PathInv

\* A path that is found leads from the end back to the start through cells that can
\* be crossed, one step apart, never past the corner of one that cannot, on any grid
\* and after any searches, the marks of which may start again from 0.
THEOREM FoundPathIsWalkable == Spec => []PathIsWalkable
<1>1. Init => SearchAndPath
  BY DEF Init, SearchAndPath, SearchInv, PathInv, Running
<1>2. TypeOK /\ SearchAndPath /\ [Next]_vars => SearchAndPath'
  BY StepSearchInv, StepPathInv DEF SearchAndPath
<1>3. TypeOK /\ SearchAndPath => PathIsWalkable
  <2> SUFFICES ASSUME TypeOK, PathInv, pc = "found"
      PROVE /\ path[1] = end /\ Last(path) = start
            /\ \A k \in 1..(Len(path) - 1) :
                 LET a == path[k + 1]
                     b == path[k]
                     free(c) == grid[c] # 0
                 IN  /\ b # a /\ free(b)
                     /\ b[1] - a[1] \in -1..1 /\ b[2] - a[2] \in -1..1
                     /\ AvoidDiagonalCross => free(<<b[1], a[2]>>) \/ a = <<b[1], a[2]>>
                     /\ AvoidDiagonalCross => free(<<a[1], b[2]>>) \/ a = <<a[1], b[2]>>
    BY DEF SearchAndPath, PathIsWalkable
  <2>1. path[1] = end /\ Last(path) = start
    BY DEF PathInv
  <2>2. ASSUME NEW k \in 1..(Len(path) - 1)
        PROVE path[k + 1] \in Cells /\ CanStep(path[k + 1], path[k])
    <3>1. path \in Seq(Cells) /\ k + 1 \in 1..Len(path)
      BY DEF TypeOK
    <3> QED BY <3>1 DEF PathInv
  <2> QED BY <2>1, <2>2, StepIsWalkable
<1> QED BY <1>1, <1>2, <1>3, TypeCorrect, PTL DEF Spec

-----------------------------------------------------------------------------
(***************************************************************************)
(* The order of the heap during a search.                                  *)
(***************************************************************************)

\* Only the costs of the items matter to the order.
LEMMA HeapOfSameCosts ==
  ASSUME NEW C, NEW list \in Seq(C), NEW nodes, NEW others, IsHeap(list, nodes),
         \A k \in 1..Len(list) : others[list[k]].cost = nodes[list[k]].cost
  PROVE  IsHeap(list, others)
<1> SUFFICES ASSUME NEW k \in 2..Len(list)
    PROVE others[list[k \div 2]].cost <= others[list[k]].cost
  BY DEF IsHeap
<1>1. k \in 1..Len(list) /\ k \div 2 \in 1..Len(list)
  BY HalfIs
<1>2. nodes[list[k \div 2]].cost <= nodes[list[k]].cost
  BY DEF IsHeap
<1> QED BY <1>1, <1>2

LEMMA StepHeapInv ==
  ASSUME TypeOK, HeapInv, [Next]_vars
  PROVE  HeapInv'
<1>1. ASSUME NEW from \in Ends, NEW to \in Ends, FindPath(from, to) PROVE HeapInv'
  <2>1. IsHeap(<<from>>, calc')
    BY DEF IsHeap
  <2> QED BY <1>1, <2>1 DEF FindPath, HeapInv
<1>2. ASSUME Ignore \/ GiveUp \/ Expand PROVE HeapInv'
  <2>1. open # <<>> /\ open' = Pop(open, calc) /\ calc' = calc /\ lowered' = lowered
    BY <1>2 DEF Ignore, GiveUp, Expand
  <2> QED BY <2>1, PopOpen DEF HeapInv
<1>3. ASSUME Reach PROVE HeapInv'
  <2>1. /\ open # <<>> /\ open' = Pop(open, calc) /\ lowered' = lowered
        /\ calc' = [calc EXCEPT ![end].state = CloseValue] /\ end \in Cells
    BY <1>3 DEF Reach, TypeOK
  <2>2. PICK v \in Nat : v = CloseValue
    BY MarkTypes DEF CloseValue, TypeOK
  <2>3. \A m \in Cells : calc'[m].cost = calc[m].cost
    BY <2>1, <2>2, MarkedNode
  <2>4. open' \in Seq(Cells)
    BY <2>1, PopOpen
  <2>5. \A k \in 1..Len(open') : calc'[open'[k]].cost = calc[open'[k]].cost
    BY <2>3, <2>4
  <2>6. ~lowered => IsHeap(open', calc)
    BY <2>1, PopOpen DEF HeapInv
  <2>7. ~lowered => IsHeap(open', calc')
    BY <2>4, <2>5, <2>6, HeapOfSameCosts
  <2> QED BY <2>1, <2>7 DEF HeapInv
<1>4. ASSUME OpenSuccessor PROVE HeapInv'
  <2> SUFFICES ASSUME ~lowered' PROVE IsHeap(open', calc')
    BY DEF HeapInv
  <2>1. PICK n : n = Beyond(location, turn)
    OBVIOUS
  <2>2. /\ n \in Cells /\ calc' = [calc EXCEPT ![n] = Entry(n)]
        /\ ~lowered /\ n \notin ToSet(open)
    BY <1>4, <2>1, OpenSuccessorIs
  <2>3. open \in Seq(Cells)
    BY DEF TypeOK
  <2>4. \A k \in 1..Len(open) : calc'[open[k]].cost = calc[open[k]].cost
    <3> SUFFICES ASSUME NEW k \in 1..Len(open) PROVE calc'[open[k]] = calc[open[k]]
      OBVIOUS
    <3>1. open[k] \in Cells /\ open[k] # n
      BY <2>2, <2>3 DEF ToSet
    <3> QED BY <2>2, <3>1 DEF TypeOK
  <2>5. IsHeap(open, calc')
    BY <2>2, <2>3, <2>4, HeapOfSameCosts DEF HeapInv
  <2> QED BY <1>4, <2>1, <2>5, PushOpen
<1>5. ASSUME CloseLocation PROVE HeapInv'
  <2>1. /\ calc' = [calc EXCEPT ![location].state = CloseValue] /\ location \in Cells
        /\ open' = open /\ lowered' = lowered
    BY <1>5 DEF CloseLocation, TypeOK
  <2>2. PICK v \in Nat : v = CloseValue
    BY MarkTypes DEF CloseValue, TypeOK
  <2>3. \A m \in Cells : calc'[m].cost = calc[m].cost
    BY <2>1, <2>2, MarkedNode
  <2>4. open \in Seq(Cells)
    BY DEF TypeOK
  <2>5. \A k \in 1..Len(open) : calc'[open[k]].cost = calc[open[k]].cost
    BY <2>3, <2>4
  <2>6. ~lowered => IsHeap(open, calc')
    BY <2>4, <2>5, HeapOfSameCosts DEF HeapInv
  <2> QED BY <2>1, <2>6 DEF HeapInv
<1>6. ASSUME SkipSuccessor \/ NotFound \/ Trace \/ UNCHANGED vars PROVE HeapInv'
  <2>1. open' = open /\ calc' = calc /\ lowered' = lowered
    BY <1>6 DEF SkipSuccessor, NotFound, Trace, vars
  <2> QED BY <2>1 DEF HeapInv
<1> QED BY <1>1, <1>2, <1>3, <1>4, <1>5, <1>6 DEF Next, Step

\* As long as no location in the heap was reached again at a lower cost, pop()
\* returns one of those with the smallest cost, whatever was pushed and popped.
THEOREM HeapGivesTheSmallest == Spec => []GivesTheSmallest
<1>1. Init => HeapInv
  BY DEF Init, HeapInv, IsHeap
<1>2. TypeOK /\ HeapInv /\ [Next]_vars => HeapInv'
  BY StepHeapInv
<1>3. TypeOK /\ HeapInv => GivesTheSmallest
  <2> SUFFICES ASSUME TypeOK, IsHeap(open, calc)
      PROVE \A k \in DOMAIN open : calc[First].cost <= calc[open[k]].cost
    BY DEF GivesTheSmallest, HeapInv
  <2>1. \A k \in 1..Len(open) : calc[open[1]].cost <= calc[open[k]].cost
    BY OpenIsList, RootIsLeast
  <2>2. DOMAIN open = 1..Len(open)
    BY DEF TypeOK
  <2> QED BY <2>1, <2>2 DEF First
<1> QED BY <1>1, <1>2, <1>3, TypeCorrect, PTL DEF Spec

-----------------------------------------------------------------------------
(***************************************************************************)
(* A search that ends with an empty heap.                                  *)
(***************************************************************************)

Completeness == MarksInv /\ CompleteInv

\* The values of the marks of a search that do not start again from 0.
LEMMA MarkValuesAre ==
  ASSUME TypeOK, NoWrap
  PROVE  /\ OpenValue = 1 + 2 * searches /\ CloseValue = 2 + 2 * searches
         /\ OpenValue \in Nat /\ CloseValue \in Nat /\ OpenValue < CloseValue
<1>1. searches \in Nat
  BY DEF TypeOK
<1>2. OpenValue = 1 + 2 * searches /\ CloseValue = 2 + 2 * searches
  BY <1>1, MarkTypes DEF NoWrap, OpenValue, CloseValue
<1> QED BY <1>1, <1>2

LEMMA FindPathComplete ==
  ASSUME TypeOK, MarksInv, NEW from \in Ends, NEW to \in Ends, FindPath(from, to)
  PROVE  Completeness'
<1> SUFFICES ASSUME NoWrap' PROVE Completeness'
  BY DEF Completeness, MarksInv, CompleteInv
<1>1. from \in Cells /\ searches \in Nat /\ MarkValues \in Nat \ {0}
  BY ConstantsAssumption DEF TypeOK
<1>2. searches' = searches + 1
  BY DEF FindPath
<1>3. NoWrap
  BY <1>1, <1>2 DEF NoWrap
<1>4. OpenValue' = 3 + 2 * searches /\ CloseValue' = 4 + 2 * searches
  <2> DEFINE s == searches + 1
  <2>1. s \in Nat /\ 2 * s + 2 < MarkValues /\ s = searches'
    BY <1>1, <1>2 DEF NoWrap
  <2>2. 1 + 2 * s = 3 + 2 * searches /\ 2 + 2 * s = 4 + 2 * searches
    BY <1>1
  <2> HIDE DEF s
  <2>3. (1 + 2 * s) % MarkValues = 1 + 2 * s /\ (2 + 2 * s) % MarkValues = 2 + 2 * s
    BY <2>1, MarkTypes
  <2>4. OpenValue' = 1 + 2 * s /\ CloseValue' = 2 + 2 * s
    BY <2>1, <2>3 DEF OpenValue, CloseValue
  <2> QED BY <2>2, <2>4
<1>5. \A n \in Cells : calc[n].state \in Nat /\ calc[n].state <= 2 + 2 * searches
  BY <1>3, MarkValuesAre DEF MarksInv, TypeOK
<1>6. \A n \in Cells : calc'[n].state = IF n = from THEN OpenValue' ELSE calc[n].state
  BY <1>1 DEF FindPath, TypeOK
<1>7. start' = from /\ open' = <<from>> /\ pc' = "search"
  BY DEF FindPath
<1>8. ToSet(<<from>>) = {from}
  BY DEF ToSet
<1>9. MarksInv'
  BY <1>1, <1>4, <1>5, <1>6 DEF MarksInv
<1>10. \A n \in Cells : calc'[n].state # CloseValue' /\ (calc'[n].state = OpenValue' => n = from)
  BY <1>1, <1>4, <1>5, <1>6
<1>11. calc'[from].state = OpenValue'
  BY <1>1, <1>6
<1>12. CompleteInv'
  BY <1>1, <1>7, <1>8, <1>10, <1>11 DEF CompleteInv, Marked
<1> QED BY <1>9, <1>12 DEF Completeness

\* What holds of the marks while locations are processed.
Searching ==
  /\ Marked(start)
  /\ \A n \in ToSet(open) : Marked(n)
  /\ \A n \in Cells : calc[n].state = OpenValue =>
       n \in ToSet(open) \/ (pc = "expand" /\ n = location)
  /\ \A n \in Cells : calc[n].state = CloseValue =>
       n # end /\ \A b \in Cells : CanStep(n, b) => Marked(b)
  /\ pc = "expand" =>
       /\ calc[location].state = OpenValue /\ location # end
       /\ \A i \in 1..DirectionCount :
            i < turn /\ CanCross(location, i) => Marked(Beyond(location, i))
  /\ pc = "notFound" => open = <<>>

LEMMA StepComplete ==
  ASSUME TypeOK, Completeness, Step
  PROVE  Completeness'
<1>1. searches' = searches /\ start' = start /\ end' = end /\ grid' = grid
  BY DEF Step, call, Ignore, Reach, GiveUp, Expand, SkipSuccessor,
         OpenSuccessor, Turn, CloseLocation, NotFound, Trace
<1> SUFFICES ASSUME NoWrap PROVE Completeness'
  BY <1>1 DEF Completeness, MarksInv, CompleteInv, NoWrap
<1>2. OpenValue' = OpenValue /\ CloseValue' = CloseValue
  BY <1>1 DEF OpenValue, CloseValue
<1>3. OpenValue \in Nat /\ CloseValue \in Nat /\ OpenValue < CloseValue
  BY MarkValuesAre
<1>4. \A n \in Cells : calc[n].state \in Nat /\ calc[n].state <= CloseValue
  BY DEF Completeness, MarksInv, TypeOK
<1>5. searches > 0 /\ pc \in {"search", "expand", "notFound"} => Searching
  BY DEF Completeness, CompleteInv, Searching
<1>6. ASSUME searches > 0 /\ pc' \in {"search", "expand", "notFound"} => Searching'
      PROVE  CompleteInv'
  BY <1>1, <1>6 DEF CompleteInv, Searching
<1>7. /\ \A a, b : CanStep(a, b)' <=> CanStep(a, b)
      /\ \A a, i : CanCross(a, i)' <=> CanCross(a, i)
  BY <1>1 DEF CanStep, CanCross
<1>8. ASSUME calc' = calc PROVE MarksInv' /\ \A n : Marked(n)' <=> Marked(n)
  BY <1>2, <1>4, <1>8 DEF MarksInv, Marked
<1> DEFINE Result == MarksInv' /\ (searches > 0 /\ pc' \in {"search", "expand", "notFound"} => Searching')
<1>11. ASSUME Ignore PROVE Result
  <2>1. /\ pc = "search" /\ pc' = "search" /\ open # <<>> /\ open' = Pop(open, calc)
        /\ calc' = calc /\ calc[First].state = CloseValue
    BY <1>11 DEF Ignore
  <2> SUFFICES ASSUME Searching PROVE Searching'
    BY <1>5, <1>8, <2>1
  <2>2. /\ ToSet(open') \subseteq ToSet(open)
        /\ \A n \in Cells : n \in ToSet(open) /\ calc[n].state = OpenValue => n \in ToSet(open')
    BY <1>3, <2>1, PopOpen
  <2> QED BY <1>1, <1>2, <1>7, <1>8, <2>1, <2>2 DEF Searching
<1>12. ASSUME Reach PROVE Result
  <2>1. calc' = [calc EXCEPT ![end].state = CloseValue] /\ end \in Cells
    BY <1>12 DEF Reach, TypeOK
  <2>2. PICK v \in Nat : v = CloseValue
    BY <1>3
  <2>3. \A m \in Cells : calc'[m].state = IF m = end THEN v ELSE calc[m].state
    BY <2>1, <2>2, MarkedNode
  <2>4. MarksInv'
    BY <1>2, <1>4, <2>2, <2>3 DEF MarksInv
  <2> QED BY <1>12, <2>4 DEF Reach
<1>13. ASSUME GiveUp \/ Trace PROVE Result
  BY <1>8, <1>13 DEF GiveUp, Trace
<1>14. ASSUME Expand PROVE Result
  <2>1. /\ pc = "search" /\ pc' = "expand" /\ open # <<>> /\ open' = Pop(open, calc)
        /\ calc' = calc /\ calc[First].state # CloseValue /\ First # end
        /\ location' = First /\ turn' = 1
    BY <1>14 DEF Expand
  <2> SUFFICES ASSUME Searching PROVE Searching'
    BY <1>5, <1>8, <2>1
  <2>2. /\ First \in Cells /\ First \in ToSet(open)
        /\ ToSet(open') \subseteq ToSet(open)
        /\ ToSet(open) \subseteq ToSet(open') \union {First}
    BY <2>1, PopOpen
  <2>3. calc[First].state = OpenValue
    BY <2>1, <2>2 DEF Searching, Marked
  <2>4. Marked(start)' /\ \A n \in ToSet(open') : Marked(n)'
    BY <1>1, <1>8, <2>1, <2>2 DEF Searching
  <2>5. \A n \in Cells : calc[n].state = OpenValue => n \in ToSet(open') \/ n = First
    BY <2>1, <2>2 DEF Searching
  <2>6. \A n \in Cells : calc[n].state = CloseValue =>
          n # end /\ \A b \in Cells : CanStep(n, b)' => Marked(b)'
    BY <1>7, <1>8, <2>1 DEF Searching
  <2>7. \A i \in 1..DirectionCount : ~(i < 1)
    OBVIOUS
  <2> QED BY <1>1, <1>2, <2>1, <2>3, <2>4, <2>5, <2>6, <2>7 DEF Searching
<1>15. ASSUME SkipSuccessor PROVE Result
  <2>1. /\ pc = "expand" /\ pc' = "expand" /\ open' = open /\ calc' = calc
        /\ location' = location /\ turn' = turn + 1 /\ turn \in Nat
        /\ CanCross(location, turn) => Known(Beyond(location, turn))
    BY <1>15 DEF SkipSuccessor, Turn, TypeOK
  <2> SUFFICES ASSUME Searching PROVE Searching'
    BY <1>5, <1>8, <2>1
  <2>2. \A i \in 1..DirectionCount :
          i < turn + 1 /\ CanCross(location, i) => Marked(Beyond(location, i))
    <3> SUFFICES ASSUME NEW i \in 1..DirectionCount, i < turn + 1, CanCross(location, i)
        PROVE Marked(Beyond(location, i))
      OBVIOUS
    <3>1. CASE i = turn
      BY <2>1, <3>1 DEF Known, Marked
    <3>2. CASE i # turn
      <4>1. i < turn
        BY <2>1, <3>2
      <4> QED BY <2>1, <4>1 DEF Searching
    <3> QED BY <3>1, <3>2
  <2>3. \A i \in 1..DirectionCount :
          (i < turn)' /\ CanCross(location, i)' => Marked(Beyond(location, i))'
    BY <1>1, <1>2, <2>1, <2>2 DEF CanCross, Marked
  <2>4. Marked(start)' /\ \A n \in ToSet(open') : Marked(n)'
    BY <1>1, <1>8, <2>1 DEF Searching
  <2>5. \A n \in Cells : calc[n].state = CloseValue =>
          n # end /\ \A b \in Cells : CanStep(n, b)' => Marked(b)'
    BY <1>7, <1>8, <2>1 DEF Searching
  <2> QED BY <1>1, <1>2, <2>1, <2>3, <2>4, <2>5 DEF Searching
<1>16. ASSUME OpenSuccessor PROVE Result
  <2>1. PICK n : n = Beyond(location, turn)
    OBVIOUS
  <2>2. /\ pc = "expand" /\ turn \in 1..DirectionCount
        /\ n \in Cells /\ n # location
        /\ calc' = [calc EXCEPT ![n] = Entry(n)]
    BY <1>16, <2>1, OpenSuccessorIs
  <2>3. pc' = "expand" /\ location' = location /\ turn' = turn + 1
    BY <1>16, <2>2 DEF OpenSuccessor, Turn
  <2>4. ToSet(open') = ToSet(open) \union {n}
    BY <1>16, <2>1, PushOpen
  <2>5. \A m \in Cells : calc'[m].state = IF m = n THEN OpenValue ELSE calc[m].state
    BY <2>2 DEF TypeOK, Entry
  <2>6. MarksInv'
    BY <1>2, <1>3, <1>4, <2>5 DEF MarksInv
  <2> SUFFICES ASSUME Searching PROVE Searching'
    BY <1>5, <2>2, <2>6
  <2>7. \A m \in Cells : Marked(m) \/ m = n => Marked(m)'
    BY <1>2, <2>5 DEF Marked
  <2>8. open \in Seq(Cells) /\ start \in Cells /\ location \in Cells /\ turn \in Nat
    BY DEF TypeOK
  <2>9. Marked(start)' /\ \A m \in ToSet(open') : Marked(m)'
    <3>1. ToSet(open) \subseteq Cells
      BY <2>8 DEF ToSet
    <3>2. Marked(start) /\ \A m \in ToSet(open) : Marked(m)
      BY DEF Searching
    <3> QED BY <1>1, <1>2, <2>2, <2>4, <2>5, <2>8, <3>1, <3>2 DEF Marked
  <2>10. \A m \in Cells : calc'[m].state = OpenValue => m \in ToSet(open') \/ m = location
    BY <2>4, <2>5 DEF Searching
  <2>11. \A m \in Cells : calc'[m].state = CloseValue =>
           m # end /\ \A b \in Cells : CanStep(m, b)' => Marked(b)'
    <3>1. \A m \in Cells : calc'[m].state = CloseValue => calc[m].state = CloseValue
      BY <1>3, <2>5
    <3> QED BY <1>7, <2>7, <3>1 DEF Searching
  <2>12. calc'[location].state = OpenValue /\ location # end
    BY <2>2, <2>5, <2>8 DEF Searching
  <2>13. \A i \in 1..DirectionCount :
           (i < turn)' /\ CanCross(location, i)' => Marked(Beyond(location, i))'
    <3> SUFFICES ASSUME NEW i \in 1..DirectionCount, i < turn + 1, CanCross(location, i)
        PROVE Marked(Beyond(location, i))'
      BY <1>1, <2>3 DEF CanCross
    <3>1. Beyond(location, i) \in Cells
      BY DEF CanCross
    <3>2. Marked(Beyond(location, i)) \/ Beyond(location, i) = n
      <4>1. CASE i = turn
        BY <2>1, <4>1
      <4>2. CASE i # turn
        <5>1. i < turn
          BY <2>8, <4>2
        <5> QED BY <2>2, <5>1 DEF Searching
      <4> QED BY <4>1, <4>2
    <3>3. PICK m \in Cells : m = Beyond(location, i)
      BY <3>1
    <3>4. Marked(m)'
      BY <2>7, <3>2, <3>3
    <3>5. Beyond(location, i)' = m
      BY <2>3, <3>3
    <3> QED BY <3>4, <3>5 DEF Marked
  <2> QED BY <1>1, <1>2, <2>3, <2>9, <2>10, <2>11, <2>12, <2>13 DEF Searching
<1>17. ASSUME CloseLocation PROVE Result
  <2>1. /\ pc = "expand" /\ pc' = "search" /\ turn > DirectionCount
        /\ calc' = [calc EXCEPT ![location].state = CloseValue] /\ location \in Cells
        /\ open' = open /\ turn \in Nat
    BY <1>17 DEF CloseLocation, TypeOK
  <2>2. PICK v \in Nat : v = CloseValue
    BY <1>3
  <2>3. \A m \in Cells : calc'[m].state = IF m = location THEN CloseValue ELSE calc[m].state
    <3>1. calc' = [calc EXCEPT ![location].state = v] /\ location \in Cells
      BY <2>1, <2>2
    <3>2. PICK new : new = calc'
      OBVIOUS
    <3>3. \A m \in Cells : new[m].state = IF m = location THEN v ELSE calc[m].state
      BY <3>1, <3>2, MarkedNode
    <3> QED BY <2>2, <3>2, <3>3
  <2>4. MarksInv'
    BY <1>2, <1>3, <1>4, <2>3 DEF MarksInv
  <2> SUFFICES ASSUME Searching PROVE Searching'
    BY <1>5, <2>1, <2>4
  <2>5. \A m \in Cells : Marked(m) => Marked(m)'
    BY <1>2, <2>3 DEF Marked
  <2>6. open \in Seq(Cells) /\ start \in Cells
    BY DEF TypeOK
  <2>7. Marked(start)' /\ \A m \in ToSet(open') : Marked(m)'
    <3>1. ToSet(open) \subseteq Cells
      BY <2>6 DEF ToSet
    <3> QED BY <1>1, <1>2, <2>1, <2>3, <2>6, <3>1 DEF Searching, Marked
  <2>8. \A m \in Cells : calc'[m].state = OpenValue => m \in ToSet(open')
    BY <1>3, <2>1, <2>3 DEF Searching
  <2>9. \A m \in Cells : calc'[m].state = CloseValue =>
          m # end /\ \A b \in Cells : CanStep(m, b)' => Marked(b)'
    <3> SUFFICES ASSUME NEW m \in Cells, calc'[m].state = CloseValue
        PROVE m # end /\ \A b \in Cells : CanStep(m, b) => Marked(b)
      BY <1>7, <2>5
    <3>1. CASE m = location
      <4>1. \A i \in 1..DirectionCount : CanCross(location, i) => Marked(Beyond(location, i))
        <5>1. \A i \in 1..DirectionCount : i < turn
          BY <2>1 DEF DirectionCount
        <5> QED BY <2>1, <5>1 DEF Searching
      <4> QED BY <2>1, <3>1, <4>1 DEF Searching, CanStep
    <3>2. CASE m # location
      BY <2>3, <3>2 DEF Searching
    <3> QED BY <3>1, <3>2
  <2> QED BY <1>1, <1>2, <2>1, <2>7, <2>8, <2>9 DEF Searching
<1>18. ASSUME NotFound PROVE Result
  <2>1. /\ pc = "search" /\ pc' = "notFound" /\ open = <<>> /\ open' = open /\ calc' = calc
    BY <1>18 DEF NotFound
  <2> SUFFICES ASSUME Searching PROVE Searching'
    BY <1>5, <1>8, <2>1
  <2> QED BY <1>1, <1>2, <1>7, <1>8, <2>1 DEF Searching
<1>19. Result
  BY <1>11, <1>12, <1>13, <1>14, <1>15, <1>16, <1>17, <1>18 DEF Step
<1> QED BY <1>6, <1>19 DEF Completeness

\* The cells that can be reached from c are in every set with c that no step leaves.
LEMMA ReachableLeast ==
  ASSUME NEW c \in Cells, NEW M \in SUBSET Cells, c \in M,
         \A a \in M, b \in Cells : CanStep(a, b) => b \in M
  PROVE  ReachableFrom(c) \subseteq M
<1> DEFINE kept(S) == c \in S /\ \A a \in S, b \in Cells : CanStep(a, b) => b \in S
           least(S) == kept(S) /\ \A T \in SUBSET S : kept(T) => T = S
           K == {n \in Cells : \A S \in SUBSET Cells : kept(S) => n \in S}
           R == ReachableFrom(c)
<1>1. kept(M)
  OBVIOUS
<1>2. \A S, T \in SUBSET Cells : kept(S) /\ kept(T) => kept(S \cap T)
  OBVIOUS
<1>3. K \in SUBSET Cells /\ least(K)
  OBVIOUS
<1>4. R = CHOOSE S \in SUBSET Cells : least(S)
  BY DEF ReachableFrom
<1>5. R \in SUBSET Cells /\ least(R)
  <2> HIDE DEF R, K, least
  <2> QED BY <1>3, <1>4
<1> HIDE DEF R
<1>6. R \cap M \in SUBSET R /\ kept(R \cap M)
  BY <1>1, <1>2, <1>5
<1>7. R \cap M = R
  BY <1>5, <1>6
<1> QED BY <1>7 DEF R

\* A search that ends because the heap is empty has closed all that can be reached
\* from the start, and the end is not among it, as long as the marks do not start
\* again from 0: so there is no path.
THEOREM NotFoundIsUnreachable == Spec => []FindsIfThereIs
<1>1. Init => Completeness
  <2> SUFFICES ASSUME Init PROVE Completeness
    OBVIOUS
  <2>1. searches = 0 /\ \A n \in Cells : calc[n].state = 0
    BY DEF Init
  <2>2. (2 + 2 * searches) % MarkValues \in Nat
    BY <2>1, MarkTypes
  <2> QED BY <2>1, <2>2 DEF Completeness, MarksInv, CompleteInv, CloseValue
<1>2. TypeOK /\ Completeness /\ [Next]_vars => Completeness'
  <2> SUFFICES ASSUME TypeOK, Completeness, [Next]_vars PROVE Completeness'
    OBVIOUS
  <2>1. ASSUME NEW from \in Ends, NEW to \in Ends, FindPath(from, to) PROVE Completeness'
    BY <2>1, FindPathComplete DEF Completeness
  <2>2. CASE Step
    BY <2>2, StepComplete
  <2>3. CASE UNCHANGED vars
    BY <2>3 DEF vars, Completeness, MarksInv, CompleteInv, NoWrap, Marked, OpenValue,
                CloseValue, CanStep, CanCross
  <2> QED BY <2>1, <2>2, <2>3 DEF Next
<1>3. TypeOK /\ Completeness => FindsIfThereIs
  <2> SUFFICES ASSUME TypeOK, Completeness, pc = "notFound", searches > 0, NoWrap
      PROVE end \notin ReachableFrom(start)
    BY DEF FindsIfThereIs, NoWrap
  <2> DEFINE M == {n \in Cells : calc[n].state = CloseValue}
  <2>1. /\ Marked(start) /\ open = <<>>
        /\ \A n \in Cells : calc[n].state = OpenValue => n \in ToSet(open)
        /\ \A n \in Cells : calc[n].state = CloseValue =>
             n # end /\ \A b \in Cells : CanStep(n, b) => Marked(b)
    BY DEF Completeness, CompleteInv
  <2>2. ToSet(open) = {}
    BY <2>1 DEF ToSet
  <2>3. \A n \in Cells : Marked(n) => n \in M
    BY <2>1, <2>2 DEF Marked
  <2>4. start \in Cells /\ start \in M
    BY <2>1, <2>3 DEF TypeOK
  <2>5. \A a \in M, b \in Cells : CanStep(a, b) => b \in M
    BY <2>1, <2>3
  <2>6. end \notin M
    BY <2>1
  <2>7. M \in SUBSET Cells
    OBVIOUS
  <2> HIDE DEF M
  <2> QED BY <2>4, <2>5, <2>6, <2>7, ReachableLeast
<1> QED BY <1>1, <1>2, <1>3, TypeCorrect, PTL DEF Spec
=============================================================================

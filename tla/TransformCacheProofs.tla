------------------------ MODULE TransformCacheProofs ------------------------
(***************************************************************************)
(* Proofs about TransformCache, for any number of entities and any bounds. *)
(* That a flag is raised wherever one is needed is a local matter: a       *)
(* transform whose flag is down has a parent whose flag is down            *)
(* (LocallyCoherent), and the set of transforms notified of a change is    *)
(* closed under "transform of a child of".                                 *)
(***************************************************************************)
EXTENDS TransformCache, FiniteSetTheorems, WellFoundedInduction, TLAPS

\* Matrices of natural numbers are closed under composition.
LEMMA CombineType ==
  ASSUME NEW m \in Matrix, NEW l \in Matrix
  PROVE  Combine(m, l) \in Matrix
<1>1. /\ m.shift \in Nat /\ m.factor \in Nat
      /\ l.shift \in Nat /\ l.factor \in Nat
  BY DEF Matrix
<1>2. \A a \in Nat, b \in Nat : a * b \in Nat
  OBVIOUS
<1>3. m.factor * l.shift \in Nat /\ m.factor * l.factor \in Nat
  BY <1>1, <1>2
<1>4. m.shift + m.factor * l.shift \in Nat
  BY <1>1, <1>3
<1> QED BY <1>3, <1>4 DEF Combine, Matrix

\* The values of a transform are a matrix.
LEMMA LocalType ==
  ASSUME TypeOK, NEW e \in Entity
  PROVE  Local(e) \in Matrix
BY ConstantsAssumption DEF TypeOK, Local, Matrix, Position, Scale

\* Raising flags keeps the type of the cache.
LEMMA CondemnedType ==
  ASSUME TypeOK, NEW S \in SUBSET Entity
  PROVE  Condemned(S) \in [Entity -> Matrix \cup {Stale}]
BY DEF TypeOK, Condemned

\* Who is notified: the transform itself, and every transform of a child of one
\* that is.
LEMMA NotifiedClosed ==
  ASSUME NEW e \in Entity
  PROVE  /\ e \in Notified(e)
         /\ \A x \in Entity : x \in has /\ up[x] \in Notified(e) => x \in Notified(e)
BY DEF Notified, TransformsUnder

\* The cache and the hierarchy keep their types.
THEOREM TypeCorrect == Spec => []TypeOK
<1>1. Init => TypeOK
  BY ConstantsAssumption DEF Init, TypeOK, Position, Scale
<1>2. TypeOK /\ [Next]_vars => TypeOK'
  <2> SUFFICES ASSUME TypeOK, [Next]_vars PROVE TypeOK'
    OBVIOUS
  <2> USE ConstantsAssumption
  <2>1. ASSUME NEW e \in Entity, NEW p \in Position, NEW s \in Scale, AddTransform(e, p, s)
        PROVE  TypeOK'
    BY <2>1 DEF AddTransform, TypeOK
  <2>2. ASSUME NEW e \in Entity, RemoveTransform(e) PROVE TypeOK'
    BY <2>2 DEF RemoveTransform, TypeOK, Position, Scale
  <2>3. ASSUME NEW e \in Entity, Update(e) PROVE TypeOK'
    <3>1. Local(e) \in Matrix
      BY LocalType
    <3>2. ASSUME HasParent(e) PROVE Combine(cached[up[e]], Local(e)) \in Matrix
      <4>1. cached[up[e]] \in Matrix
        BY <2>3, <3>2 DEF Update, TypeOK, HasParent
      <4> QED BY <3>1, <4>1, CombineType
    <3> QED BY <2>3, <3>1, <3>2 DEF Update, TypeOK
  <2>4. ASSUME NEW e \in Entity, NEW p \in Entity \cup {NoEntity}, SetParent(e, p)
        PROVE  TypeOK'
    BY <2>4, CondemnedType DEF SetParent, TypeOK, Notified
  <2>5. ASSUME NEW e \in Entity, NEW p \in Position, SetLocalPosition(e, p) PROVE TypeOK'
    BY <2>5, CondemnedType DEF SetLocalPosition, TypeOK, Notified
  <2>6. ASSUME NEW e \in Entity, NEW s \in Scale, SetLocalScale(e, s) PROVE TypeOK'
    BY <2>6, CondemnedType DEF SetLocalScale, TypeOK, Notified
  <2>7. ASSUME NEW e \in Entity, NEW s \in Scale, SetScale(e, s) PROVE TypeOK'
    <3> DEFINE t == IF HasParent(e) THEN s * GlobalScale(up[e]) ELSE s
    <3>1. SetLocalScale(e, t)
      BY <2>7 DEF SetScale
    <3>2. t \in Scale
      BY <3>1 DEF SetLocalScale
    <3> QED BY <2>6, <3>1, <3>2
  <2>8. ASSUME NEW e \in Entity, NEW p \in AnyPosition, SetPosition(e, p) PROVE TypeOK'
    BY <2>5, <2>8 DEF SetPosition
  <2>9. CASE UNCHANGED vars
    BY <2>9 DEF vars, TypeOK
  <2> QED BY <2>1, <2>2, <2>3, <2>4, <2>5, <2>6, <2>7, <2>8, <2>9 DEF Next
<1> QED BY <1>1, <1>2, PTL DEF Spec

-----------------------------------------------------------------------------
Inv == TypeOK /\ LocallyCoherent

\* A change of the local values of e, with all the transforms below notified.
LEMMA ChangeBelow ==
  ASSUME Inv, NEW e \in Entity,
         up' = up, has' = has,
         \A x \in Entity \ {e} : pos'[x] = pos[x] /\ scl'[x] = scl[x],
         cached' = Condemned(Notified(e))
  PROVE  LocallyCoherent'
<1> SUFFICES ASSUME NEW x \in Entity, x \in has, cached'[x] # Stale
    PROVE IF HasParent(x)
            THEN /\ cached'[up[x]] # Stale
                 /\ cached'[x] = Combine(cached'[up[x]], Local(x)')
            ELSE cached'[x] = Local(x)'
  BY DEF LocallyCoherent, HasParent, Inv, TypeOK
<1>1. x \notin Notified(e) /\ cached'[x] = cached[x]
  BY DEF Condemned
<1>2. x # e
  BY <1>1, NotifiedClosed
<1>3. Local(x)' = Local(x)
  BY <1>2 DEF Local
<1>4. CASE HasParent(x)
  <2>1. up[x] \in Entity /\ up[x] \notin Notified(e)
    BY <1>1, <1>4, NotifiedClosed DEF HasParent, Inv, TypeOK
  <2>2. cached'[up[x]] = cached[up[x]]
    BY <2>1 DEF Condemned
  <2> QED BY <1>1, <1>3, <1>4, <2>2 DEF Inv, LocallyCoherent
<1>5. CASE ~HasParent(x)
  BY <1>1, <1>3, <1>5 DEF Inv, LocallyCoherent
<1> QED BY <1>4, <1>5

\* As long as no transform is added or removed above an existing one, every
\* matrix that is not flagged is the product of its parent's present matrix and
\* the present local values.
THEOREM CacheIsLocallyCoherent == ~LateTransform /\ Spec => []LocallyCoherent
<1> SUFFICES ASSUME ~LateTransform PROVE Spec => []LocallyCoherent
  OBVIOUS
<1>1. Init => LocallyCoherent
  BY DEF Init, LocallyCoherent
<1>2. TypeOK /\ LocallyCoherent /\ [Next]_vars => LocallyCoherent'
  <2> SUFFICES ASSUME Inv, [Next]_vars PROVE LocallyCoherent'
    BY DEF Inv
  <2> USE ConstantsAssumption
  <2>1. ASSUME NEW e \in Entity, NEW p \in Position, NEW s \in Scale, AddTransform(e, p, s)
        PROVE  LocallyCoherent'
    BY <2>1 DEF AddTransform, Unused, TransformsUnder, Inv, TypeOK, LocallyCoherent, HasParent, Local
  <2>2. ASSUME NEW e \in Entity, RemoveTransform(e) PROVE LocallyCoherent'
    BY <2>2 DEF RemoveTransform, Unused, TransformsUnder, Inv, TypeOK, LocallyCoherent, HasParent, Local
  <2>3. ASSUME NEW e \in Entity, Update(e) PROVE LocallyCoherent'
    <3> SUFFICES ASSUME NEW x \in Entity, x \in has, cached'[x] # Stale
        PROVE IF HasParent(x)
                THEN /\ cached'[up[x]] # Stale
                     /\ cached'[x] = Combine(cached'[up[x]], Local(x))
                ELSE cached'[x] = Local(x)
      BY <2>3 DEF Update, LocallyCoherent, HasParent, Local, Inv, TypeOK
    <3>1. Local(e) \in Matrix /\ (HasParent(e) => Combine(cached[up[e]], Local(e)) \in Matrix)
      BY <2>3, LocalType, CombineType DEF Update, HasParent, Inv, TypeOK
    <3>2. Stale \notin Matrix
      BY DEF Matrix
    <3>3. CASE x = e
      BY <2>3, <3>1, <3>2, <3>3 DEF Update, Inv, TypeOK, HasParent
    <3>4. CASE x # e
      <4>1. cached'[x] = cached[x]
        BY <2>3, <3>4 DEF Update, Inv, TypeOK
      <4>2. HasParent(x) => up[x] # e /\ cached'[up[x]] = cached[up[x]]
        BY <2>3, <4>1 DEF Update, Inv, TypeOK, LocallyCoherent, HasParent
      <4> QED BY <4>1, <4>2 DEF Inv, LocallyCoherent
    <3> QED BY <3>3, <3>4
  <2>4. ASSUME NEW e \in Entity, NEW p \in Entity \cup {NoEntity}, SetParent(e, p)
        PROVE  LocallyCoherent'
    <3>1. CASE e \notin has
      BY <2>4, <3>1 DEF SetParent, Inv, TypeOK, LocallyCoherent, HasParent, Local
    <3>2. CASE e \in has
      <4>1. /\ up' = [up EXCEPT ![e] = p] /\ has' = has /\ pos' = pos /\ scl' = scl
            /\ cached' = Condemned(Notified(e))
        BY <2>4, <3>2 DEF SetParent
      <4> SUFFICES ASSUME NEW x \in Entity, x \in has, cached'[x] # Stale
          PROVE IF up'[x] \in has
                  THEN /\ cached'[up'[x]] # Stale
                       /\ cached'[x] = Combine(cached'[up'[x]], Local(x))
                  ELSE cached'[x] = Local(x)
        BY <4>1 DEF LocallyCoherent, HasParent, Local, Inv, TypeOK
      <4>2. x \notin Notified(e) /\ cached'[x] = cached[x]
        BY <4>1 DEF Condemned
      <4>3. up'[x] = up[x]
        BY <4>1, <4>2, NotifiedClosed DEF Inv, TypeOK
      <4>4. ASSUME up[x] \in has PROVE cached'[up[x]] = cached[up[x]]
        BY <4>1, <4>2, <4>4, NotifiedClosed DEF Condemned, Inv, TypeOK
      <4> QED BY <4>2, <4>3, <4>4 DEF Inv, LocallyCoherent, HasParent
    <3> QED BY <3>1, <3>2
  <2>5. ASSUME NEW e \in Entity, NEW p \in Position, SetLocalPosition(e, p)
        PROVE  LocallyCoherent'
    <3>1. /\ up' = up /\ has' = has /\ scl' = scl /\ cached' = Condemned(Notified(e))
          /\ \A x \in Entity \ {e} : pos'[x] = pos[x]
      BY <2>5 DEF SetLocalPosition, Inv, TypeOK
    <3> QED BY <3>1, ChangeBelow
  <2>6. ASSUME NEW e \in Entity, NEW s \in Scale, SetLocalScale(e, s) PROVE LocallyCoherent'
    <3>1. /\ up' = up /\ has' = has /\ pos' = pos /\ cached' = Condemned(Notified(e))
          /\ \A x \in Entity \ {e} : scl'[x] = scl[x]
      BY <2>6 DEF SetLocalScale, Inv, TypeOK
    <3> QED BY <3>1, ChangeBelow
  <2>7. ASSUME NEW e \in Entity, NEW s \in Scale, SetScale(e, s) PROVE LocallyCoherent'
    <3> DEFINE t == IF HasParent(e) THEN s * GlobalScale(up[e]) ELSE s
    <3>1. SetLocalScale(e, t)
      BY <2>7 DEF SetScale
    <3>2. t \in Scale
      BY <3>1 DEF SetLocalScale
    <3> QED BY <2>6, <3>1, <3>2
  <2>8. ASSUME NEW e \in Entity, NEW p \in AnyPosition, SetPosition(e, p)
        PROVE  LocallyCoherent'
    BY <2>5, <2>8 DEF SetPosition
  <2>9. CASE UNCHANGED vars
    BY <2>9 DEF vars, Inv, LocallyCoherent, HasParent, Local
  <2> QED BY <2>1, <2>2, <2>3, <2>4, <2>5, <2>6, <2>7, <2>8, <2>9 DEF Next
<1> QED BY <1>1, <1>2, TypeCorrect, PTL DEF Spec
-----------------------------------------------------------------------------
(***************************************************************************)
(* A matrix that follows from its parent's is the product of all the local *)
(* ones above: the parents make no cycle, so that the chain of parents     *)
(* from an entity has at most as many members as there are entities.       *)
(***************************************************************************)

Less == {pair \in Nat \X Nat : pair[1] < pair[2]}

\* A set of natural numbers has a least element.
LEMMA LeastElement ==
  ASSUME NEW T, T \subseteq Nat, T # {}
  PROVE  \E x \in T : \A y \in T : x <= y
<1>1. IsWellFoundedOn(Less, Nat)
  BY NatLessThanWellFounded DEF OpToRel, Less
<1>2. PICK x \in T : \A y \in T : <<y, x>> \notin Less
  BY <1>1, WFMin
<1>3. ASSUME NEW y \in T PROVE x <= y
  <2>1. ~(y < x)
    BY <1>2 DEF Less
  <2> QED BY <2>1
<1> QED BY <1>3

\* Every set of entities has one whose parent is not in it.
Acyclic == \A D \in SUBSET Entity : D # {} => \E x \in D : up[x] \notin D

LEMMA SubtreeClosed ==
  ASSUME NEW e \in Entity
  PROVE  /\ e \in Subtree(e) /\ Subtree(e) \subseteq Entity
         /\ \A x \in Entity : up[x] \in Subtree(e) => x \in Subtree(e)
BY DEF Subtree

\* Nothing but e itself is in the subtree of e without its parent.
LEMMA SubtreeLeast ==
  ASSUME NEW e \in Entity, NEW x \in Subtree(e), x # e
  PROVE  up[x] \in Subtree(e)
<1> SUFFICES ASSUME up[x] \notin Subtree(e) PROVE FALSE
  OBVIOUS
<1> DEFINE D == Subtree(e) \ {x}
<1>1. D \in SUBSET Entity /\ e \in D
  BY SubtreeClosed
<1>2. \A y \in Entity : up[y] \in D => y \in D
  BY SubtreeClosed
<1>3. x \in D
  BY <1>1, <1>2 DEF Subtree
<1> QED BY <1>3

\* The parent of e is not below e.
LEMMA ParentAbove ==
  ASSUME Acyclic, NEW e \in Entity
  PROVE  up[e] \notin Subtree(e)
<1>1. PICK x \in Subtree(e) : up[x] \notin Subtree(e)
  BY SubtreeClosed DEF Acyclic
<1> QED BY <1>1, SubtreeLeast

\* setParent to an entity that is not below makes no cycle.
LEMMA SetParentAcyclic ==
  ASSUME TypeOK, Acyclic, NEW e \in Entity, NEW p \in Entity \cup {NoEntity}, SetParent(e, p)
  PROVE  Acyclic'
<1> SUFFICES ASSUME NEW D \in SUBSET Entity, D # {} PROVE \E x \in D : up'[x] \notin D
  BY DEF Acyclic
<1>1. up'[e] = p /\ p \notin Subtree(e) /\ \A x \in Entity \ {e} : up'[x] = up[x]
  BY DEF SetParent, TypeOK
<1>2. CASE e \notin D \/ p \notin D
  BY <1>1, <1>2 DEF Acyclic
<1>3. CASE e \in D /\ p \in D
  <2>1. PICK x \in D \ Subtree(e) : up[x] \notin D \ Subtree(e)
    BY <1>1, <1>3 DEF Acyclic
  <2>2. up[x] \notin Subtree(e) /\ x # e
    BY <2>1, SubtreeClosed
  <2> QED BY <1>1, <2>1, <2>2
<1> QED BY <1>2, <1>3

\* One more entity of the chain of parents.
Above(row) ==
  [e \in Entity |-> IF HasParent(e) THEN Combine(row[up[e]], Local(e)) ELSE Local(e)]

\* The rows of the function global, one for each length of the chain.
AreRows(g, m) ==
  g = [n \in 0..m |-> [e \in Entity |->
         IF n > 0 /\ HasParent(e) THEN Combine(g[n - 1][up[e]], Local(e)) ELSE Local(e)]]

LEMMA RowsExist ==
  ASSUME NEW m \in Nat
  PROVE  \E g : AreRows(g, m)
<1> DEFINE T == {k \in Nat : ~\E g : AreRows(g, k)}
<1> SUFFICES ASSUME T # {} PROVE FALSE
  OBVIOUS
<1>1. PICK k \in T : \A y \in T : k <= y
  BY LeastElement
<1>2. CASE k = 0
  <2> DEFINE g == [n \in 0..0 |-> [e \in Entity |-> Local(e)]]
  <2>1. AreRows(g, 0)
    BY DEF AreRows
  <2> QED BY <1>1, <1>2, <2>1
<1>3. CASE k # 0
  <2>1. k - 1 \in Nat /\ k - 1 \notin T
    BY <1>1, <1>3
  <2>2. PICK g : AreRows(g, k - 1)
    BY <2>1
  <2> DEFINE h == [n \in 0..k |-> IF n = k THEN Above(g[k - 1]) ELSE g[n]]
             H(n) == [e \in Entity |->
               IF n > 0 /\ HasParent(e) THEN Combine(h[n - 1][up[e]], Local(e)) ELSE Local(e)]
             G(n) == [e \in Entity |->
               IF n > 0 /\ HasParent(e) THEN Combine(g[n - 1][up[e]], Local(e)) ELSE Local(e)]
  <2>3. ASSUME NEW n \in 0..k PROVE h[n] = H(n)
    <3>1. CASE n = k
      <4>1. h[n] = Above(g[k - 1]) /\ h[n - 1] = g[k - 1] /\ n > 0
        BY <1>3, <2>1, <3>1
      <4> HIDE DEF h
      <4> QED BY <3>1, <4>1 DEF Above
    <3>2. CASE n # k
      <4>1. n \in 0..(k - 1)
        BY <3>2
      <4>2. g[n] = G(n)
        BY <2>2, <4>1 DEF AreRows
      <4>3. h[n] = g[n] /\ (n > 0 => h[n - 1] = g[n - 1])
        BY <3>2
      <4> HIDE DEF h
      <4> QED BY <4>2, <4>3
    <3> QED BY <3>1, <3>2
  <2>4. h = [n \in 0..k |-> H(n)]
    <3>1. h = [n \in 0..k |-> h[n]]
      OBVIOUS
    <3> HIDE DEF h, H
    <3> QED BY <2>3, <3>1
  <2>5. AreRows(h, k)
    <3> HIDE DEF h
    <3> QED BY <2>4 DEF AreRows
  <2> QED BY <1>1, <2>5
<1> QED BY <1>2, <1>3

\* What the members of a set of n entities and less, closed under "parent of",
\* have in the rows from n - 1 on.
LEMMA CoherentIsGlobal ==
  ASSUME TypeOK, Acyclic, LocallyCoherent, NEW m \in Nat, NEW g, AreRows(g, m)
  PROVE  \A n \in 0..m, A \in SUBSET Entity :
           (\A x \in A : up[x] \in Entity => up[x] \in A) /\ Cardinality(A) <= n =>
             \A e \in A : e \in has /\ cached[e] # Stale => cached[e] = g[n][e]
<1> DEFINE Closed(A) == \A x \in A : up[x] \in Entity => up[x] \in A
           Right(n) == \A A \in SUBSET Entity : Closed(A) /\ Cardinality(A) <= n =>
             \A e \in A : e \in has /\ cached[e] # Stale => cached[e] = g[n][e]
           T == {n \in 0..m : ~Right(n)}
<1> SUFFICES ASSUME T # {} PROVE FALSE
  OBVIOUS
<1>1. PICK n \in T : \A y \in T : n <= y
  <2>1. T \subseteq Nat
    OBVIOUS
  <2> HIDE DEF T
  <2> QED BY <2>1, LeastElement
<1>2. n \in 0..m /\ ~Right(n)
  BY <1>1
<1>3a. PICK A \in SUBSET Entity :
         /\ Closed(A) /\ Cardinality(A) <= n
         /\ \E e \in A : e \in has /\ cached[e] # Stale /\ cached[e] # g[n][e]
  BY <1>2
<1>3b. PICK e \in A : e \in has /\ cached[e] # Stale /\ cached[e] # g[n][e]
  BY <1>3a
<1>3. /\ Closed(A) /\ Cardinality(A) <= n
      /\ e \in has /\ cached[e] # Stale /\ cached[e] # g[n][e]
  BY <1>3a, <1>3b
<1>4. IsFiniteSet(A)
  BY FS_Subset, ConstantsAssumption
<1>5. n # 0 /\ n - 1 \in 0..m /\ Right(n - 1)
  <2>1. Cardinality(A) \in Nat /\ Cardinality(A) # 0
    BY <1>3, <1>4, FS_CardinalityType, FS_EmptySet
  <2>2. n # 0 /\ n - 1 \in 0..m
    BY <1>2, <1>3, <2>1
  <2>3. n - 1 \notin T
    BY <1>1, <1>2, <2>2
  <2> QED BY <2>2, <2>3
<1>6. g[n][e] = IF HasParent(e) THEN Combine(g[n - 1][up[e]], Local(e)) ELSE Local(e)
  <2>1. g[n] = [x \in Entity |->
          IF n > 0 /\ HasParent(x) THEN Combine(g[n - 1][up[x]], Local(x)) ELSE Local(x)]
    BY <1>2 DEF AreRows
  <2>2. n > 0 /\ e \in Entity
    BY <1>2, <1>5
  <2> QED BY <2>1, <2>2
<1>7. CASE ~HasParent(e)
  BY <1>3, <1>6, <1>7 DEF LocallyCoherent
<1>8. CASE HasParent(e)
  <2>1. /\ cached[up[e]] # Stale /\ up[e] \in has /\ up[e] \in Entity
        /\ cached[e] = Combine(cached[up[e]], Local(e))
    BY <1>3, <1>8 DEF LocallyCoherent, HasParent, TypeOK
  <2> DEFINE B == A \ Subtree(e)
  <2>2. up[e] \in B
    BY <1>3, <2>1, ParentAbove
  <2>3. Closed(B)
    BY <1>3, SubtreeClosed
  <2>4. B \subseteq A \ {e}
    BY SubtreeClosed
  <2>5. Cardinality(A \ {e}) = Cardinality(A) - 1
    BY <1>3, <1>4, FS_RemoveElement
  <2>6. Cardinality(B) <= Cardinality(A \ {e})
    BY <1>4, <2>4, FS_RemoveElement, FS_Subset
  <2>7. Cardinality(B) <= n - 1
    <3>1. Cardinality(A) \in Nat /\ Cardinality(B) \in Nat
      BY <1>4, <2>4, FS_Subset, FS_CardinalityType
    <3> QED BY <1>2, <1>3, <2>5, <2>6, <3>1
  <2>8. B \in SUBSET Entity
    OBVIOUS
  <2> HIDE DEF B
  <2>9. cached[up[e]] = g[n - 1][up[e]]
    BY <1>5, <2>1, <2>2, <2>3, <2>7, <2>8
  <2> QED BY <1>3, <1>6, <1>8, <2>1, <2>9
<1> QED BY <1>7, <1>8

LEMMA GlobalOfCoherent ==
  ASSUME TypeOK, Acyclic, LocallyCoherent
  PROVE  MatrixIsGlobal
<1> DEFINE m == Cardinality(Entity)
           g == CHOOSE g : AreRows(g, m)
<1>1. m \in Nat
  BY ConstantsAssumption, FS_CardinalityType
<1>2. AreRows(g, m)
  BY <1>1, RowsExist
<1>3. Global = g[m]
  BY DEF Global, AreRows
<1>4. \A x \in Entity : up[x] \in Entity => up[x] \in Entity
  OBVIOUS
<1> HIDE DEF m, g
<1>5. m <= m /\ m \in 0..m
  BY <1>1
<1>6. \A e \in Entity : e \in has /\ cached[e] # Stale => cached[e] = g[m][e]
  BY <1>1, <1>2, <1>4, <1>5, CoherentIsGlobal DEF m
<1> QED BY <1>3, <1>6 DEF MatrixIsGlobal, TypeOK

\* The parents make no cycle, however entities are moved in the hierarchy.
LEMMA HierarchyIsAcyclic == Spec => []Acyclic
<1>1. Init => Acyclic
  BY ConstantsAssumption DEF Init, Acyclic
<1>2. TypeOK /\ Acyclic /\ [Next]_vars => Acyclic'
  <2> SUFFICES ASSUME TypeOK, Acyclic, [Next]_vars PROVE Acyclic'
    OBVIOUS
  <2>1. ASSUME NEW e \in Entity, NEW p \in Entity \cup {NoEntity}, SetParent(e, p)
        PROVE  Acyclic'
    BY <2>1, SetParentAcyclic
  <2>2. CASE up' = up
    BY <2>2 DEF Acyclic
  <2>3. (\E e \in Entity, p \in Entity \cup {NoEntity} : SetParent(e, p)) \/ up' = up
    BY DEF Next, vars, AddTransform, RemoveTransform, Update, SetLocalPosition,
           SetLocalScale, SetScale, SetPosition
  <2> QED BY <2>1, <2>2, <2>3
<1> QED BY <1>1, <1>2, TypeCorrect, PTL DEF Spec

\* As long as no transform is added or removed above an existing one, matrix()
\* returns the product of the local matrices from the topmost ancestor down, in the
\* state they are in, whatever was changed or reparented since it was last called.
THEOREM CacheIsGlobal == ~LateTransform /\ Spec => []MatrixIsGlobal
BY CacheIsLocallyCoherent, HierarchyIsAcyclic, TypeCorrect, GlobalOfCoherent, PTL
=============================================================================

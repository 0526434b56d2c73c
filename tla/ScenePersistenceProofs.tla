----------------------- MODULE ScenePersistenceProofs -----------------------
(***************************************************************************)
(* Theorems about identifiers, tags and saved scenes, for any number of    *)
(* addresses and tags and any sequence of saves, edits and loads.          *)
(***************************************************************************)
EXTENDS ScenePersistence, WellFoundedInduction, TLAPS

-----------------------------------------------------------------------------
(***************************************************************************)
(* Sequences and numbers.                                                  *)
(***************************************************************************)

Less == {pair \in Nat \X Nat : pair[1] < pair[2]}

\* A set of natural numbers has a least element: the proofs by induction rest on it.
LEMMA LeastElement ==
  ASSUME NEW T, T \subseteq Nat, T # {}
  PROVE  \E x \in T : \A y \in T : x <= y
<1>1. IsWellFoundedOn(Less, Nat)
  BY NatLessThanWellFounded DEF OpToRel, Less
<1>2. PICK x \in T : \A y \in T : <<y, x>> \notin Less
  BY <1>1, WFMin
<1>3. ASSUME NEW y \in T PROVE x <= y
  <2>1. ~(y < x)
    BY <1>2 DEF Less
  <2> QED BY <2>1
<1> QED BY <1>3

\* Appending an element that is not in it leaves a sequence without repetitions.
LEMMA AppendNew ==
  ASSUME NEW S, NEW s \in Seq(S), IsInjective(s), NEW e, e \notin ToSet(s)
  PROVE  /\ Append(s, e) \in Seq(S \union {e})
         /\ IsInjective(Append(s, e))
         /\ ToSet(Append(s, e)) = ToSet(s) \union {e}
<1> DEFINE t == Append(s, e)
           n == Len(s)
<1>1. /\ n \in Nat /\ DOMAIN s = 1..n /\ DOMAIN t = 1..(n + 1)
      /\ \A i \in 1..n : t[i] = s[i] /\ s[i] \in S
      /\ t[n + 1] = e
  OBVIOUS
<1>2. t \in Seq(S \union {e})
  OBVIOUS
<1>3. \A i \in 1..(n + 1) : i \in 1..n \/ i = n + 1
  BY <1>1
<1>4. n + 1 \in 1..(n + 1) /\ \A i \in 1..n : i \in 1..(n + 1)
  BY <1>1
<1> HIDE DEF t, n
<1>5. IsInjective(t)
  BY <1>1, <1>3 DEF IsInjective, ToSet
<1>6. ToSet(t) = ToSet(s) \union {e}
  BY <1>1, <1>3, <1>4 DEF ToSet
<1> QED BY <1>2, <1>5, <1>6 DEF t

\* RemoveFirst takes the element out of a sequence that holds it once.
LEMMA RemoveOnly ==
  ASSUME NEW S, NEW s \in Seq(S), IsInjective(s), NEW e
  PROVE  /\ RemoveFirst(s, e) \in Seq(S \ {e})
         /\ IsInjective(RemoveFirst(s, e))
         /\ ToSet(RemoveFirst(s, e)) = ToSet(s) \ {e}
<1> DEFINE n == Len(s)
<1>1. /\ n \in Nat /\ DOMAIN s = 1..n
      /\ \A i \in 1..n : s[i] \in S
  OBVIOUS
<1>2. CASE ~\E i \in 1..n : s[i] = e
  <2>1. RemoveFirst(s, e) = s
    BY <1>2 DEF RemoveFirst
  <2>2. s \in Seq(S \ {e})
    BY <1>1, <1>2
  <2> QED BY <1>1, <1>2, <2>1, <2>2 DEF ToSet
<1>3. ASSUME NEW k \in 1..n, s[k] = e
      PROVE  /\ RemoveFirst(s, e) \in Seq(S \ {e})
             /\ IsInjective(RemoveFirst(s, e))
             /\ ToSet(RemoveFirst(s, e)) = ToSet(s) \ {e}
  <2> DEFINE r == SubSeq(s, 1, k - 1) \o SubSeq(s, k + 1, n)
             from(i) == IF i < k THEN i ELSE i + 1
  <2>1. {i \in 1..n : s[i] = e} = {k}
    BY <1>1, <1>3 DEF IsInjective
  <2>2. Min({k}) = k
    BY DEF Min
  <2>3. RemoveFirst(s, e) = r
    BY <1>3, <2>1, <2>2 DEF RemoveFirst, RemoveAt, SelectInSeq
  <2> DEFINE a == SubSeq(s, 1, k - 1)
             b == SubSeq(s, k + 1, n)
  <2>4. /\ a \in Seq(S) /\ Len(a) = k - 1 /\ \A i \in 1..(k - 1) : a[i] = s[i]
        /\ b \in Seq(S) /\ Len(b) = n - k /\ \A i \in 1..(n - k) : b[i] = s[k + i]
    <3>1. a \in Seq(S) /\ Len(a) = k - 1 /\ \A i \in 1..(k - 1) : a[i] = s[i]
      BY <1>1
    <3>2. b \in Seq(S)
      BY <1>1
    <3>3. Len(b) = n - k
      <4>1. Len(b) = IF k + 1 <= n THEN n - (k + 1) + 1 ELSE 0
        BY <1>1
      <4>2. n \in Int /\ k \in Int /\ k <= n
        BY <1>1
      <4> HIDE DEF b, n
      <4> QED BY <4>1, <4>2
    <3>4. \A i \in 1..(n - k) : b[i] = s[k + i]
      <4>1. \A i \in 1..(n - k) : b[i] = s[(k + 1) + i - 1] /\ (k + 1) + i - 1 = k + i
        BY <1>1
      <4> QED BY <4>1, Zenon
    <3> QED BY <3>1, <3>2, <3>3, <3>4
  <2> HIDE DEF a, b
  <2>5. r \in Seq(S) /\ Len(r) = n - 1 /\ DOMAIN r = 1..(n - 1)
    <3>1. r = a \o b
      BY DEF a, b
    <3>2. Len(a) + Len(b) = n - 1
      BY <1>1, <2>4
    <3> HIDE DEF r
    <3> QED BY <2>4, <3>1, <3>2
  <2>6. \A i \in 1..(n - 1) : r[i] = s[from(i)]
    <3> SUFFICES ASSUME NEW i \in 1..(n - 1) PROVE r[i] = s[from(i)]
      OBVIOUS
    <3>1. r = a \o b
      BY DEF a, b
    <3> HIDE DEF r, n
    <3>2. CASE i < k
      BY <1>1, <2>4, <3>1, <3>2
    <3>3. CASE ~(i < k)
      <4>1. i - (k - 1) \in 1..(n - k) /\ k + (i - (k - 1)) = i + 1
        BY <1>1, <3>3
      <4>2. r[i] = b[i - (k - 1)]
        BY <1>1, <2>4, <3>1, <3>3
      <4> QED BY <2>4, <3>3, <4>1, <4>2
    <3> QED BY <3>2, <3>3
  <2>7. \A i \in 1..(n - 1) : from(i) \in 1..n /\ from(i) # k
    BY <1>1
  <2>8. \A i, j \in 1..(n - 1) : from(i) = from(j) => i = j
    BY <1>1
  <2>9. \A j \in 1..n : j # k => \E i \in 1..(n - 1) : from(i) = j
    <3> SUFFICES ASSUME NEW j \in 1..n, j # k
                 PROVE  \E i \in 1..(n - 1) : from(i) = j
      OBVIOUS
    <3>1. CASE j < k
      BY <1>1, <3>1
    <3>2. CASE j > k
      <4>1. j - 1 \in 1..(n - 1) /\ from(j - 1) = j
        BY <1>1, <3>2
      <4> QED BY <4>1
    <3> QED BY <1>1, <3>1, <3>2
  <2> HIDE DEF n, r, from
  <2>10. \A i \in 1..(n - 1) : r[i] # e
    BY <1>1, <1>3, <2>6, <2>7 DEF IsInjective
  <2>11. r \in Seq(S \ {e})
    BY <2>5, <2>10
  <2>12. IsInjective(r)
    BY <1>1, <2>5, <2>6, <2>7, <2>8 DEF IsInjective
  <2>13. ToSet(r) = ToSet(s) \ {e}
    <3>1. ToSet(r) = {r[i] : i \in 1..(n - 1)} /\ ToSet(s) = {s[i] : i \in 1..n}
      BY <1>1, <2>5 DEF ToSet
    <3>2. ASSUME NEW x \in ToSet(r) PROVE x \in ToSet(s) \ {e}
      BY <2>6, <2>7, <2>10, <3>1, <3>2
    <3>3. ASSUME NEW x \in ToSet(s) \ {e} PROVE x \in ToSet(r)
      <4>1. PICK j \in 1..n : s[j] = x
        BY <3>1, <3>3
      <4>2. PICK i \in 1..(n - 1) : from(i) = j
        BY <1>3, <2>9, <3>3, <4>1
      <4>3. r[i] = x
        BY <2>6, <4>1, <4>2
      <4> QED BY <3>1, <4>3
    <3> QED BY <3>2, <3>3
  <2> QED BY <2>3, <2>11, <2>12, <2>13
<1> QED BY <1>2, <1>3

\* The identifiers of a saved scene that is not empty have a greatest one, by induction
\* on the length of the list.
LEMMA GreatestID ==
  ASSUME NEW s \in Seq(Saved), s # <<>>
  PROVE  /\ NextIDOf(s) \in Nat
         /\ \A i \in DOMAIN s : s[i].id < NextIDOf(s)
<1> DEFINE n == Len(s)
           Top(k) == \E j \in 1..k : \A i \in 1..k : s[i].id <= s[j].id
           T == {k \in Nat : k \in 1..n /\ ~Top(k)}
<1>1. n \in Nat /\ n # 0 /\ DOMAIN s = 1..n /\ \A i \in 1..n : s[i].id \in Nat
  <2>1. n \in Nat /\ n # 0 /\ DOMAIN s = 1..n
    OBVIOUS
  <2>2. \A i \in 1..n : s[i] \in Saved
    OBVIOUS
  <2>3. \A x \in Saved : x.id \in Nat
    BY DEF Saved
  <2> HIDE DEF n
  <2> QED BY <2>1, <2>2, <2>3
<1> HIDE DEF n
<1>2. T = {}
  <2> SUFFICES ASSUME T # {} PROVE FALSE
    OBVIOUS
  <2>1. PICK k \in T : \A x \in T : k <= x
    <3>1. T \subseteq Nat
      OBVIOUS
    <3> HIDE DEF T
    <3> QED BY <3>1, LeastElement
  <2>2. k \in 1..n /\ ~Top(k) /\ k # 1
    <3>1. Top(1)
      <4>1. 1 \in 1..n /\ \A i \in 1..1 : i = 1
        BY <1>1
      <4>2. \A i \in 1..1 : s[i].id <= s[1].id
        BY <1>1, <4>1
      <4> QED BY <4>2
    <3> QED BY <3>1
  <2>3. k - 1 \in 1..n /\ k - 1 \in Nat /\ ~(k <= k - 1)
    <3>1. k \in Nat /\ k >= 1 /\ k <= n
      BY <1>1, <2>2
    <3> HIDE DEF T, Top
    <3> QED BY <1>1, <2>2, <3>1
  <2>4. PICK j \in 1..(k - 1) : \A i \in 1..(k - 1) : s[i].id <= s[j].id
    <3>1. k - 1 \notin T
      <4> HIDE DEF T
      <4> QED BY <2>1, <2>3
    <3> QED BY <2>3, <3>1
  <2>5. /\ j \in 1..k /\ k \in 1..k /\ j \in 1..n
        /\ \A i \in 1..k : i \in 1..(k - 1) \/ i = k
    BY <1>1, <2>2
  <2>6. CASE s[j].id <= s[k].id
    <3>1. \A i \in 1..k : s[i].id <= s[k].id
      <4> SUFFICES ASSUME NEW i \in 1..k PROVE s[i].id <= s[k].id
        OBVIOUS
      <4>1. i \in 1..n
        BY <1>1, <2>2
      <4>2. s[i].id \in Nat /\ s[j].id \in Nat /\ s[k].id \in Nat
        BY <1>1, <2>2, <2>5, <4>1
      <4> HIDE DEF T, Top
      <4>3. CASE i = k
        BY <4>2, <4>3
      <4>4. CASE i # k
        <5>1. s[i].id <= s[j].id
          BY <2>4, <2>5, <4>4
        <5> QED BY <2>6, <4>2, <5>1
      <4> QED BY <4>3, <4>4
    <3> QED BY <2>2, <2>5, <3>1
  <2>7. CASE s[k].id <= s[j].id
    BY <2>2, <2>4, <2>5, <2>7
  <2> QED BY <1>1, <2>2, <2>5, <2>6, <2>7
<1>3. PICK j \in 1..n : \A i \in 1..n : s[i].id <= s[j].id
  <2>1. n \in 1..n /\ n \in Nat
    BY <1>1
  <2> QED BY <1>2, <2>1
<1> DEFINE ids == {s[i].id : i \in DOMAIN s}
           m == CHOOSE x \in ids : \A y \in ids : x >= y
<1>4. m \in ids /\ \A y \in ids : m >= y
  <2>1. s[j].id \in ids /\ \A y \in ids : s[j].id >= y
    BY <1>1, <1>3
  <2> HIDE DEF ids
  <2> QED BY <2>1
<1>5. m \in Nat
  BY <1>1, <1>4
<1>6. \A i \in DOMAIN s : s[i].id <= m
  BY <1>1, <1>4, <1>5
<1>7. NextIDOf(s) = m + 1
  BY DEF NextIDOf, Max
<1> HIDE DEF m
<1> QED BY <1>1, <1>5, <1>6, <1>7

-----------------------------------------------------------------------------
(***************************************************************************)
(* The scene that a load or a clear makes.                                 *)
(***************************************************************************)

LEMMA CreatedTypes ==
  /\ Created \in Seq(Position)
  /\ \A p \in Position : [i \in DOMAIN Created |-> p] \in Seq(Position)
  /\ ~automatic => Created = <<>>
<1>1. Origin \in Position
  BY ConstantsAssumption
<1>2. CASE automatic
  <2>1. Created = <<Origin>> /\ DOMAIN Created = 1..1
    BY <1>2 DEF Created
  <2>2. \A p \in Position : [i \in 1..1 |-> p] \in Seq(Position)
    OBVIOUS
  <2> QED BY <1>1, <1>2, <2>1, <2>2
<1>3. CASE ~automatic
  <2>1. Created = <<>> /\ DOMAIN Created = 1..0
    BY <1>3 DEF Created
  <2>2. \A p \in Position : [i \in 1..0 |-> p] \in Seq(Position)
    OBVIOUS
  <2>3. <<>> \in Seq(Position)
    OBVIOUS
  <2> QED BY <2>1, <2>2, <2>3
<1> QED BY <1>2, <1>3

\* What the file says of the transforms comes after what createEntity adds.
LEMMA CreatedComeFirst ==
  ASSUME NEW q \in Seq(Position)
  PROVE  /\ Created \o q \in Seq(Position)
         /\ (IF automatic THEN Tail(Created \o q) ELSE Created \o q) = q
<1>1. Created \in Seq(Position)
  BY CreatedTypes
<1>2. Created \o q \in Seq(Position)
  BY <1>1
<1>3. CASE automatic
  <2> DEFINE r == <<Origin>> \o q
  <2>1. Created \o q = r
    BY <1>3 DEF Created
  <2>2. Len(q) \in Nat /\ Len(r) = 1 + Len(q) /\ \A i \in 1..Len(q) : r[i + 1] = q[i]
    BY ConstantsAssumption
  <2>3. r \in Seq(Position) /\ r # <<>>
    BY <1>2, <2>1, <2>2
  <2> HIDE DEF r
  <2>4. Tail(r) \in Seq(Position) /\ Len(Tail(r)) = Len(q)
    BY <2>2, <2>3
  <2>5. \A i \in 1..Len(q) : Tail(r)[i] = q[i]
    BY <2>2, <2>3
  <2>6. Tail(r) = q
    BY <2>4, <2>5
  <2> QED BY <1>2, <1>3, <2>1, <2>6
<1>4. CASE ~automatic
  <2>1. Created = <<>>
    BY <1>4, CreatedTypes
  <2>2. <<>> \o q = q
    OBVIOUS
  <2> QED BY <1>2, <1>4, <2>1, <2>2
<1> QED BY <1>3, <1>4

LEMMA RestoredTypes ==
  ASSUME TypeOK, NEW saved \in Seq(Saved), NEW i \in DOMAIN saved
  PROVE  /\ Restored(saved, i) \in Saved
         /\ ~Conflicting(saved, i) =>
              /\ Restored(saved, i).id = saved[i].id
              /\ Restored(saved, i).tags = saved[i].tags
              /\ (IF automatic THEN Tail(Restored(saved, i).transforms)
                               ELSE Restored(saved, i).transforms) = saved[i].transforms
<1>1. /\ saved[i] \in Saved /\ i \in Nat /\ i >= 1
      /\ saved[i].id \in Nat /\ saved[i].tags \in SUBSET Tag /\ saved[i].transforms \in Seq(Position)
  <2>1. saved[i] \in Saved /\ i \in Nat /\ i >= 1
    OBVIOUS
  <2>2. \A x \in Saved : x.id \in Nat /\ x.tags \in SUBSET Tag /\ x.transforms \in Seq(Position)
    BY DEF Saved
  <2> QED BY <2>1, <2>2
<1>2. Created \in Seq(Position)
  BY CreatedTypes
<1>3. i - 1 \in Nat
  BY <1>1
<1> DEFINE all == Created \o saved[i].transforms
<1>4. /\ all \in Seq(Position)
      /\ (IF automatic THEN Tail(all) ELSE all) = saved[i].transforms
  BY <1>1, CreatedComeFirst
<1>5. CASE Conflicting(saved, i)
  <2>1. Restored(saved, i) = [id |-> i - 1, tags |-> {}, transforms |-> Created]
    BY <1>5 DEF Restored
  <2> QED BY <1>2, <1>3, <1>5, <2>1 DEF Saved
<1>6. CASE ~Conflicting(saved, i)
  <2>1. Restored(saved, i) = [id |-> saved[i].id, tags |-> saved[i].tags,
                              transforms |-> all]
    BY <1>6 DEF Restored, Unserialized
  <2> HIDE DEF all
  <2> QED BY <1>1, <1>2, <1>4, <1>6, <2>1 DEF Saved
<1> QED BY <1>5, <1>6

\* Each new entity has the contents of its place in the list, and the tag index has
\* lost the entities that it told of their tags.
LEMMA ReplacedFacts ==
  ASSUME TypeOK, NEW new \in Seq(Entity), IsInjective(new), NEW contents,
         \A i \in DOMAIN new : contents[i] \in Saved,
         Replaced(new, contents)
  PROVE  /\ order' = new /\ InScene' = ToSet(new)
         /\ id' \in [Entity -> Nat] /\ tags' \in [Entity -> SUBSET Tag]
         /\ transforms' \in [Entity -> Seq(Position)] /\ tagged' \in [Tag -> SUBSET Entity]
         /\ \A i \in DOMAIN new :
              /\ id'[new[i]] = contents[i].id /\ tags'[new[i]] = contents[i].tags
              /\ transforms'[new[i]] = contents[i].transforms
         /\ \A t \in Tag : tagged'[t] = {x \in tagged[t] : x \in InScene => t \notin tags[x]}
<1> DEFINE place(e) == CHOOSE i \in DOMAIN new : new[i] = e
<1>1. /\ order' = new
      /\ id' = [e \in Entity |-> IF e \in ToSet(new) THEN contents[place(e)].id ELSE 0]
      /\ tags' = [e \in Entity |-> IF e \in ToSet(new) THEN contents[place(e)].tags ELSE {}]
      /\ transforms' = [e \in Entity |->
                          IF e \in ToSet(new) THEN contents[place(e)].transforms ELSE <<>>]
      /\ tagged' = [t \in Tag |-> {x \in tagged[t] : x \in InScene => t \notin tags[x]}]
  BY DEF Replaced
<1>2. \A i \in DOMAIN new : new[i] \in Entity /\ new[i] \in ToSet(new)
  BY DEF ToSet
<1>3. \A i \in DOMAIN new : place(new[i]) = i
  BY DEF IsInjective
<1>4. \A e \in ToSet(new) : place(e) \in DOMAIN new
  BY DEF ToSet
<1> HIDE DEF place
<1>5. \A i \in DOMAIN new : /\ contents[i].id \in Nat /\ contents[i].tags \in SUBSET Tag
                           /\ contents[i].transforms \in Seq(Position)
  BY DEF Saved
<1>6. id' \in [Entity -> Nat]
  BY <1>1, <1>4, <1>5
<1>7. tags' \in [Entity -> SUBSET Tag]
  BY <1>1, <1>4, <1>5
<1>8. transforms' \in [Entity -> Seq(Position)]
  <2>1. <<>> \in Seq(Position)
    OBVIOUS
  <2> QED BY <1>1, <1>4, <1>5, <2>1
<1>9. tagged' \in [Tag -> SUBSET Entity]
  BY <1>1 DEF TypeOK
<1>10. InScene' = ToSet(new)
  BY <1>1 DEF InScene
<1>11. \A i \in DOMAIN new :
         /\ id'[new[i]] = contents[i].id /\ tags'[new[i]] = contents[i].tags
         /\ transforms'[new[i]] = contents[i].transforms
  BY <1>1, <1>2, <1>3
<1> QED BY <1>1, <1>6, <1>7, <1>8, <1>9, <1>10, <1>11

\* What Load makes of each place in the file.
LEMMA LoadFacts ==
  ASSUME TypeOK, Load
  PROVE  /\ file \in [entities : Seq(Saved), automatic : BOOLEAN] /\ file' = file
         /\ nextID' = NextIDOf(file.entities) /\ automatic' = file.automatic
         /\ taken \subseteq taken' /\ "load" \in taken' /\ taken' \subseteq Liberties
         /\ HasConflict(file.entities) => "conflict" \in taken'
         /\ id' \in [Entity -> Nat] /\ tags' \in [Entity -> SUBSET Tag]
         /\ transforms' \in [Entity -> Seq(Position)] /\ tagged' \in [Tag -> SUBSET Entity]
         /\ \A t \in Tag : tagged'[t] = {x \in tagged[t] : x \in InScene => t \notin tags[x]}
         /\ order' \in Seq(Entity) /\ IsInjective(order') /\ DOMAIN order' = DOMAIN file.entities
         /\ \A i \in DOMAIN order' :
              LET r == Restored(file.entities, i) e == order'[i]
              IN  e \in InScene' /\ id'[e] = r.id /\ tags'[e] = r.tags /\ transforms'[e] = r.transforms
         /\ InScene' = {order'[i] : i \in DOMAIN order'}
<1> DEFINE saved == file.entities
<1>1. file \in [entities : Seq(Saved), automatic : BOOLEAN] /\ saved \in Seq(Saved)
  BY DEF Load, TypeOK
<1>2. PICK new \in Allocations(Len(saved)) :
        Replaced(new, [i \in DOMAIN new |-> Restored(saved, i)])
  BY DEF Load
<1> DEFINE contents == [i \in DOMAIN new |-> Restored(saved, i)]
<1>3. new \in [1..Len(saved) -> Entity] /\ IsInjective(new) /\ Len(saved) \in Nat
      /\ DOMAIN saved = 1..Len(saved)
  BY <1>1, <1>2 DEF Allocations
<1>4. new \in Seq(Entity) /\ DOMAIN new = DOMAIN saved
  BY <1>3
<1>5. \A i \in DOMAIN new : contents[i] = Restored(saved, i) /\ contents[i] \in Saved
  BY <1>1, <1>4, RestoredTypes
<1> HIDE DEF contents
<1>6. Replaced(new, contents)
  BY <1>2 DEF contents
<1>7. /\ order' = new /\ InScene' = ToSet(new)
      /\ id' \in [Entity -> Nat] /\ tags' \in [Entity -> SUBSET Tag]
      /\ transforms' \in [Entity -> Seq(Position)] /\ tagged' \in [Tag -> SUBSET Entity]
      /\ \A i \in DOMAIN new :
           /\ id'[new[i]] = contents[i].id /\ tags'[new[i]] = contents[i].tags
           /\ transforms'[new[i]] = contents[i].transforms
      /\ \A t \in Tag : tagged'[t] = {x \in tagged[t] : x \in InScene => t \notin tags[x]}
  BY <1>3, <1>4, <1>5, <1>6, ReplacedFacts
<1>8. /\ file' = file
      /\ nextID' = NextIDOf(saved) /\ automatic' = file.automatic
      /\ taken \subseteq taken' /\ "load" \in taken' /\ taken' \subseteq Liberties
      /\ HasConflict(saved) => "conflict" \in taken'
  BY DEF Load, TypeOK, Liberties
<1>9. InScene' = {order'[i] : i \in DOMAIN order'}
  BY <1>7 DEF ToSet
<1>10. \A i \in DOMAIN order' :
         LET r == Restored(saved, i) e == order'[i]
         IN  e \in InScene' /\ id'[e] = r.id /\ tags'[e] = r.tags /\ transforms'[e] = r.transforms
  BY <1>5, <1>7, <1>9
<1> QED BY <1>1, <1>3, <1>4, <1>7, <1>8, <1>9, <1>10

\* Scene::clear, and what it leaves in the tag index.
LEMMA ClearFacts ==
  ASSUME TypeOK, Replaced(<<>>, <<>>)
  PROVE  /\ order' = <<>> /\ InScene' = {} /\ order' \in Seq(Entity) /\ IsInjective(order')
         /\ id' \in [Entity -> Nat] /\ tags' \in [Entity -> SUBSET Tag]
         /\ transforms' \in [Entity -> Seq(Position)] /\ tagged' \in [Tag -> SUBSET Entity]
         /\ \A t \in Tag : tagged'[t] = {x \in tagged[t] : x \in InScene => t \notin tags[x]}
<1>1. <<>> \in Seq(Entity) /\ DOMAIN <<>> = {} /\ IsInjective(<<>>) /\ ToSet(<<>>) = {}
  BY DEF IsInjective, ToSet
<1> QED BY <1>1, ReplacedFacts

-----------------------------------------------------------------------------
(***************************************************************************)
(* Types.                                                                  *)
(***************************************************************************)

LEMMA TypesInit == Init => TypeOK
<1> SUFFICES ASSUME Init PROVE TypeOK
  OBVIOUS
<1>1. <<>> \in Seq(Entity) /\ IsInjective(<<>>)
  BY DEF IsInjective
<1>2. <<>> \in Seq(Position)
  OBVIOUS
<1> QED BY <1>1, <1>2 DEF Init, TypeOK

LEMMA SaveTypes ==
  ASSUME TypeOK
  PROVE  [i \in DOMAIN order |-> Record(order[i])] \in Seq(Saved)
<1>1. order \in Seq(Entity) /\ \A i \in DOMAIN order : order[i] \in Entity
  BY DEF TypeOK
<1>2. \A e \in Entity : Record(e) \in Saved
  BY DEF Record, Saved, TypeOK
<1> QED BY <1>1, <1>2

LEMMA EditTypes ==
  ASSUME TypeOK, EditFile
  PROVE  file' \in [entities : Seq(Saved), automatic : BOOLEAN]
<1> DEFINE s == file.entities
           x == [s[2] EXCEPT !.id = s[1].id]
<1>1. file \in [entities : Seq(Saved), automatic : BOOLEAN] /\ s \in Seq(Saved) /\ Len(s) > 1
  BY DEF EditFile, TypeOK
<1>2. s[1] \in Saved /\ s[2] \in Saved
  BY <1>1
<1>3. x \in Saved
  BY <1>2 DEF Saved
<1>4. file' = [file EXCEPT !.entities = [s EXCEPT ![2] = x]]
  BY DEF EditFile
<1> HIDE DEF x, s
<1>5. [s EXCEPT ![2] = x] \in Seq(Saved)
  BY <1>1, <1>3
<1> QED BY <1>1, <1>4, <1>5

\* The list after a creation, and after a destruction.
LEMMA CreateOrder ==
  ASSUME TypeOK, NEW e \in Entity, NEW p \in Position, CreateEntity(e, p)
  PROVE  order' \in Seq(Entity) /\ IsInjective(order') /\ InScene' = InScene \union {e}
<1>1. order \in Seq(Entity) /\ IsInjective(order) /\ e \notin ToSet(order) /\ order' = Append(order, e)
  BY DEF CreateEntity, TypeOK, InScene
<1>2. Entity \union {e} = Entity
  OBVIOUS
<1> QED BY <1>1, <1>2, AppendNew DEF InScene

LEMMA DestroyOrder ==
  ASSUME TypeOK, NEW e \in Entity, DestroyEntity(e)
  PROVE  order' \in Seq(Entity) /\ IsInjective(order') /\ InScene' = InScene \ {e}
<1>1. order \in Seq(Entity) /\ IsInjective(order) /\ order' = RemoveFirst(order, e)
  BY DEF DestroyEntity, TypeOK
<1>2. /\ order' \in Seq(Entity \ {e}) /\ IsInjective(order')
      /\ ToSet(order') = ToSet(order) \ {e}
  BY <1>1, RemoveOnly
<1>3. \A s \in Seq(Entity \ {e}) : s \in Seq(Entity)
  OBVIOUS
<1> QED BY <1>2, <1>3 DEF InScene

LEMMA TypesStep == TypeOK /\ [Next]_vars => TypeOK'
<1> SUFFICES ASSUME TypeOK, [Next]_vars PROVE TypeOK'
  OBVIOUS
<1>1. ASSUME NEW e \in Entity, NEW p \in Position, CreateEntity(e, p) PROVE TypeOK'
  <2>1. [i \in DOMAIN Created |-> p] \in Seq(Position)
    BY CreatedTypes
  <2>2. transforms' \in [Entity -> Seq(Position)]
    BY <1>1, <2>1 DEF CreateEntity, TypeOK
  <2>3. nextID \in Nat /\ id' \in [Entity -> Nat] /\ nextID' \in Nat /\ tags' \in [Entity -> SUBSET Tag]
    BY <1>1 DEF CreateEntity, TypeOK
  <2> QED BY <1>1, <2>2, <2>3, CreateOrder DEF CreateEntity, TypeOK
<1>2. ASSUME NEW e \in Entity, DestroyEntity(e) PROVE TypeOK'
  <2>1. <<>> \in Seq(Position)
    OBVIOUS
  <2>2. /\ transforms' \in [Entity -> Seq(Position)] /\ id' \in [Entity -> Nat]
        /\ tags' \in [Entity -> SUBSET Tag] /\ tagged' \in [Tag -> SUBSET Entity]
    BY <1>2, <2>1 DEF DestroyEntity, TypeOK
  <2> QED BY <1>2, <2>2, DestroyOrder DEF DestroyEntity, TypeOK
<1>3. ASSUME NEW e \in Entity, AddTransform(e) PROVE TypeOK'
  <2>1. Append(transforms[e], Origin) \in Seq(Position)
    BY ConstantsAssumption DEF TypeOK
  <2>2. transforms' = [transforms EXCEPT ![e] = Append(transforms[e], Origin)]
    BY <1>3 DEF AddTransform
  <2>3. transforms' \in [Entity -> Seq(Position)]
    BY <2>1, <2>2 DEF TypeOK
  <2> QED BY <1>3, <2>3 DEF AddTransform, TypeOK
<1>4. ASSUME NEW e \in Entity, NEW p \in Position, Move(e, p) PROVE TypeOK'
  <2>1. transforms[e] \in Seq(Position) /\ transforms[e] # <<>>
    BY <1>4 DEF Move, TypeOK
  <2>2. [transforms[e] EXCEPT ![1] = p] \in Seq(Position)
    BY <2>1
  <2>3. transforms' = [transforms EXCEPT ![e] = [transforms[e] EXCEPT ![1] = p]]
    BY <1>4 DEF Move
  <2>4. transforms' \in [Entity -> Seq(Position)]
    BY <2>2, <2>3 DEF TypeOK
  <2> QED BY <1>4, <2>4 DEF Move, TypeOK
<1>5. ASSUME NEW e \in Entity, NEW t \in Tag, AddTag(e, t) \/ RemoveTag(e, t) PROVE TypeOK'
  <2>1. tags \in [Entity -> SUBSET Tag] /\ tagged \in [Tag -> SUBSET Entity]
    BY DEF TypeOK
  <2>2. tags[e] \union {t} \in SUBSET Tag /\ tags[e] \ {t} \in SUBSET Tag
        /\ tagged[t] \union {e} \in SUBSET Entity /\ tagged[t] \ {e} \in SUBSET Entity
    BY <2>1
  <2>3. tags' \in [Entity -> SUBSET Tag]
    BY <1>5, <2>1, <2>2 DEF AddTag, RemoveTag
  <2>4. tagged' \in [Tag -> SUBSET Entity]
    BY <1>5, <2>1, <2>2 DEF AddTag, RemoveTag, OnEntityTagged, OnEntityUntagged
  <2> QED BY <1>5, <2>3, <2>4 DEF AddTag, RemoveTag, TypeOK
<1>6. ASSUME NEW on \in BOOLEAN, SetAutomatic(on) PROVE TypeOK'
  BY <1>6 DEF SetAutomatic, TypeOK
<1>7. CASE Clear
  BY <1>7, ClearFacts DEF Clear, TypeOK
<1>8. CASE Save
  <2>1. automatic \in BOOLEAN
    BY DEF TypeOK
  <2>2. file' \in [entities : Seq(Saved), automatic : BOOLEAN]
    BY <1>8, <2>1, SaveTypes DEF Save
  <2> QED BY <1>8, <2>2 DEF Save, TypeOK
<1>9. CASE EditFile
  <2>1. file' \in [entities : Seq(Saved), automatic : BOOLEAN]
    BY <1>9, EditTypes
  <2> QED BY <1>9, <2>1 DEF EditFile, TypeOK
<1>10. CASE Load
  <2>1. file.entities \in Seq(Saved) /\ file.automatic \in BOOLEAN
    BY <1>10, LoadFacts
  <2>2. NextIDOf(file.entities) \in Nat
    <3>1. CASE file.entities = <<>>
      BY <3>1 DEF NextIDOf
    <3>2. CASE file.entities # <<>>
      BY <2>1, <3>2, GreatestID
    <3> QED BY <3>1, <3>2
  <2> QED BY <1>10, <2>1, <2>2, LoadFacts DEF TypeOK
<1>11. CASE LoadFromFile
  BY <1>11, ClearFacts DEF LoadFromFile, TypeOK
<1>12. CASE UNCHANGED vars
  BY <1>12 DEF vars, TypeOK
<1> QED
  BY <1>1, <1>2, <1>3, <1>4, <1>5, <1>6, <1>7, <1>8, <1>9, <1>10, <1>11, <1>12 DEF Next

\* The state keeps its types, and an entity is once in the list of its scene.
THEOREM TypeCorrect == Spec => []TypeOK
  BY TypesInit, TypesStep, PTL DEF Spec

-----------------------------------------------------------------------------
(***************************************************************************)
(* Identifiers.  The invariant is inductive with the types: what a load    *)
(* makes of the identifiers does not depend on those that the scene had.   *)
(***************************************************************************)

LEMMA IdentifiersStep == TypeOK /\ IdentifiersUnique /\ [Next]_vars => IdentifiersUnique'
<1> SUFFICES ASSUME TypeOK, IdentifiersUnique, [Next]_vars, "conflict" \notin taken'
             PROVE  /\ \A a, b \in InScene' : id'[a] = id'[b] => a = b
                    /\ \A a \in InScene' : id'[a] < nextID'
  BY DEF IdentifiersUnique
<1>1. InScene \subseteq Entity
  BY DEF InScene, ToSet, TypeOK
<1>2. ASSUME "conflict" \notin taken
      PROVE  /\ \A a, b \in InScene : id[a] = id[b] => a = b
             /\ \A a \in InScene : id[a] < nextID
  BY <1>2 DEF IdentifiersUnique
<1>3. ASSUME NEW e \in Entity, NEW p \in Position, CreateEntity(e, p)
      PROVE  /\ \A a, b \in InScene' : id'[a] = id'[b] => a = b
             /\ \A a \in InScene' : id'[a] < nextID'
  <2>1. InScene' = InScene \union {e}
    BY <1>3, CreateOrder
  <2>2. e \notin InScene /\ nextID' = nextID + 1 /\ taken' = taken
    BY <1>3 DEF CreateEntity
  <2>3. id'[e] = nextID /\ \A a \in InScene : id'[a] = id[a]
    BY <1>1, <1>3, <2>2 DEF CreateEntity, TypeOK
  <2>4. nextID \in Nat /\ \A a \in InScene : id[a] \in Nat
    BY <1>1 DEF TypeOK
  <2> QED BY <1>2, <2>1, <2>2, <2>3, <2>4
<1>4. ASSUME NEW e \in Entity, DestroyEntity(e)
      PROVE  /\ \A a, b \in InScene' : id'[a] = id'[b] => a = b
             /\ \A a \in InScene' : id'[a] < nextID'
  <2>1. InScene' = InScene \ {e}
    BY <1>4, DestroyOrder
  <2>2. taken' = taken /\ nextID' = nextID /\ \A a \in InScene \ {e} : id'[a] = id[a]
    BY <1>1, <1>4 DEF DestroyEntity, TypeOK
  <2> QED BY <1>2, <2>1, <2>2
<1>5. ASSUME UNCHANGED <<order, id, nextID, taken>>
      PROVE  /\ \A a, b \in InScene' : id'[a] = id'[b] => a = b
             /\ \A a \in InScene' : id'[a] < nextID'
  BY <1>2, <1>5 DEF InScene
<1>6. CASE Clear \/ LoadFromFile
  <2>1. InScene' = {}
    BY <1>6, ClearFacts DEF Clear, LoadFromFile
  <2> QED BY <2>1
<1>7. CASE Load
  <2> DEFINE s == file.entities
  <2>1. /\ s \in Seq(Saved) /\ nextID' = NextIDOf(s) /\ ~HasConflict(s)
        /\ DOMAIN order' = DOMAIN s
        /\ \A i \in DOMAIN order' : id'[order'[i]] = Restored(s, i).id
        /\ InScene' = {order'[i] : i \in DOMAIN order'}
    BY <1>7, LoadFacts
  <2> HIDE DEF s
  <2>2. \A i \in DOMAIN s : ~Conflicting(s, i)
    BY <2>1 DEF HasConflict
  <2>3. \A i \in DOMAIN s : id'[order'[i]] = s[i].id
    BY <2>1, <2>2, RestoredTypes
  <2>4. ASSUME NEW i \in DOMAIN s, NEW j \in DOMAIN s, s[i].id = s[j].id
        PROVE  i = j
    <3>1. i \in Nat /\ j \in Nat /\ i >= 1 /\ j >= 1
      BY <2>1
    <3>2. ~(i < j) /\ ~(j < i)
      BY <2>2, <2>4, <3>1 DEF Conflicting
    <3> QED BY <3>1, <3>2
  <2>5. \A i \in DOMAIN s : id'[order'[i]] < nextID'
    <3>1. CASE s = <<>>
      BY <3>1
    <3>2. CASE s # <<>>
      BY <2>1, <2>3, <3>2, GreatestID
    <3> QED BY <3>1, <3>2
  <2>6. ASSUME NEW a \in InScene', NEW b \in InScene', id'[a] = id'[b]
        PROVE  a = b
    <3>1. PICK i \in DOMAIN s, j \in DOMAIN s : order'[i] = a /\ order'[j] = b
      BY <2>1
    <3> QED BY <2>3, <2>4, <2>6, <3>1
  <2> QED BY <2>1, <2>5, <2>6
<1>8. CASE \/ \E e \in Entity : AddTransform(e) \/ \E p \in Position : Move(e, p)
           \/ \E e \in Entity, t \in Tag : AddTag(e, t) \/ RemoveTag(e, t)
           \/ \E on \in BOOLEAN : SetAutomatic(on)
           \/ Save \/ EditFile \/ UNCHANGED vars
  <2>1. UNCHANGED <<order, id, nextID, taken>>
    BY <1>8 DEF AddTransform, Move, AddTag, RemoveTag, SetAutomatic, Save, EditFile, vars
  <2> QED BY <1>5, <2>1
<1> QED BY <1>3, <1>4, <1>6, <1>7, <1>8 DEF Next

\* Scene::createEntity, unserialize and computedNextID: for any number of entities and
\* after any sequence of creations, destructions, saves and loads without a conflict,
\* an identifier is unique in the scene and the counter is ahead of all of them.
THEOREM IdentifiersStayUnique == Spec => []IdentifiersUnique
<1>1. Init => IdentifiersUnique
  BY DEF Init, IdentifiersUnique, InScene, ToSet
<1> QED BY <1>1, TypeCorrect, IdentifiersStep, PTL DEF Spec

-----------------------------------------------------------------------------
(***************************************************************************)
(* Tags.  A load empties the index, for it has held only entities of the   *)
(* scene, each of which tells the manager when it is destroyed.            *)
(***************************************************************************)

LEMMA TagsStep == TypeOK /\ TagIndexExact /\ [Next]_vars => TagIndexExact'
<1> SUFFICES ASSUME TypeOK, TagIndexExact, [Next]_vars, NEW t \in Tag
             PROVE  /\ tagged'[t] \subseteq {e \in InScene' : t \in tags'[e]}
                    /\ "load" \notin taken' => tagged'[t] = {e \in InScene' : t \in tags'[e]}
  BY DEF TagIndexExact
<1>1. /\ tagged[t] \subseteq {e \in InScene : t \in tags[e]}
      /\ "load" \notin taken => tagged[t] = {e \in InScene : t \in tags[e]}
      /\ InScene \subseteq Entity
      /\ tags \in [Entity -> SUBSET Tag] /\ tagged \in [Tag -> SUBSET Entity]
  BY DEF TagIndexExact, InScene, ToSet, TypeOK
<1> DEFINE Kept == /\ tagged'[t] \subseteq {e \in InScene' : t \in tags'[e]}
                   /\ "load" \notin taken' => tagged'[t] = {e \in InScene' : t \in tags'[e]}
<1>2. ASSUME NEW e \in Entity, NEW p \in Position, CreateEntity(e, p) PROVE Kept
  <2>1. /\ InScene' = InScene \union {e} /\ e \notin InScene
        /\ tagged' = tagged /\ taken' = taken /\ tags' = [tags EXCEPT ![e] = {}]
    BY <1>2, CreateOrder DEF CreateEntity
  <2>2. tags'[e] = {} /\ \A x \in InScene : tags'[x] = tags[x]
    BY <1>1, <2>1
  <2>3. {x \in InScene' : t \in tags'[x]} = {x \in InScene : t \in tags[x]}
    BY <2>1, <2>2
  <2> QED BY <1>1, <2>1, <2>3
<1>3. ASSUME NEW e \in Entity, DestroyEntity(e) PROVE Kept
  <2>1. /\ InScene' = InScene \ {e} /\ taken' = taken /\ tags' = [tags EXCEPT ![e] = {}]
        /\ tagged'[t] = IF t \in tags[e] THEN tagged[t] \ {e} ELSE tagged[t]
    BY <1>3, DestroyOrder DEF DestroyEntity
  <2>2. \A x \in InScene \ {e} : tags'[x] = tags[x]
    BY <1>1, <2>1
  <2>3. {x \in InScene' : t \in tags'[x]} = {x \in InScene : t \in tags[x]} \ {e}
    BY <2>1, <2>2
  <2>4. tagged'[t] = tagged[t] \ {e}
    BY <1>1, <2>1
  <2> HIDE DEF Kept
  <2>5. tagged'[t] \subseteq {x \in InScene' : t \in tags'[x]}
    BY <1>1, <2>3, <2>4
  <2>6. "load" \notin taken' => tagged'[t] = {x \in InScene' : t \in tags'[x]}
    BY <1>1, <2>1, <2>3, <2>4
  <2> QED BY <2>5, <2>6 DEF Kept
<1>4. ASSUME NEW e \in Entity, NEW u \in Tag, AddTag(e, u) PROVE Kept
  <2>1. /\ e \in InScene /\ InScene' = InScene /\ taken' = taken
        /\ tags' = [tags EXCEPT ![e] = tags[e] \union {u}]
        /\ tagged' = [tagged EXCEPT ![u] = tagged[u] \union {e}]
    BY <1>4 DEF AddTag, OnEntityTagged, InScene
  <2>2. tags'[e] = tags[e] \union {u} /\ \A x \in InScene \ {e} : tags'[x] = tags[x]
    BY <1>1, <2>1
  <2>3. tagged'[t] = IF t = u THEN tagged[t] \union {e} ELSE tagged[t]
    BY <1>1, <2>1
  <2>4. {x \in InScene' : t \in tags'[x]}
          = IF t = u THEN {x \in InScene : t \in tags[x]} \union {e}
            ELSE {x \in InScene : t \in tags[x]}
    BY <2>1, <2>2
  <2> QED BY <1>1, <2>1, <2>3, <2>4
<1>5. ASSUME NEW e \in Entity, NEW u \in Tag, RemoveTag(e, u) PROVE Kept
  <2>1. /\ e \in InScene /\ InScene' = InScene /\ taken' = taken
        /\ tags' = [tags EXCEPT ![e] = tags[e] \ {u}]
        /\ tagged' = [tagged EXCEPT ![u] = tagged[u] \ {e}]
    BY <1>5 DEF RemoveTag, OnEntityUntagged, InScene
  <2>2. tags'[e] = tags[e] \ {u} /\ \A x \in InScene \ {e} : tags'[x] = tags[x]
    BY <1>1, <2>1
  <2>3. tagged'[t] = IF t = u THEN tagged[t] \ {e} ELSE tagged[t]
    BY <1>1, <2>1
  <2>4. {x \in InScene' : t \in tags'[x]}
          = IF t = u THEN {x \in InScene : t \in tags[x]} \ {e}
            ELSE {x \in InScene : t \in tags[x]}
    BY <2>1, <2>2
  <2> QED BY <1>1, <2>1, <2>3, <2>4
<1>6. CASE Clear \/ LoadFromFile
  <2>1. /\ InScene' = {}
        /\ tagged'[t] = {x \in tagged[t] : x \in InScene => t \notin tags[x]}
    BY <1>6, ClearFacts DEF Clear, LoadFromFile
  <2> QED BY <1>1, <2>1
<1>7. CASE Load
  <2>1. /\ "load" \in taken'
        /\ tagged'[t] = {x \in tagged[t] : x \in InScene => t \notin tags[x]}
    BY <1>7, LoadFacts
  <2> QED BY <1>1, <2>1
<1>8. CASE \/ \E e \in Entity : AddTransform(e) \/ \E p \in Position : Move(e, p)
           \/ \E on \in BOOLEAN : SetAutomatic(on)
           \/ Save \/ EditFile \/ UNCHANGED vars
  <2>1. UNCHANGED <<order, tags, tagged, taken>>
    BY <1>8 DEF AddTransform, Move, SetAutomatic, Save, EditFile, vars
  <2> QED BY <1>1, <2>1 DEF InScene
<1> QED BY <1>2, <1>3, <1>4, <1>5, <1>6, <1>7, <1>8 DEF Next

\* TagManager and ~Entity: the entities of a tag are entities of the scene that have it,
\* for any tags and addresses, even after a load; and all of them until the first load.
THEOREM TagsAreIndexed == Spec => []TagIndexExact
<1>1. Init => TagIndexExact
  BY DEF Init, TagIndexExact, InScene, ToSet
<1> QED BY <1>1, TypeCorrect, TagsStep, PTL DEF Spec

-----------------------------------------------------------------------------
(***************************************************************************)
(* Loading.  What createEntity adds comes before what the file says.       *)
(***************************************************************************)

LEMMA LoadStep ==
  ASSUME TypeOK, Load
  PROVE  /\ Len(order') = Len(file.entities)
         /\ \A i \in DOMAIN file.entities : ~Conflicting(file.entities, i) =>
              LET e == order'[i]
                  s == file.entities[i]
              IN  /\ id'[e] = s.id /\ tags'[e] = s.tags
                  /\ (IF automatic THEN Tail(transforms'[e]) ELSE transforms'[e])
                       = s.transforms
<1> DEFINE s == file.entities
<1>1. s \in Seq(Saved) /\ order' \in Seq(Entity) /\ DOMAIN order' = DOMAIN s
  BY LoadFacts
<1>2. Len(order') = Len(s)
  BY <1>1
<1>3. ASSUME NEW i \in DOMAIN s, ~Conflicting(s, i)
      PROVE  /\ id'[order'[i]] = s[i].id /\ tags'[order'[i]] = s[i].tags
             /\ (IF automatic THEN Tail(transforms'[order'[i]]) ELSE transforms'[order'[i]])
                  = s[i].transforms
  <2> DEFINE r == Restored(s, i)
             e == order'[i]
  <2>1. id'[e] = r.id /\ tags'[e] = r.tags /\ transforms'[e] = r.transforms
    BY <1>1, <1>3, LoadFacts
  <2>2. /\ r.id = s[i].id /\ r.tags = s[i].tags
        /\ (IF automatic THEN Tail(r.transforms) ELSE r.transforms) = s[i].transforms
    BY <1>1, <1>3, RestoredTypes
  <2> HIDE DEF r, s
  <2> QED BY <2>1, <2>2
<1> HIDE DEF s
<1> QED BY <1>2, <1>3 DEF s

\* Scene::serialize and unserialize: a load restores the entities of the file that meet
\* no conflict, in their order, with their identifiers, tags and transforms, for any
\* number of entities and whatever the scene held before.
THEOREM LoadRestoresEntities == Spec => LoadRestores
<1>1. TypeOK /\ [Next]_vars =>
        [Load =>
           /\ Len(order') = Len(file.entities)
           /\ \A i \in DOMAIN file.entities : ~Conflicting(file.entities, i) =>
                LET e == order'[i]
                    s == file.entities[i]
                IN  /\ id'[e] = s.id /\ tags'[e] = s.tags
                    /\ (IF automatic THEN Tail(transforms'[e]) ELSE transforms'[e])
                         = s.transforms]_vars
  BY LoadStep
<1> QED BY <1>1, TypeCorrect, PTL DEF Spec, LoadRestores
=============================================================================

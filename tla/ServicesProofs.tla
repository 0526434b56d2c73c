--------------------------- MODULE ServicesProofs ----------------------------
(***************************************************************************)
(* Proofs about what the scene and the games use and does not depend on    *)
(* them: the audio sources, the asset bank and the maze generator.  The    *)
(* three specifications share no name.                                     *)
(***************************************************************************)
EXTENDS AudioPool, AssetBank, MazeGenerator, FiniteSetTheorems, TLAPS

-----------------------------------------------------------------------------
(***************************************************************************)
(* The audio sources, for any number of emitters and sources.  The         *)
(* inductive invariant joins the two records of who has a source: a        *)
(* reference implies ownership (RefsAreOwned) and a sound implies a        *)
(* reference (SoundsAreHeld).                                              *)
(***************************************************************************)

\* A source that plays is referenced by the emitter its emitterRef names.
SoundsAreHeld ==
  \A s \in Source : status[s] = "playing" => owner[s] \in live /\ s \in refs[owner[s]]

IInv == TypeOK /\ RefsAreOwned /\ SoundsAreHeld

\* The pool starts silent, with nothing attached.
LEMMA InitIInv == Init => IInv
BY ConstantsAssumption DEF Init, IInv, TypeOK, RefsAreOwned, SoundsAreHeld, Status

\* Every operation of the audio system keeps references, ownership and sounds
\* consistent.
LEMMA NextIInv == IInv /\ [Next]_vars => IInv'
<1> SUFFICES ASSUME IInv, [Next]_vars PROVE IInv'
  OBVIOUS
<1> USE ConstantsAssumption DEF IInv, TypeOK, Status
<1>1. ASSUME NEW e \in Emitter, Add(e) PROVE IInv'
  BY <1>1 DEF Add, RefsAreOwned, SoundsAreHeld
<1>2. ASSUME NEW e \in Emitter, Destroy(e) PROVE IInv'
  <2> DEFINE mine == IF refs[e] = {} THEN {} ELSE {s \in Source : owner[s] = e}
  <2>1. refs[e] \subseteq mine
    BY DEF RefsAreOwned
  <2>2. /\ live' = live \ {e}
        /\ owner' = [s \in Source |-> IF s \in mine THEN Nobody ELSE owner[s]]
        /\ refs' = [refs EXCEPT ![e] = @ \ mine]
        /\ status' = Silenced(mine)
        /\ looping' = looping /\ fault' = fault /\ dropped' = dropped
    BY <1>2 DEF Destroy, Attached
  <2>3. refs'[e] = {}
    BY <2>1, <2>2
  <2>4. TypeOK'
    BY <2>2, <2>3 DEF Silenced
  <2>5. RefsAreOwned'
    BY <2>2, <2>3 DEF RefsAreOwned
  <2>6. SoundsAreHeld'
    BY <2>1, <2>2 DEF SoundsAreHeld, Silenced
  <2> QED BY <2>4, <2>5, <2>6
<1>3. ASSUME NEW e \in Emitter, Stop(e) PROVE IInv'
  <2>1. TypeOK' /\ RefsAreOwned'
    BY <1>3 DEF Stop, Silenced, RefsAreOwned
  <2>2. SoundsAreHeld'
    BY <1>3 DEF Stop, Silenced, SoundsAreHeld
  <2> QED BY <2>1, <2>2
<1>4. ASSUME NEW e \in Emitter, NEW loop \in BOOLEAN, Play(e, loop) PROVE IInv'
  <2>1. CASE Reuse(e, loop)
    BY <1>4, <2>1 DEF Play, Reuse, Begin, Idle, RefsAreOwned, SoundsAreHeld
  <2>2. CASE RequestSource(e, loop)
    <3> PICK s \in Source :
          /\ FirstIdle(s)
          /\ owner' = [owner EXCEPT ![s] = e]
          /\ refs' = [x \in Emitter |-> IF x = e THEN refs[x] \cup {s}
                                        ELSE IF x = owner[s] THEN refs[x] \ {s}
                                        ELSE refs[x]]
          /\ dropped' = dropped \ {s}
          /\ Begin(s, loop)
      BY <2>2 DEF RequestSource
    <3>1. e \in live /\ live' = live /\ fault' = fault /\ status[s] = "stopped"
      BY <1>4 DEF Play, FirstIdle, Idle
    <3>2. TypeOK'
      BY <3>1 DEF Begin, RefsAreOwned
    <3>3. RefsAreOwned'
      BY <3>1 DEF RefsAreOwned
    <3>4. SoundsAreHeld'
      BY <3>1 DEF SoundsAreHeld, Begin
    <3> QED BY <3>2, <3>3, <3>4
  <2> QED BY <1>4, <2>1, <2>2 DEF Play
<1>5. ASSUME NEW s \in Source, SoundEnds(s) PROVE IInv'
  BY <1>5 DEF SoundEnds, RefsAreOwned, SoundsAreHeld
<1>6. CASE Crash
  BY <1>6 DEF Crash, RefsAreOwned, SoundsAreHeld
<1>7. CASE UNCHANGED vars
  BY <1>7 DEF vars, RefsAreOwned, SoundsAreHeld
<1> QED BY <1>1, <1>2, <1>3, <1>4, <1>5, <1>6, <1>7 DEF Next

\* The invariant holds in every reachable state.
LEMMA IInvHolds == Spec => []IInv
BY InitIInv, NextIInv, PTL DEF Spec

\* Whatever the game does, the state keeps its types and a destroyed emitter
\* holds no source.
THEOREM TypeCorrect == Spec => []TypeOK
<1>1. IInv => TypeOK
  BY DEF IInv
<1> QED BY <1>1, IInvHolds, PTL

\* Whatever the game does, a source is held by no emitter but its owner.
THEOREM SourcesAreExclusive == Spec => []RefsAreOwned
<1>1. IInv => RefsAreOwned
  BY DEF IInv
<1> QED BY <1>1, IInvHolds, PTL

\* Whatever the game does, every sound can be stopped by a live emitter.
THEOREM SoundsHaveAnEmitter == Spec => []NoOrphanSound
<1>1. IInv => NoOrphanSound
  BY DEF IInv, SoundsAreHeld, NoOrphanSound
<1> QED BY <1>1, IInvHolds, PTL

-----------------------------------------------------------------------------
(***************************************************************************)
(* An owner holds its source until it drops it by stop, so that onDestroy  *)
(* detaches it.                                                            *)
(***************************************************************************)
OwnersHold ==
  \A s \in Source :
    owner[s] # Nobody => s \in dropped \/ (owner[s] \in live /\ s \in refs[owner[s]])

HoldInv == IInv /\ OwnersHold

\* Whatever the game does, only AudioEmitter::stop can leave in a source the
\* address of an emitter that is then destroyed.
THEOREM DanglingComesFromStop == Spec => []OnlyStopLeavesDangling
<1>1. Init => HoldInv
  BY InitIInv DEF HoldInv, OwnersHold, Init
<1>2. HoldInv /\ [Next]_vars => HoldInv'
  <2> SUFFICES ASSUME HoldInv, [Next]_vars PROVE OwnersHold'
    BY NextIInv DEF HoldInv
  <2> USE ConstantsAssumption DEF HoldInv, IInv, TypeOK, OwnersHold
  <2>1. ASSUME NEW e \in Emitter, Add(e) PROVE OwnersHold'
    BY <2>1 DEF Add
  <2>2. ASSUME NEW e \in Emitter, Destroy(e) PROVE OwnersHold'
    BY <2>2 DEF Destroy, Attached
  <2>3. ASSUME NEW e \in Emitter, Stop(e) PROVE OwnersHold'
    BY <2>3 DEF Stop
  <2>4. ASSUME NEW e \in Emitter, NEW loop \in BOOLEAN, Play(e, loop)
        PROVE  OwnersHold'
    BY <2>4 DEF Play, Reuse, RequestSource, FirstIdle, Idle
  <2>5. ASSUME NEW s \in Source, SoundEnds(s) PROVE OwnersHold'
    BY <2>5 DEF SoundEnds
  <2>6. CASE Crash
    BY <2>6 DEF Crash
  <2>7. CASE UNCHANGED vars
    BY <2>7 DEF vars
  <2> QED BY <2>1, <2>2, <2>3, <2>4, <2>5, <2>6, <2>7 DEF Next
<1>3. HoldInv => OnlyStopLeavesDangling
  BY DEF HoldInv, OwnersHold, OnlyStopLeavesDangling
<1> QED BY <1>1, <1>2, <1>3, PTL DEF Spec

-----------------------------------------------------------------------------
(***************************************************************************)
(* Refinement of SourcePool.                                               *)
(***************************************************************************)

\* The audio system implements the pool of exclusive sources, whatever the game
\* does.
THEOREM ImplementsSourcePool == Spec => PoolSpec
<1>1. Init => Pool!Init
  BY DEF Init, Pool!Init, Sounding
<1>2. IInv /\ [Next]_vars => [Pool!Next]_Sounding
  <2> SUFFICES ASSUME IInv, [Next]_vars PROVE Pool!Next \/ Sounding' = Sounding
    OBVIOUS
  <2> USE ConstantsAssumption DEF IInv, TypeOK, Status, Sounding
  <2>1. ASSUME NEW e \in Emitter, Add(e) PROVE Sounding' = Sounding
    BY <2>1 DEF Add
  <2>2. ASSUME NEW e \in Emitter, Destroy(e) PROVE Pool!Cut(e)
    BY <2>2 DEF Destroy, Attached, Pool!Cut, Silenced, SoundsAreHeld
  <2>3. ASSUME NEW e \in Emitter, Stop(e) PROVE Pool!Cut(e)
    BY <2>3 DEF Stop, Pool!Cut, Silenced, SoundsAreHeld, RefsAreOwned
  <2>4. ASSUME NEW e \in Emitter, NEW loop \in BOOLEAN, Play(e, loop) PROVE Pool!Next
    <3>1. CASE Reuse(e, loop)
      <4> PICK s \in refs[e] \cap Idle : Begin(s, loop) /\ UNCHANGED <<refs, owner>>
        BY <3>1 DEF Reuse
      <4>1. s \in Source /\ owner[s] = e /\ status[s] = "stopped" /\ owner' = owner
        BY DEF Idle, RefsAreOwned
      <4>2. status' = [status EXCEPT ![s] = "playing"]
        BY DEF Begin
      <4>3. Pool!Start(e, s)
        BY <4>1, <4>2 DEF Pool!Start
      <4> QED BY <4>1, <4>3 DEF Pool!Next
    <3>2. CASE RequestSource(e, loop)
      <4> PICK s \in Source :
            FirstIdle(s) /\ owner' = [owner EXCEPT ![s] = e] /\ Begin(s, loop)
        BY <3>2 DEF RequestSource
      <4>1. Pool!Start(e, s)
        BY DEF Begin, FirstIdle, Idle, Pool!Start
      <4> QED BY <4>1 DEF Pool!Next
    <3> QED BY <2>4, <3>1, <3>2 DEF Play
  <2>5. ASSUME NEW s \in Source, SoundEnds(s) PROVE Pool!End(s)
    BY <2>5 DEF SoundEnds, Pool!End
  <2>6. CASE Crash
    BY <2>6 DEF Crash
  <2>7. CASE UNCHANGED vars
    BY <2>7 DEF vars
  <2> QED BY <2>1, <2>2, <2>3, <2>4, <2>5, <2>6, <2>7 DEF Next, Pool!Next
<1> QED BY <1>1, <1>2, IInvHolds, PTL DEF Spec, PoolSpec, Pool!Spec

-----------------------------------------------------------------------------
(***************************************************************************)
(* What a scan lists.                                                      *)
(***************************************************************************)

\* Types of what a scan and the maps depend on.
BankOK ==
  /\ disk \in [Files -> {"good", "broken", "absent"}]
  /\ manifest = Nil \/ manifest \in Entries
  /\ maps \in Entries
  /\ last \in [rescan : BOOLEAN, ok : BOOLEAN, seen : SUBSET Files, listed : Entries]

\* Of the files of a type with a base name, exactly one is the first.
LEMMA FirstIsUnique ==
  ASSUME NEW seen \in SUBSET Files, NEW firsts \in Firsts(seen),
         NEW t \in Types, NEW n \in Names, Homonyms(seen, t, n) # {}
  PROVE  \E f \in Homonyms(seen, t, n) :
           f \in firsts /\ \A g \in Homonyms(seen, t, n) : g \in firsts => g = f
<1> DEFINE S == firsts \cap Homonyms(seen, t, n)
<1>1. IsFiniteSet(S)
  <2>1. Homonyms(seen, t, n) \subseteq Files
    BY DEF Homonyms
  <2> QED BY <2>1, BankAssumption, FS_Subset
<1>2. Cardinality(S) = 1
  BY DEF Firsts
<1>3. PICK f : S = {f}
  BY <1>1, <1>2, FS_Singleton
<1> QED BY <1>3

\* A name that a scan lists is the base name of a file, the first with this name, or
\* the path of one that is not.
LEMMA ScannedIs ==
  ASSUME NEW seen \in SUBSET Files, NEW firsts \in Firsts(seen),
         NEW t \in Types, NEW n \in Names, Scanned(seen, firsts)[t][n] # Nil
  PROVE  LET f == Scanned(seen, firsts)[t][n]
         IN  /\ f \in Files /\ TypeOf[f] = t
             /\ (f \in firsts /\ BaseName[f] = n) \/ (f \notin firsts /\ f = n)
<1> DEFINE entry == Scanned(seen, firsts)[t][n]
<1>1. entry =
        IF Homonyms(seen, t, n) # {}
          THEN CHOOSE f \in Homonyms(seen, t, n) : f \in firsts
        ELSE IF n \in seen \ firsts /\ TypeOf[n] = t THEN n
        ELSE Nil
  BY DEF Scanned
<1>2. CASE Homonyms(seen, t, n) # {}
  <2>1. \E f \in Homonyms(seen, t, n) : f \in firsts
    BY <1>2, FirstIsUnique
  <2>2. entry \in Homonyms(seen, t, n) /\ entry \in firsts
    BY <1>1, <1>2, <2>1
  <2> QED BY <2>2 DEF Homonyms
<1>3. CASE Homonyms(seen, t, n) = {}
  BY <1>1, <1>3
<1> QED BY <1>2, <1>3

LEMMA ScannedType ==
  ASSUME NEW seen \in SUBSET Files, NEW firsts \in Firsts(seen)
  PROVE  Scanned(seen, firsts) \in Entries
<1>1. \A t \in Types, n \in Names : Scanned(seen, firsts)[t][n] \in Files \union {Nil}
  BY ScannedIs
<1> DEFINE Name(t, n) ==
      IF Homonyms(seen, t, n) # {}
        THEN CHOOSE f \in Homonyms(seen, t, n) : f \in firsts
      ELSE IF n \in seen \ firsts /\ TypeOf[n] = t THEN n
      ELSE Nil
<1>2. Scanned(seen, firsts) = [t \in Types |-> [n \in Names |-> Name(t, n)]]
  BY DEF Scanned
<1> HIDE DEF Name
<1> QED BY <1>1, <1>2 DEF Entries

\* A scan lists every file that getFiles has seen and that has a type.
LEMMA ScanListsAll ==
  ASSUME NEW seen \in SUBSET Files, NEW firsts \in Firsts(seen),
         NEW f \in seen, TypeOf[f] # Nil
  PROVE  TypeOf[f] \in Types /\ \E n \in Names : Scanned(seen, firsts)[TypeOf[f]][n] = f
<1> DEFINE t == TypeOf[f]
           b == BaseName[f]
<1>1. t \in Types /\ b \in Names /\ f \in Names
  BY BankAssumption DEF Names
<1>2. f \in Homonyms(seen, t, b)
  BY DEF Homonyms
<1>3. CASE f \in firsts
  <2>1. \A g \in Homonyms(seen, t, b) : g \in firsts => g = f
    BY <1>1, <1>2, <1>3, FirstIsUnique
  <2>2. Scanned(seen, firsts)[t][b] = CHOOSE g \in Homonyms(seen, t, b) : g \in firsts
    BY <1>1, <1>2 DEF Scanned
  <2>3. Scanned(seen, firsts)[t][b] = f
    BY <1>2, <1>3, <2>1, <2>2
  <2> QED BY <1>1, <2>3
<1>4. CASE f \notin firsts
  <2>1. Homonyms(seen, t, f) = {}
    BY BankAssumption DEF Homonyms
  <2>2. Scanned(seen, firsts)[t][f] = f
    BY <1>1, <1>4, <2>1 DEF Scanned
  <2> QED BY <1>1, <2>2
<1> QED BY <1>3, <1>4

-----------------------------------------------------------------------------
(***************************************************************************)
(* What a load puts in the maps.                                           *)
(***************************************************************************)

\* The manifest that load reads, and what it makes of it.
Found == IF manifest = Nil THEN NoEntries ELSE manifest
Listed(rescan, seen, firsts) ==
  IF rescan THEN Merged(Found, Scanned(seen, firsts)) ELSE Found

LEMMA ListedType ==
  ASSUME BankOK, NEW rescan \in BOOLEAN,
         NEW seen \in SUBSET Files, NEW firsts \in Firsts(seen)
  PROVE  NoEntries \in Entries /\ Listed(rescan, seen, firsts) \in Entries
<1>1. NoEntries \in Entries
  BY DEF NoEntries, Entries
<1>2. Found \in Entries
  BY <1>1 DEF Found, BankOK
<1>3. ASSUME NEW a \in Entries, NEW b \in Entries PROVE Merged(a, b) \in Entries
  BY DEF Merged, Entries
<1> QED BY <1>1, <1>2, <1>3, ScannedType DEF Listed

\* The step of a load that lists this, after a scan that has seen these files.
LoadOf(rescan, seen, listed) ==
  /\ manifest' \in IF manifest = Nil THEN {listed, Nil} ELSE {manifest}
  /\ LoadAssets(listed)
  /\ last' = [rescan |-> rescan, ok |-> Succeeds(listed), seen |-> seen, listed |-> listed]
  /\ rescanned' = (rescanned \/ (rescan /\ (manifest # Nil \/ maps # NoEntries)))
  /\ disk' = disk

\* A load lists what some scan of some of the files has found.
LEMMA LoadLists ==
  ASSUME BankOK, NEW rescan \in BOOLEAN, Load(rescan)
  PROVE  \E seen \in SUBSET Files : \E firsts \in Firsts(seen) :
           LoadOf(rescan, seen, Listed(rescan, seen, firsts))
<1>1. (IF rescan THEN FilesSeen ELSE {{}}) \subseteq SUBSET Files
  BY DEF FilesSeen, Present
<1> QED BY <1>1 DEF Load, LoadOf, Listed, Found

\* What is in a map after a load was there before or is listed.
LEMMA LoadIs ==
  ASSUME BankOK, NEW listed \in Entries, LoadAssets(listed)
  PROVE  /\ maps' \in Entries
         /\ \A t \in Types, n \in Names :
              /\ maps'[t][n] = maps[t][n] \/ (maps[t][n] = Nil /\ maps'[t][n] = listed[t][n])
              /\ Succeeds(listed) /\ maps[t][n] = Nil => maps'[t][n] = listed[t][n]
<1> DEFINE N == Len(Order)
           k == FirstFailure(listed)
           whole == {Order[j] : j \in 1..(k - 1)}
<1>1. ASSUME NEW A, NEW u, NEW part
      PROVE  /\ Filled(listed, A, u, part) \in Entries
             /\ \A t \in Types, n \in Names :
                  LET new == Filled(listed, A, u, part)[t][n]
                  IN  /\ new = maps[t][n] \/ (maps[t][n] = Nil /\ new = listed[t][n])
                      /\ t \in A /\ maps[t][n] = Nil => new = listed[t][n]
  <2> DEFINE new(t, n) ==
        IF maps[t][n] = Nil /\ (t \in A \/ (t = u /\ n \in part))
          THEN listed[t][n]
          ELSE maps[t][n]
  <2>1. Filled(listed, A, u, part) = [t \in Types |-> [n \in Names |-> new(t, n)]]
    BY DEF Filled
  <2>2. ASSUME NEW t \in Types, NEW n \in Names
        PROVE  /\ new(t, n) \in Files \union {Nil}
               /\ new(t, n) = maps[t][n] \/ (maps[t][n] = Nil /\ new(t, n) = listed[t][n])
               /\ t \in A /\ maps[t][n] = Nil => new(t, n) = listed[t][n]
    <3>1. maps[t][n] \in Files \union {Nil} /\ listed[t][n] \in Files \union {Nil}
      BY DEF BankOK, Entries
    <3> QED BY <3>1
  <2> HIDE DEF new
  <2>3. Filled(listed, A, u, part) \in Entries
    BY <2>1, <2>2 DEF Entries
  <2> QED BY <2>1, <2>2, <2>3
<1>2. \E A, u, part : maps' = Filled(listed, A, u, part)
  BY DEF LoadAssets
<1>3. ASSUME Succeeds(listed)
      PROVE \E u, part : maps' = Filled(listed, Types, u, part)
  <2>1. N \in Nat /\ DOMAIN Order = 1..N
    BY BankAssumption
  <2>2. \A j \in 1..N : Failing(listed, Order[j]) = {}
    BY <1>3, <2>1 DEF Succeeds, Types
  <2> DEFINE Fails(i) == /\ i <= N => Failing(listed, Order[i]) # {}
                         /\ \A j \in 1..(i - 1) : Failing(listed, Order[j]) = {}
  <2>3. k = CHOOSE i \in 1..(N + 1) : Fails(i)
    BY DEF FirstFailure
  <2>4. N + 1 \in 1..(N + 1) /\ Fails(N + 1)
    BY <2>1, <2>2
  <2>5. \A i \in 1..(N + 1) : Fails(i) => i = N + 1
    BY <2>1, <2>2
  <2>6. k = N + 1
    <3> HIDE DEF Fails, k
    <3> QED BY <2>3, <2>4, <2>5
  <2>7. whole = Types
    <3> HIDE DEF k
    <3> QED BY <2>1, <2>6 DEF Types
  <2>8. maps' = Filled(listed, whole, Nil, {})
    BY <2>1, <2>6 DEF LoadAssets
  <2> QED BY <2>7, <2>8
<1> QED BY <1>1, <1>2, <1>3

LEMMA BankTypes == BankSpec => []BankOK
<1>1. BankInit => BankOK
  BY BankAssumption DEF BankInit, BankOK, NoLoad, NoEntries, Entries
<1>2. BankOK /\ [BankNext]_bankVars => BankOK'
  <2> SUFFICES ASSUME BankOK, [BankNext]_bankVars PROVE BankOK'
    OBVIOUS
  <2>0. NoEntries \in Entries
    BY DEF NoEntries, Entries
  <2>1. ASSUME NEW rescan \in BOOLEAN, Load(rescan) PROVE BankOK'
    <3>0. PICK seen \in SUBSET Files :
            \E firsts \in Firsts(seen) : LoadOf(rescan, seen, Listed(rescan, seen, firsts))
      BY <2>1, LoadLists
    <3>1. PICK firsts \in Firsts(seen) : LoadOf(rescan, seen, Listed(rescan, seen, firsts))
      BY <3>0
    <3> DEFINE listed == Listed(rescan, seen, firsts)
    <3>2. listed \in Entries
      BY ListedType
    <3>3. Succeeds(listed) \in BOOLEAN
      BY DEF Succeeds
    <3>4. LoadOf(rescan, seen, listed)
      BY <3>1
    <3> HIDE DEF listed
    <3>5. maps' \in Entries
      BY <3>2, <3>4, LoadIs DEF LoadOf
    <3> QED BY <3>2, <3>3, <3>4, <3>5 DEF LoadOf, BankOK
  <2>2. CASE /\ last' = NoLoad /\ disk' \in [Files -> {"good", "broken", "absent"}]
             /\ manifest' \in {manifest, Nil} /\ maps' \in {maps, NoEntries}
    <3>1. NoLoad \in [rescan : BOOLEAN, ok : BOOLEAN, seen : SUBSET Files, listed : Entries]
      BY <2>0 DEF NoLoad
    <3> QED BY <2>0, <2>2, <3>1 DEF BankOK
  <2>3. CASE UNCHANGED bankVars
    BY <2>3 DEF bankVars, BankOK
  <2>4. ASSUME NEW f \in Files, NEW state \in {"good", "broken", "absent"}, ChangeFile(f, state)
        PROVE  BankOK'
    BY <2>2, <2>4 DEF ChangeFile, BankOK
  <2>5. CASE DeleteManifest \/ Restart
    BY <2>2, <2>5 DEF DeleteManifest, Restart, BankOK
  <2> QED BY <2>1, <2>3, <2>4, <2>5 DEF BankNext
<1> QED BY <1>1, <1>2, PTL DEF BankSpec

-----------------------------------------------------------------------------
(***************************************************************************)
(* The properties of the loads.                                            *)
(***************************************************************************)

\* What a load that succeeded has listed and loaded, as long as nothing changes on
\* the disk.
CompleteInv ==
  last.ok =>
    /\ \A t \in Types, n \in Names : last.listed[t][n] # Nil => maps[t][n] # Nil
    /\ last.rescan /\ ~rescanned =>
         \A f \in last.seen : TypeOf[f] # Nil => \E n \in Names : maps[TypeOf[f]][n] = f

\* Two functions from names to files, and a file that both have under the same name.
Agree(a, b) ==
  \A t \in Types, n \in Names, m \in Names : a[t][n] # Nil /\ a[t][n] = b[t][m] => n = m

\* A file has one name in the maps and in the manifest.
OneName ==
  ~rescanned =>
    /\ Agree(maps, maps)
    /\ manifest # Nil => Agree(manifest, manifest) /\ Agree(manifest, maps)

\* What a load that scans the folder, when there was nothing yet, lists.
LEMMA FirstScanIs ==
  ASSUME BankOK, manifest = Nil, NEW seen \in SUBSET Files, NEW firsts \in Firsts(seen)
  PROVE  /\ Listed(TRUE, seen, firsts) = Scanned(seen, firsts)
         /\ Listed(FALSE, seen, firsts) = NoEntries
<1> DEFINE new == Scanned(seen, firsts)
<1>1. Found = NoEntries
  BY DEF Found
<1>2. Merged(NoEntries, new) = [t \in Types |-> [n \in Names |-> new[t][n]]]
  BY DEF Merged, NoEntries
<1>3. new = [t \in Types |-> [n \in Names |-> new[t][n]]]
  BY ScannedType DEF Entries
<1> QED BY <1>1, <1>2, <1>3 DEF Listed

LEMMA LoadComplete ==
  ASSUME BankOK, NEW rescan \in BOOLEAN, Load(rescan)
  PROVE  CompleteInv'
<1>0. PICK seen \in SUBSET Files :
        \E firsts \in Firsts(seen) : LoadOf(rescan, seen, Listed(rescan, seen, firsts))
  BY LoadLists
<1>1. PICK firsts \in Firsts(seen) : LoadOf(rescan, seen, Listed(rescan, seen, firsts))
  BY <1>0
<1> DEFINE listed == Listed(rescan, seen, firsts)
<1>2. listed \in Entries
  BY ListedType
<1>3. rescan /\ ~rescanned' => manifest = Nil /\ maps = NoEntries
  BY <1>1 DEF LoadOf
<1>4. rescan /\ ~rescanned' => listed = Scanned(seen, firsts)
  BY <1>3, FirstScanIs
<1>5. /\ LoadAssets(listed)
      /\ last'.rescan = rescan /\ last'.ok = Succeeds(listed)
      /\ last'.seen = seen /\ last'.listed = listed
  BY <1>1 DEF LoadOf
<1> HIDE DEF listed
<1> SUFFICES ASSUME Succeeds(listed) PROVE CompleteInv'
  BY <1>5 DEF CompleteInv
<1>6. \A t \in Types, n \in Names :
        /\ maps'[t][n] = maps[t][n] \/ (maps[t][n] = Nil /\ maps'[t][n] = listed[t][n])
        /\ maps[t][n] = Nil => maps'[t][n] = listed[t][n]
  BY <1>2, <1>5, LoadIs
<1>7. \A t \in Types, n \in Names : listed[t][n] # Nil => maps'[t][n] # Nil
  BY <1>6
<1>8. ASSUME rescan, ~rescanned', NEW f \in seen, TypeOf[f] # Nil
      PROVE  \E n \in Names : maps'[TypeOf[f]][n] = f
  <2>1. TypeOf[f] \in Types
    BY <1>8, ScanListsAll
  <2>2. PICK n \in Names : Scanned(seen, firsts)[TypeOf[f]][n] = f
    BY <1>8, ScanListsAll
  <2>3. maps[TypeOf[f]][n] = Nil
    BY <1>3, <1>8, <2>1 DEF NoEntries
  <2> QED BY <1>4, <1>6, <1>8, <2>1, <2>2, <2>3
<1> QED BY <1>5, <1>7, <1>8 DEF CompleteInv

\* A load that succeeds has loaded all that it lists, whatever failed before it, and
\* the first that scans, every file with a type that getFiles has seen; not those that it
\* passed over.
THEOREM LoadsAreComplete == BankSpec => []SuccessIsComplete
<1>1. BankInit => CompleteInv
  BY DEF BankInit, CompleteInv, NoLoad
<1>2. BankOK /\ CompleteInv /\ [BankNext]_bankVars => CompleteInv'
  <2> SUFFICES ASSUME BankOK, CompleteInv, [BankNext]_bankVars PROVE CompleteInv'
    OBVIOUS
  <2>1. ASSUME NEW rescan \in BOOLEAN, Load(rescan) PROVE CompleteInv'
    BY <2>1, LoadComplete
  <2>2. ASSUME last' = NoLoad PROVE CompleteInv'
    BY <2>2 DEF CompleteInv, NoLoad
  <2>3. CASE UNCHANGED bankVars
    BY <2>3 DEF bankVars, CompleteInv
  <2> QED BY <2>1, <2>2, <2>3 DEF BankNext, ChangeFile, DeleteManifest, Restart
<1>3. BankOK /\ CompleteInv => SuccessIsComplete
  <2> SUFFICES ASSUME BankOK, CompleteInv, last.ok, last.rescan, ~rescanned,
                      NEW f \in last.seen, TypeOf[f] # Nil
      PROVE f \in Loaded(TypeOf[f])
    BY DEF CompleteInv, SuccessIsComplete
  <2>1. PICK n \in Names : maps[TypeOf[f]][n] = f
    BY DEF CompleteInv
  <2>2. f # Nil
    BY BankAssumption DEF BankOK
  <2> QED BY <2>1, <2>2 DEF Loaded
<1> QED BY <1>1, <1>2, <1>3, BankTypes, PTL DEF BankSpec

\* A scan gives no file two names.
LEMMA ScanAgrees ==
  ASSUME NEW seen \in SUBSET Files, NEW firsts \in Firsts(seen)
  PROVE  Agree(Scanned(seen, firsts), Scanned(seen, firsts))
BY ScannedIs DEF Agree

LEMMA LoadAgrees ==
  ASSUME BankOK, OneName, NEW rescan \in BOOLEAN, Load(rescan)
  PROVE  OneName'
<1>0. PICK seen \in SUBSET Files :
        \E firsts \in Firsts(seen) : LoadOf(rescan, seen, Listed(rescan, seen, firsts))
  BY LoadLists
<1>1. PICK firsts \in Firsts(seen) : LoadOf(rescan, seen, Listed(rescan, seen, firsts))
  BY <1>0
<1> DEFINE listed == Listed(rescan, seen, firsts)
<1> SUFFICES ASSUME ~rescanned'
    PROVE /\ Agree(maps, maps)'
          /\ manifest' # Nil => Agree(manifest, manifest)' /\ Agree(manifest, maps)'
  BY DEF OneName
<1>2. ~rescanned /\ (rescan => manifest = Nil /\ maps = NoEntries)
  BY <1>1 DEF LoadOf
<1>3. listed \in Entries
  BY ListedType
<1>4. manifest' \in {listed, Nil}
  BY <1>1, <1>2 DEF LoadOf, Listed, Found
<1>5. Agree(listed, listed) /\ Agree(listed, maps)
  <2>1. CASE rescan
    <3>1. listed = Scanned(seen, firsts)
      BY <1>2, <2>1, FirstScanIs
    <3>2. \A t \in Types, n \in Names : maps[t][n] = Nil
      BY <1>2, <2>1 DEF NoEntries
    <3>3. Agree(Scanned(seen, firsts), maps)
      BY <3>2 DEF Agree
    <3> QED BY <3>1, <3>3, ScanAgrees
  <2>2. CASE ~rescan /\ manifest = Nil
    <3>1. listed = NoEntries
      BY <2>2, FirstScanIs
    <3> QED BY <3>1 DEF Agree, NoEntries
  <2>3. CASE ~rescan /\ manifest # Nil
    <3>1. listed = manifest
      BY <2>3 DEF Listed, Found
    <3> QED BY <1>2, <2>3, <3>1 DEF OneName
  <2> QED BY <2>1, <2>2, <2>3
<1>10. LoadAssets(listed)
  BY <1>1 DEF LoadOf
<1> HIDE DEF listed
<1>6. \A t \in Types, n \in Names :
        maps'[t][n] = maps[t][n] \/ (maps[t][n] = Nil /\ maps'[t][n] = listed[t][n])
  BY <1>3, <1>10, LoadIs
<1>7. Agree(maps, maps)
  BY <1>2 DEF OneName
<1>8. ASSUME NEW t \in Types, NEW n \in Names, NEW m \in Names
      PROVE  /\ maps'[t][n] # Nil /\ maps'[t][n] = maps'[t][m] => n = m
             /\ listed[t][n] # Nil /\ listed[t][n] = maps'[t][m] => n = m
  BY <1>5, <1>6, <1>7 DEF Agree
<1>9. Agree(maps', maps') /\ Agree(listed, maps') /\ Agree(listed, listed)
  BY <1>5, <1>8 DEF Agree
<1> QED BY <1>4, <1>9 DEF Agree

\* As long as the folder is scanned only when there is nothing yet, no file is in a
\* map under two names, whatever loads fail, and files come and go.
THEOREM FilesAreLoadedOnce == BankSpec => []LoadedOnce
<1>1. BankInit => OneName
  BY DEF BankInit, OneName, Agree, NoEntries
<1>2. BankOK /\ OneName /\ [BankNext]_bankVars => OneName'
  <2> SUFFICES ASSUME BankOK, OneName, [BankNext]_bankVars PROVE OneName'
    OBVIOUS
  <2>1. ASSUME NEW rescan \in BOOLEAN, Load(rescan) PROVE OneName'
    BY <2>1, LoadAgrees
  <2>2. ASSUME NEW f \in Files, NEW state \in {"good", "broken", "absent"}, ChangeFile(f, state)
        PROVE OneName'
    BY <2>2 DEF ChangeFile, OneName, Agree
  <2>3. CASE DeleteManifest
    BY <2>3 DEF DeleteManifest, OneName, Agree
  <2>4. CASE Restart
    BY <2>4 DEF Restart, OneName, Agree, NoEntries
  <2>5. CASE UNCHANGED bankVars
    BY <2>5 DEF bankVars, OneName, Agree
  <2> QED BY <2>1, <2>2, <2>3, <2>4, <2>5 DEF BankNext
<1>3. OneName => LoadedOnce
  BY DEF OneName, Agree, LoadedOnce
<1> QED BY <1>1, <1>2, <1>3, BankTypes, PTL DEF BankSpec

-----------------------------------------------------------------------------
(***************************************************************************)
(* The bag of start nodes.                                                 *)
(***************************************************************************)

\* The copies of the cells that are in a bag.
Copies(B) == {x \in Cells \X Nat : x[1] \in DOMAIN B /\ x[2] < B[x[1]]}

IsCellBag(B) == IsABag(B) /\ DOMAIN B \subseteq Cells /\ IsFiniteSet(Copies(B))

LEMMA OneCell ==
  ASSUME NEW c \in Cells
  PROVE  /\ IsCellBag(SetToBag({c})) /\ DOMAIN SetToBag({c}) = {c}
         /\ Cardinality(Copies(SetToBag({c}))) = 1
<1> DEFINE B == SetToBag({c})
<1>1. B = [e \in {c} |-> 1]
  BY DEF SetToBag
<1>2. DOMAIN B = {c} /\ B[c] = 1
  BY <1>1
<1>3. IsABag(B)
  BY <1>1, <1>2 DEF IsABag
<1> HIDE DEF B
<1>4. Copies(B) = {<<c, 0>>}
  BY <1>2 DEF Copies
<1> QED BY <1>2, <1>3, <1>4, FS_Singleton DEF IsCellBag, B

\* At most one cell is added.
LEMMA AddedCell ==
  ASSUME NEW B, IsCellBag(B), NEW c \in Cells, NEW S \in SUBSET {c},
         NEW D, D = B (+) SetToBag(S)
  PROVE  /\ IsCellBag(D) /\ DOMAIN D = DOMAIN B \union S
         /\ Cardinality(Copies(D)) <= Cardinality(Copies(B)) + 1
<1> DEFINE A == SetToBag(S)
           n == IF c \in DOMAIN B THEN B[c] ELSE 0
<1>1. DOMAIN A = S /\ \A e \in S : A[e] = 1
  BY DEF SetToBag
<1>2. DOMAIN B \subseteq Cells /\ \A e \in DOMAIN B : B[e] \in Nat /\ B[e] > 0
  BY DEF IsCellBag, IsABag
<1>3. D = [e \in (DOMAIN B) \union S |->
             (IF e \in DOMAIN B THEN B[e] ELSE 0) + (IF e \in S THEN A[e] ELSE 0)]
  BY <1>1 DEF (+)
<1> HIDE DEF A
<1>4. DOMAIN D = DOMAIN B \union S
  BY <1>3
<1>5. \A e \in DOMAIN D : D[e] = IF e = c THEN (IF c \in S THEN n + 1 ELSE n) ELSE B[e]
  BY <1>1, <1>2, <1>3
<1>6. n \in Nat
  BY <1>2
<1>7. IsABag(D)
  <2>1. \A e \in DOMAIN D : D[e] \in Nat /\ D[e] > 0
    BY <1>2, <1>4, <1>5, <1>6
  <2>2. D = [e \in DOMAIN D |-> D[e]]
    BY <1>3
  <2> QED BY <2>1, <2>2 DEF IsABag
<1>8. \A k \in Nat : k < n + 1 <=> k < n \/ k = n
  BY <1>6
<1>9. Copies(D) = IF c \in S THEN Copies(B) \union {<<c, n>>} ELSE Copies(B)
  <2>1. CASE c \in S
    <3>1. \A x \in Cells \X Nat :
            x[1] \in DOMAIN D /\ x[2] < D[x[1]] <=>
              (x[1] \in DOMAIN B /\ x[2] < B[x[1]]) \/ x = <<c, n>>
      BY <1>2, <1>4, <1>5, <1>6, <1>8, <2>1
    <3> QED BY <1>6, <2>1, <3>1 DEF Copies
  <2>2. CASE c \notin S
    BY <1>2, <1>4, <1>5, <2>2 DEF Copies
  <2> QED BY <2>1, <2>2
<1>10. IsFiniteSet(Copies(B)) /\ Cardinality(Copies(B)) \in Nat
  BY FS_CardinalityType DEF IsCellBag
<1>11. /\ IsFiniteSet(Copies(D))
       /\ Cardinality(Copies(D)) <= Cardinality(Copies(B)) + 1
  <2>1. CASE c \in S
    <3> DEFINE x0 == <<c, n>>
               C == Copies(B)
    <3>1. Copies(D) = C \union {x0} /\ IsFiniteSet(C) /\ Cardinality(C) \in Nat
      BY <1>9, <1>10, <2>1
    <3> HIDE DEF x0, C
    <3>2. /\ IsFiniteSet(C \union {x0})
          /\ Cardinality(C \union {x0}) = IF x0 \in C THEN Cardinality(C) ELSE Cardinality(C) + 1
      BY <3>1, FS_AddElement
    <3> QED BY <3>1, <3>2 DEF C
  <2>2. CASE c \notin S
    BY <1>9, <1>10, <2>2
  <2> QED BY <2>1, <2>2
<1>12. DOMAIN D \subseteq Cells
  BY <1>2, <1>4
<1> QED BY <1>4, <1>7, <1>11, <1>12 DEF IsCellBag

\* A copy of a cell is taken out.
LEMMA RemovedCell ==
  ASSUME NEW B, IsCellBag(B), NEW c \in DOMAIN B, NEW D, D = B (-) SetToBag({c})
  PROVE  /\ IsCellBag(D) /\ DOMAIN D \subseteq DOMAIN B /\ DOMAIN B \subseteq DOMAIN D \union {c}
         /\ Cardinality(Copies(D)) = Cardinality(Copies(B)) - 1
<1> DEFINE A == SetToBag({c})
           left0 == [e \in DOMAIN B |-> IF e = c THEN B[e] - 1 ELSE B[e]]
<1>1. DOMAIN A = {c} /\ A[c] = 1
  BY DEF SetToBag
<1>2. c \in Cells /\ DOMAIN B \subseteq Cells /\ \A e \in DOMAIN B : B[e] \in Nat /\ B[e] > 0
  BY DEF IsCellBag, IsABag
<1>3. left0 = [e \in DOMAIN B |-> IF e \in DOMAIN A THEN B[e] - A[e] ELSE B[e]]
  BY <1>1
<1>4. D = [e \in {x \in DOMAIN left0 : left0[x] > 0} |-> left0[e]]
  BY <1>3 DEF (-)
<1> HIDE DEF A
<1>5. DOMAIN D = {e \in DOMAIN B : e = c => B[c] > 1}
  <2>1. DOMAIN left0 = DOMAIN B
    OBVIOUS
  <2>2. \A e \in DOMAIN B : left0[e] > 0 <=> (e = c => B[c] > 1)
    BY <1>2
  <2>3. DOMAIN D = {x \in DOMAIN left0 : left0[x] > 0}
    BY <1>4
  <2> HIDE DEF left0
  <2> QED BY <2>1, <2>2, <2>3
<1>6. \A e \in DOMAIN D : D[e] = IF e = c THEN B[c] - 1 ELSE B[e]
  BY <1>4, <1>5
<1>7. IsABag(D)
  <2>1. \A e \in DOMAIN D : D[e] \in Nat /\ D[e] > 0
    BY <1>2, <1>5, <1>6
  <2>2. D = [e \in DOMAIN D |-> D[e]]
    BY <1>4
  <2> QED BY <2>1, <2>2 DEF IsABag
<1> DEFINE x0 == <<c, B[c] - 1>>
<1>8. B[c] - 1 \in Nat /\ \A k \in Nat : k < B[c] <=> k < B[c] - 1 \/ k = B[c] - 1
  BY <1>2
<1>9. Copies(D) = Copies(B) \ {x0}
  <2>1. \A x \in Cells \X Nat :
          x[1] \in DOMAIN D /\ x[2] < D[x[1]] <=>
            (x[1] \in DOMAIN B /\ x[2] < B[x[1]]) /\ x # x0
    <3> SUFFICES ASSUME NEW x \in Cells \X Nat
        PROVE x[1] \in DOMAIN D /\ x[2] < D[x[1]] <=>
                (x[1] \in DOMAIN B /\ x[2] < B[x[1]]) /\ x # x0
      OBVIOUS
    <3>1. CASE x[1] = c
      <4>1. x = x0 <=> x[2] = B[c] - 1
        BY <3>1
      <4>2. c \in DOMAIN D => D[c] = B[c] - 1
        BY <1>6
      <4>3. B[c] \in Nat /\ x[2] \in Nat
        BY <1>2
      <4> QED BY <1>5, <3>1, <4>1, <4>2, <4>3
    <3>2. CASE x[1] # c
      BY <1>5, <1>6, <3>2
    <3> QED BY <3>1, <3>2
  <2> QED BY <2>1 DEF Copies
<1>10. x0 \in Copies(B)
  BY <1>2, <1>8 DEF Copies
<1> HIDE DEF x0
<1>11. IsFiniteSet(Copies(D)) /\ Cardinality(Copies(D)) = Cardinality(Copies(B)) - 1
  BY <1>9, <1>10, FS_RemoveElement DEF IsCellBag
<1> QED BY <1>2, <1>5, <1>7, <1>11 DEF IsCellBag

-----------------------------------------------------------------------------
(***************************************************************************)
(* The grid, its passages and the cells that were visited.                 *)
(***************************************************************************)

Bits == Directions \union {None, Unvisited, Disabled}

MazeStateOK ==
  /\ grid \in [Cells -> SUBSET Bits]
  /\ seed \in Cells /\ pos \in Cells /\ loops \in BOOLEAN
  /\ IsCellBag(startNodes)
  /\ left \in Nat /\ iterations \in Nat /\ generations \in Nat
  /\ scan \in Seq(Cells)
  /\ pc \in {"choose", "corridor", "loops", "done"}
  /\ pc # "done" => Generated

\* Every set with the seed that no passage leaves.
Keeps(T) == seed \in T /\ \A a \in T, d \in Directions : d \in grid[a] => Beyond(a, d) \in T

\* The passages and the flags agree; a cell that was visited can be reached by
\* passages only, and there are two passages for each but the first.
TreeInv ==
  Generated =>
    /\ \A c \in Cells : Unvisited \in grid[c] => grid[c] \cap Directions = {}
    /\ \A c \in Cells : Unvisited \notin grid[c] => Disabled \notin grid[c]
    /\ \A c \in Cells, d \in Directions : d \in grid[c] =>
         /\ Beyond(c, d) \in Cells
         /\ Opposite(d) \in grid[Beyond(c, d)] /\ Unvisited \notin grid[Beyond(c, d)]
    /\ Unvisited \in grid[seed] => \A c \in Cells : Unvisited \in grid[c]
    /\ pos \in Visited /\ DOMAIN startNodes \subseteq Visited
    /\ \A T \in SUBSET Cells : Keeps(T) => Visited \subseteq T
    /\ Cardinality(Passages) = 2 * (Cardinality(Visited) - 1)

\* Where a corridor can still begin there is a start node, or the corridor is dug.
PendingInv ==
  Generated =>
    /\ \A c \in Visited : UnvisitedDirections(c) # {} =>
         c \in DOMAIN startNodes \/ (pc = "corridor" /\ c = pos /\ left > 0)
    /\ pc \in {"loops", "done"} => DOMAIN startNodes = {}

\* Every passage, on one of its two sides, gives at most one iteration.
CountInv ==
  Generated /\ pc \in {"choose", "corridor"} =>
    iterations + Cardinality(Copies(startNodes)) + (IF pc = "corridor" THEN 1 ELSE 0)
      <= Cardinality(Passages) + 1

LEMMA DirectionIs ==
  ASSUME NEW c \in Cells, NEW d \in Directions
  PROVE  /\ Opposite(d) \in Directions /\ Opposite(Opposite(d)) = d
         /\ Beyond(Beyond(c, d), Opposite(d)) = c
         /\ Beyond(c, d) # c
<1>1. c = <<c[1], c[2]>> /\ c[1] \in Int /\ c[2] \in Int
  BY MazeAssumption DEF Cells
<1>2. d = Right \/ d = Left \/ d = Up \/ d = Down
  BY DEF Directions
<1>3. CASE d = Right
  BY <1>1, <1>3 DEF Directions, Opposite, Beyond, Right, Left, Up, Down
<1>4. CASE d = Left
  BY <1>1, <1>4 DEF Directions, Opposite, Beyond, Right, Left, Up, Down
<1>5. CASE d = Up
  BY <1>1, <1>5 DEF Directions, Opposite, Beyond, Right, Left, Up, Down
<1>6. CASE d = Down
  BY <1>1, <1>6 DEF Directions, Opposite, Beyond, Right, Left, Up, Down
<1> QED BY <1>2, <1>3, <1>4, <1>5, <1>6

LEMMA BitsDiffer ==
  /\ None \notin Directions /\ Unvisited \notin Directions /\ Disabled \notin Directions
  /\ None # Unvisited /\ None # Disabled /\ Unvisited # Disabled
  /\ IsFiniteSet(Directions)
<1>1. PICK n \in Int : n = 3
  OBVIOUS
<1>2. Directions \subseteq 0..n
  BY <1>1 DEF Directions, Right, Left, Up, Down
<1>4. IsFiniteSet(0..n)
  <2> HIDE <1>1
  <2> QED BY FS_Interval
<1>3. IsFiniteSet(Directions)
  BY <1>2, <1>4, FS_Subset
<1> QED BY <1>3 DEF Directions, Right, Left, Up, Down, None, Unvisited, Disabled

LEMMA FiniteMaze ==
  /\ IsFiniteSet(Cells) /\ Cardinality(Cells) \in Nat
  /\ \A S \in SUBSET Cells :
       IsFiniteSet(S) /\ Cardinality(S) \in Nat /\ Cardinality(S) <= Cardinality(Cells)
  /\ \A P \in SUBSET (Cells \X Directions) : IsFiniteSet(P) /\ Cardinality(P) \in Nat
<1>1. IsFiniteSet(0..(Width - 1)) /\ IsFiniteSet(0..(Height - 1))
  BY MazeAssumption, FS_Interval
<1>2. IsFiniteSet(Cells)
  BY <1>1, FS_Product DEF Cells
<1>3. IsFiniteSet(Cells \X Directions)
  BY <1>2, BitsDiffer, FS_Product
<1> QED BY <1>2, <1>3, FS_Subset, FS_CardinalityType

\* The new value of the grid agrees with the old but for the flag None.
SameMaze ==
  /\ seed' = seed /\ generations' = generations
  /\ \A c \in Cells, v \in Bits \ {None} : v \in grid'[c] <=> v \in grid[c]

LEMMA SameMazeIs ==
  ASSUME MazeStateOK, MazeStateOK', SameMaze
  PROVE  /\ Visited' = Visited /\ Passages' = Passages
         /\ \A c \in Cells : UnvisitedDirections(c)' = UnvisitedDirections(c)
         /\ Generated' = Generated
         /\ TreeInv /\ pos' \in Visited /\ DOMAIN startNodes' \subseteq Visited => TreeInv'
<1>1. /\ seed' = seed /\ generations' = generations
      /\ \A c \in Cells : /\ Unvisited \in grid'[c] <=> Unvisited \in grid[c]
                          /\ Disabled \in grid'[c] <=> Disabled \in grid[c]
                          /\ \A d \in Directions : d \in grid'[c] <=> d \in grid[c]
  BY BitsDiffer DEF SameMaze, Bits
<1>2. Visited' = Visited
  BY <1>1 DEF Visited
<1>3. Passages' = Passages
  <2>1. \A p \in Cells \X Directions : p[2] \in grid'[p[1]] <=> p[2] \in grid[p[1]]
    BY <1>1
  <2> QED BY <2>1 DEF Passages
<1>4. \A c \in Cells : UnvisitedDirections(c)' = UnvisitedDirections(c)
  BY <1>1 DEF UnvisitedDirections
<1>5. \A T \in SUBSET Cells : Keeps(T)' <=> Keeps(T)
  BY <1>1 DEF Keeps
<1>6. Generated' = Generated
  BY <1>1 DEF Generated
<1>7. ASSUME TreeInv, pos' \in Visited, DOMAIN startNodes' \subseteq Visited PROVE TreeInv'
  <2> SUFFICES ASSUME Generated PROVE TreeInv'
    BY <1>6 DEF TreeInv
  <2>1. \A c \in Cells : (Unvisited \in grid[c] => grid[c] \cap Directions = {})'
    BY <1>1, <1>7 DEF TreeInv
  <2>2. \A c \in Cells : (Unvisited \notin grid[c] => Disabled \notin grid[c])'
    BY <1>1, <1>7 DEF TreeInv
  <2>3. \A c \in Cells, d \in Directions : d \in grid'[c] =>
          /\ Beyond(c, d) \in Cells
          /\ Opposite(d) \in grid'[Beyond(c, d)] /\ Unvisited \notin grid'[Beyond(c, d)]
    BY <1>1, <1>7, DirectionIs DEF TreeInv
  <2>4. Unvisited \in grid'[seed'] => \A c \in Cells : Unvisited \in grid'[c]
    BY <1>1, <1>7 DEF TreeInv, MazeStateOK
  <2>5. \A T \in SUBSET Cells : Keeps(T)' => Visited \subseteq T
    BY <1>5, <1>7 DEF TreeInv
  <2>6. Cardinality(Passages) = 2 * (Cardinality(Visited) - 1)
    BY <1>7 DEF TreeInv
  <2> QED BY <1>2, <1>3, <1>7, <2>1, <2>2, <2>3, <2>4, <2>5, <2>6 DEF TreeInv
<1> QED BY <1>2, <1>3, <1>4, <1>6, <1>7

-----------------------------------------------------------------------------
(***************************************************************************)
(* The operations.                                                         *)
(***************************************************************************)

LEMMA DigIs ==
  ASSUME MazeStateOK, NEW d \in Directions, Dig(d), NEW to, to = Beyond(pos, d)
  PROVE  /\ to \in Cells /\ to # pos
         /\ Unvisited \in grid[to] /\ Disabled \notin grid[to] /\ d \in UnvisitedDirections(pos)
         /\ grid' \in [Cells -> SUBSET Bits]
         /\ grid'[pos] = Dug(grid[pos], d) /\ grid'[to] = {Opposite(d)}
         /\ \A c \in Cells \ {pos, to} : grid'[c] = grid[c]
         /\ IsCellBag(startNodes')
         /\ DOMAIN startNodes \subseteq DOMAIN startNodes'
         /\ DOMAIN startNodes' \subseteq DOMAIN startNodes \union {pos, to}
         /\ Cardinality(UnvisitedDirections(pos)) > 1 => pos \in DOMAIN startNodes'
         /\ left = 1 => to \in DOMAIN startNodes'
         /\ Cardinality(Copies(startNodes')) <= Cardinality(Copies(startNodes)) + 2
<1> DEFINE from == IF Cardinality(UnvisitedDirections(pos)) > 1 THEN {pos} ELSE {}
           ending == IF left = 1 THEN {to} ELSE {}
           opp == Opposite(d)
<1>1. /\ d \in UnvisitedDirections(pos)
      /\ grid' = [grid EXCEPT ![pos] = Dug(@, d), ![to] = Dug(@, opp)]
      /\ startNodes' = (startNodes (+) SetToBag(from)) (+) SetToBag(ending)
  BY DEF Dig
<1>2. to \in Cells /\ Unvisited \in grid[to] /\ Disabled \notin grid[to]
  BY <1>1 DEF UnvisitedDirections
<1>3. pos \in Cells /\ to # pos /\ opp \in Directions
  BY DirectionIs DEF MazeStateOK
<1>4. from \in SUBSET {pos} /\ ending \in SUBSET {to}
  OBVIOUS
<1>5. /\ Cardinality(UnvisitedDirections(pos)) > 1 => pos \in from
      /\ left = 1 => to \in ending
  OBVIOUS
<1>6. Dug(grid[to], opp) = {opp}
  BY <1>2 DEF Dug
<1>7. Dug(grid[pos], d) \in SUBSET Bits /\ {opp} \in SUBSET Bits
  BY <1>3 DEF Dug, MazeStateOK, Bits
<1> HIDE DEF from, ending, opp
<1>8. /\ grid' \in [Cells -> SUBSET Bits]
      /\ grid'[pos] = Dug(grid[pos], d) /\ grid'[to] = {opp}
      /\ \A c \in Cells \ {pos, to} : grid'[c] = grid[c]
  BY <1>1, <1>2, <1>3, <1>6, <1>7 DEF MazeStateOK
<1>9. PICK B : B = startNodes (+) SetToBag(from)
  OBVIOUS
<1>10. /\ IsCellBag(B) /\ DOMAIN B = DOMAIN startNodes \union from
       /\ Cardinality(Copies(B)) <= Cardinality(Copies(startNodes)) + 1
  BY <1>3, <1>4, <1>9, AddedCell DEF MazeStateOK
<1>11. startNodes' = B (+) SetToBag(ending)
  BY <1>1, <1>9
<1>12. /\ IsCellBag(startNodes') /\ DOMAIN startNodes' = DOMAIN B \union ending
       /\ Cardinality(Copies(startNodes')) <= Cardinality(Copies(B)) + 1
  BY <1>2, <1>4, <1>10, <1>11, AddedCell
<1>13. /\ Cardinality(Copies(startNodes)) \in Nat /\ Cardinality(Copies(B)) \in Nat
       /\ Cardinality(Copies(startNodes')) \in Nat
  BY <1>10, <1>12, FS_CardinalityType DEF MazeStateOK, IsCellBag
<1>14. Cardinality(Copies(startNodes')) <= Cardinality(Copies(startNodes)) + 2
  BY <1>10, <1>12, <1>13
<1> QED BY <1>1, <1>2, <1>3, <1>4, <1>5, <1>8, <1>10, <1>12, <1>14 DEF opp

\* The cells that connectRandomNodes looks at are cells of the grid.
LEMMA ScanType == Scan \in Seq(Cells)
<1>1. Width \in Nat \ {0} /\ Height \in Nat \ {0}
  BY MazeAssumption
<1>2. ASSUME NEW k \in 1..(Width * Height)
      PROVE  <<(k - 1) % Width, (k - 1) \div Width>> \in Cells
  <2> DEFINE q == (k - 1) \div Width
             r == (k - 1) % Width
             N == Width * Height
  <2>1. N \in Nat /\ k - 1 \in Nat /\ k - 1 < N
    BY <1>1
  <2>2. \A x \in Nat, w \in Nat \ {0} :
          x \div w \in Nat /\ w * (x \div w) <= x /\ x % w \in 0..(w - 1)
    OBVIOUS
  <2>3. q \in Nat /\ r \in 0..(Width - 1) /\ Width * q <= k - 1
    BY <1>1, <2>1, <2>2
  <2>4. \A a, b, w \in Nat : a >= b => w * a >= w * b
    OBVIOUS
  <2>5. q < Height
    <3> SUFFICES ASSUME q >= Height PROVE FALSE
      BY <1>1, <2>3
    <3>1. Width * q >= Width * Height
      BY <1>1, <2>3, <2>4
    <3>2. Width * q \in Nat
      BY <1>1, <2>3
    <3> HIDE DEF q, r
    <3> QED BY <1>1, <2>1, <2>3, <3>1, <3>2
  <2> QED BY <1>1, <2>3, <2>5 DEF Cells
<1>3. Width * Height \in Nat
  BY <1>1
<1> QED BY <1>2, <1>3 DEF Scan

\* connectRandomNodes changes no direction: the one that it takes for the opposite
\* is that of the passage that the dead end has.
LEMMA ConnectIs ==
  ASSUME MazeStateOK, TreeInv, NEW lucky \in BOOLEAN, Connect(lucky)
  PROVE  grid' \in [Cells -> SUBSET Bits] /\ SameMaze
<1> DEFINE c == Head(scan)
           d == Facing(grid[c])
           to == Beyond(c, d)
<1>1. pc = "loops" /\ scan # <<>> /\ Generated /\ seed' = seed /\ generations' = generations
  BY DEF Connect, MazeStateOK
<1>2. c \in Cells
  BY <1>1 DEF MazeStateOK
<1>3. CASE grid' = grid
  BY <1>1, <1>3 DEF SameMaze, MazeStateOK
<1>4. CASE grid' # grid
  <2>1. IsDeadEnd(grid[c]) /\ to \in Cells
    BY <1>4 DEF Connect
  <2>2. \A x \in Cells : grid'[x] = grid[x] \union (IF x = c THEN {d} ELSE {})
                                            \union (IF x = to THEN {Opposite(d)} ELSE {})
    BY <1>4 DEF Connect
  <2>3. DOMAIN grid' = Cells /\ grid' = [x \in Cells |-> grid'[x]]
    BY <1>4 DEF Connect
  <2>4. CASE grid[c] = {Up}
    <3>1. d = None
      BY <2>4 DEF Facing
    <3>2. Opposite(d) = None /\ to = c
      BY <3>1 DEF Opposite, Beyond, None, Right, Left, Up, Down
    <3> HIDE DEF c, d, to
    <3>3. \A x \in Cells : grid'[x] = grid[x] \/ grid'[x] = grid[x] \union {None}
      BY <2>2, <3>1, <3>2
    <3>4. grid' \in [Cells -> SUBSET Bits]
      BY <2>3, <3>3 DEF MazeStateOK, Bits
    <3> QED BY <1>1, <3>3, <3>4 DEF SameMaze
  <2>5. CASE grid[c] # {Up}
    <3>1. d \in Directions /\ grid[c] = {d}
      BY <2>1, <2>5 DEF Facing, IsDeadEnd
    <3> HIDE DEF c, d
    <3>2. Opposite(d) \in grid[to]
      BY <1>1, <1>2, <3>1 DEF TreeInv
    <3> HIDE DEF to
    <3>3. \A x \in Cells : grid'[x] = grid[x]
      <4> SUFFICES ASSUME NEW x \in Cells PROVE grid'[x] = grid[x]
        OBVIOUS
      <4>1. (x = c => d \in grid[x]) /\ (x = to => Opposite(d) \in grid[x])
        BY <3>1, <3>2
      <4>2. /\ grid[x] \union (IF x = c THEN {d} ELSE {}) = grid[x]
            /\ grid[x] \union (IF x = to THEN {Opposite(d)} ELSE {}) = grid[x]
        BY <4>1
      <4> HIDE <3>1, <3>2
      <4> QED BY <2>2, <4>2
    <3>4. grid' \in [Cells -> SUBSET Bits]
      BY <2>3, <3>3 DEF MazeStateOK
    <3> QED BY <1>1, <3>3, <3>4 DEF SameMaze
  <2> QED BY <2>4, <2>5
<1> QED BY <1>3, <1>4

\* What happens to the maze in the steps that dig no passage.
LEMMA OtherSteps ==
  ASSUME MazeStateOK, TreeInv,
         \/ \E c \in Cells, length \in CorridorLengths : StartCorridor(c, length)
         \/ EndCorridor \/ EndCorridors
         \/ \E lucky \in BOOLEAN : Connect(lucky)
         \/ EndLoops \/ UNCHANGED mazeVars
  PROVE  SameMaze
<1>1. grid' = grid /\ seed' = seed /\ generations' = generations => SameMaze
  BY DEF SameMaze
<1> QED BY <1>1, ConnectIs
        DEF StartCorridor, EndCorridor, EndCorridors, EndLoops, mazeVars

LEMMA StartIs ==
  ASSUME MazeStateOK, NEW c \in Cells, NEW length \in CorridorLengths, StartCorridor(c, length)
  PROVE  /\ IsCellBag(startNodes')
         /\ DOMAIN startNodes' \subseteq DOMAIN startNodes
         /\ DOMAIN startNodes \subseteq DOMAIN startNodes' \union {c}
         /\ c \in DOMAIN startNodes
         /\ Cardinality(Copies(startNodes')) = Cardinality(Copies(startNodes)) - 1
<1>1. c \in DOMAIN startNodes /\ startNodes' = startNodes (-) SetToBag({c})
  BY DEF StartCorridor, BagIn, BagToSet
<1> QED BY <1>1, RemovedCell DEF MazeStateOK

LEMMA EmptyIs == IsCellBag(EmptyBag) /\ DOMAIN EmptyBag = {}
<1>1. DOMAIN EmptyBag = {} /\ EmptyBag = [e \in DOMAIN EmptyBag |-> EmptyBag[e]]
  BY DEF EmptyBag, SetToBag
<1>2. Copies(EmptyBag) = {}
  BY <1>1 DEF Copies
<1> QED BY <1>1, <1>2, FS_EmptySet DEF IsCellBag, IsABag

LEMMA StepTypes ==
  ASSUME MazeStateOK, TreeInv, [MazeNext]_mazeVars
  PROVE  MazeStateOK'
<1>1. ASSUME NEW c \in Cells, NEW withLoops \in BOOLEAN, Generate(c, withLoops)
      PROVE  MazeStateOK'
  <2>1. \A x \in Cells : (grid[x] \ Directions) \union {Unvisited} \in SUBSET Bits
    BY DEF MazeStateOK, Bits
  <2>2. grid' \in [Cells -> SUBSET Bits]
    BY <1>1, <2>1 DEF Generate
  <2>3. IsCellBag(startNodes')
    BY <1>1, OneCell DEF Generate
  <2>4. generations' \in Nat /\ generations' > 0
    BY <1>1 DEF Generate, MazeStateOK
  <2>5. /\ seed' \in Cells /\ pos' \in Cells /\ loops' \in BOOLEAN /\ left' \in Nat
        /\ iterations' \in Nat /\ scan' \in Seq(Cells) /\ pc' = "choose"
    BY <1>1 DEF Generate, MazeStateOK
  <2> QED BY <2>2, <2>3, <2>4, <2>5 DEF MazeStateOK, Generated
<1>2. ASSUME NEW c \in Cells, NEW length \in CorridorLengths, StartCorridor(c, length)
      PROVE  MazeStateOK'
  <2>1. length \in Nat
    BY MazeAssumption
  <2> QED BY <1>2, <2>1, StartIs DEF StartCorridor, MazeStateOK, Generated
<1>3. ASSUME NEW d \in Directions, Dig(d) PROVE MazeStateOK'
  <2>1. PICK to : to = Beyond(pos, d)
    OBVIOUS
  <2>2. pos' = to /\ left' = left - 1 /\ left > 0
    BY <1>3, <2>1 DEF Dig
  <2>3. /\ to \in Cells /\ grid' \in [Cells -> SUBSET Bits] /\ IsCellBag(startNodes')
    BY <1>3, <2>1, DigIs
  <2>4. UNCHANGED <<seed, loops, iterations, scan, gen, generations, pc>>
    BY <1>3 DEF Dig
  <2> QED BY <2>2, <2>3, <2>4 DEF MazeStateOK, Generated
<1>4. ASSUME EndCorridor \/ EndCorridors PROVE MazeStateOK'
  <2>1. scan' \in Seq(Cells)
    BY <1>4, ScanType DEF EndCorridor, EndCorridors, MazeStateOK
  <2>2. pc' \in {"choose", "loops", "done"} /\ Generated
    BY <1>4 DEF EndCorridor, EndCorridors, MazeStateOK, After
  <2> QED BY <1>4, <2>1, <2>2 DEF EndCorridor, EndCorridors, MazeStateOK, Generated
<1>5. ASSUME NEW lucky \in BOOLEAN, Connect(lucky) PROVE MazeStateOK'
  <2>1. scan' \in Seq(Cells)
    BY <1>5 DEF Connect, MazeStateOK
  <2>2. grid' \in [Cells -> SUBSET Bits]
    BY <1>5, ConnectIs
  <2> QED BY <1>5, <2>1, <2>2 DEF Connect, MazeStateOK, Generated
<1>6. CASE EndLoops
  BY <1>6 DEF EndLoops, MazeStateOK, Generated
<1>7. CASE UNCHANGED mazeVars
  BY <1>7 DEF mazeVars, MazeStateOK, Generated
<1> QED BY <1>1, <1>2, <1>3, <1>4, <1>5, <1>6, <1>7 DEF MazeNext, Step

\* A generation begins with one cell that was visited, and no passage.
LEMMA GenerateIs ==
  ASSUME MazeStateOK, NEW c \in Cells, NEW withLoops \in BOOLEAN, Generate(c, withLoops)
  PROVE  TreeInv' /\ PendingInv' /\ CountInv'
<1>1. \A x \in Cells : grid'[x] = (grid[x] \ Directions) \union {Unvisited}
  BY DEF Generate
<1>2. \A x \in Cells : Unvisited \in grid'[x] /\ grid'[x] \cap Directions = {}
  BY <1>1, BitsDiffer
<1>3. seed' = c /\ pos' = c /\ pc' = "choose" /\ iterations' = 0
  BY DEF Generate
<1>4. /\ DOMAIN startNodes' = {c} /\ Cardinality(Copies(startNodes')) = 1
  BY OneCell DEF Generate
<1>5. Visited' = {c}
  BY <1>2, <1>3 DEF Visited
<1>6. Passages' = {}
  BY <1>2 DEF Passages
<1>7. Cardinality({c}) = 1 /\ Cardinality({}) = 0
  BY FS_Singleton, FS_EmptySet
<1>8. TreeInv'
  <2>1. \A T \in SUBSET Cells : Keeps(T)' => {c} \subseteq T
    BY <1>3 DEF Keeps
  <2>2. \A x \in Cells, d \in Directions : d \notin grid'[x]
    BY <1>2
  <2> QED BY <1>2, <1>3, <1>4, <1>5, <1>6, <1>7, <2>1, <2>2 DEF TreeInv
<1>9. PendingInv'
  BY <1>3, <1>4, <1>5 DEF PendingInv
<1>10. CountInv'
  BY <1>3, <1>4, <1>6, <1>7 DEF CountInv
<1> QED BY <1>8, <1>9, <1>10

\* What a passage adds to the maze.
LEMMA DugMaze ==
  ASSUME MazeStateOK, TreeInv, NEW d \in Directions, Dig(d), NEW to, to = Beyond(pos, d)
  PROVE  /\ to \notin Visited /\ pos \in Visited /\ Visited' = Visited \union {to}
         /\ Unvisited \notin grid'[seed]
         /\ <<pos, d>> \notin Passages /\ <<to, Opposite(d)>> \notin Passages
         /\ Passages' = (Passages \union {<<pos, d>>}) \union {<<to, Opposite(d)>>}
<1> DEFINE opp == Opposite(d)
<1>1. Generated /\ pos \in Cells /\ seed \in Cells /\ seed' = seed
  BY DEF Dig, MazeStateOK
<1>2. /\ to \in Cells /\ to # pos
      /\ Unvisited \in grid[to] /\ Disabled \notin grid[to]
      /\ grid'[pos] = Dug(grid[pos], d) /\ grid'[to] = {opp}
      /\ \A c \in Cells \ {pos, to} : grid'[c] = grid[c]
  BY DigIs
<1>3. opp \in Directions
  BY <1>1, DirectionIs
<1>4. pos \in Visited
  BY <1>1 DEF TreeInv
<1>5. Unvisited \in grid[seed] => pos = seed
  BY <1>1, <1>4 DEF TreeInv, Visited
<1>6. to \notin Visited
  <2>1. to # seed
    BY <1>2, <1>5
  <2> QED BY <1>2, <2>1 DEF Visited
<1>7. Unvisited \notin grid'[pos] /\ Unvisited \notin grid'[to]
  BY <1>2, <1>3, BitsDiffer DEF Dug
<1>8. Visited' = Visited \union {to}
  <2>1. \A c \in Cells : c \in Visited' <=> c \in Visited \/ c = to
    BY <1>1, <1>2, <1>4, <1>7 DEF Visited
  <2> QED BY <1>1, <1>2, <2>1 DEF Visited
<1>9. Unvisited \notin grid'[seed]
  BY <1>1, <1>2, <1>5, <1>7
<1>10. \A e \in Directions : e \in grid'[pos] <=> e \in grid[pos] \/ e = d
  <2>1. CASE Unvisited \in grid[pos]
    <3>1. grid'[pos] = {d}
      BY <1>2, <2>1 DEF Dug
    <3>2. grid[pos] \cap Directions = {}
      BY <1>1, <2>1 DEF TreeInv
    <3> QED BY <3>1, <3>2
  <2>2. CASE Unvisited \notin grid[pos]
    BY <1>2, <2>2 DEF Dug
  <2> QED BY <2>1, <2>2
<1>11. grid[to] \cap Directions = {}
  BY <1>1, <1>2 DEF TreeInv
<1>12. d \notin grid[pos]
  BY <1>1, <1>2 DEF TreeInv
<1> HIDE DEF opp
<1>13. \A p \in Cells \X Directions :
         p[2] \in grid'[p[1]] <=> p[2] \in grid[p[1]] \/ p = <<pos, d>> \/ p = <<to, opp>>
  <2> SUFFICES ASSUME NEW c \in Cells, NEW e \in Directions
      PROVE e \in grid'[c] <=> e \in grid[c] \/ <<c, e>> = <<pos, d>> \/ <<c, e>> = <<to, opp>>
    OBVIOUS
  <2>1. CASE c = pos
    BY <1>2, <1>10, <2>1
  <2>2. CASE c = to
    BY <1>2, <1>11, <2>2
  <2>3. CASE c # pos /\ c # to
    BY <1>2, <2>3
  <2> QED BY <2>1, <2>2, <2>3
<1>14. Passages' = (Passages \union {<<pos, d>>}) \union {<<to, opp>>}
  BY <1>1, <1>2, <1>3, <1>13 DEF Passages
<1>15. <<pos, d>> \notin Passages /\ <<to, opp>> \notin Passages
  BY <1>3, <1>11, <1>12 DEF Passages
<1> QED BY <1>4, <1>6, <1>8, <1>9, <1>14, <1>15 DEF opp

LEMMA DigTree ==
  ASSUME MazeStateOK, TreeInv, NEW d \in Directions, Dig(d)
  PROVE  TreeInv'
<1>1. PICK to : to = Beyond(pos, d)
  OBVIOUS
<1>2. PICK opp : opp = Opposite(d)
  OBVIOUS
<1>3. /\ Generated /\ Generated' /\ pos \in Cells /\ seed \in Cells /\ seed' = seed /\ pos' = to
  BY <1>1 DEF Dig, MazeStateOK, Generated
<1>4. /\ to \in Cells /\ to # pos /\ Unvisited \in grid[to]
      /\ grid'[pos] = Dug(grid[pos], d) /\ grid'[to] = {opp}
      /\ \A c \in Cells \ {pos, to} : grid'[c] = grid[c]
      /\ DOMAIN startNodes' \subseteq DOMAIN startNodes \union {pos, to}
  BY <1>1, <1>2, DigIs
<1>5. /\ to \notin Visited /\ pos \in Visited /\ Visited' = Visited \union {to}
      /\ Unvisited \notin grid'[seed]
      /\ <<pos, d>> \notin Passages /\ <<to, opp>> \notin Passages
      /\ Passages' = (Passages \union {<<pos, d>>}) \union {<<to, opp>>}
  BY <1>1, <1>2, DugMaze
<1>6. opp \in Directions /\ Opposite(opp) = d /\ Beyond(to, opp) = pos
  BY <1>1, <1>2, <1>3, DirectionIs
<1>7. \A c \in Cells : \A e \in Directions :
        e \in grid'[c] <=> \/ e \in grid[c]
                           \/ c = pos /\ e = d
                           \/ c = to /\ e = opp
  <2> SUFFICES ASSUME NEW c \in Cells, NEW e \in Directions
      PROVE <<c, e>> \in Passages' <=>
              <<c, e>> \in Passages \/ <<c, e>> = <<pos, d>> \/ <<c, e>> = <<to, opp>>
    BY DEF Passages
  <2> QED BY <1>5
<1>8. \A c \in Cells : Unvisited \in grid'[c] => Unvisited \in grid[c] /\ c # pos /\ c # to
  BY <1>4, <1>6, BitsDiffer DEF Dug
<1>9. \A c \in Cells : (Unvisited \in grid[c] => grid[c] \cap Directions = {})'
  BY <1>3, <1>7, <1>8 DEF TreeInv
<1>10. \A c \in Cells : (Unvisited \notin grid[c] => Disabled \notin grid[c])'
  <2> SUFFICES ASSUME NEW c \in Cells, Unvisited \notin grid'[c] PROVE Disabled \notin grid'[c]
    OBVIOUS
  <2>1. CASE c = pos
    BY <1>3, <1>4, <2>1, BitsDiffer DEF TreeInv, Dug
  <2>2. CASE c = to
    BY <1>4, <1>6, <2>2, BitsDiffer
  <2>3. CASE c # pos /\ c # to
    BY <1>3, <1>4, <2>3 DEF TreeInv
  <2> QED BY <2>1, <2>2, <2>3
<1>11. ASSUME NEW c \in Cells, NEW e \in Directions, e \in grid'[c]
       PROVE  /\ Beyond(c, e) \in Cells
              /\ Opposite(e) \in grid'[Beyond(c, e)] /\ Unvisited \notin grid'[Beyond(c, e)]
  <2>1. CASE e \in grid[c]
    <3>1. /\ Beyond(c, e) \in Cells
          /\ Opposite(e) \in grid[Beyond(c, e)] /\ Unvisited \notin grid[Beyond(c, e)]
      BY <1>3, <2>1 DEF TreeInv
    <3> QED BY <1>7, <1>8, <3>1, DirectionIs
  <2>2. CASE c = pos /\ e = d
    BY <1>1, <1>2, <1>4, <1>6, <1>8, <2>2
  <2>3. CASE c = to /\ e = opp
    BY <1>3, <1>6, <1>7, <1>8, <2>3
  <2> QED BY <1>7, <1>11, <2>1, <2>2, <2>3
<1>12. pos' \in Visited' /\ DOMAIN startNodes' \subseteq Visited'
  BY <1>3, <1>4, <1>5 DEF TreeInv
<1>13. ASSUME NEW T \in SUBSET Cells, Keeps(T)' PROVE Visited' \subseteq T
  <2>1. seed \in T /\ \A a \in T, e \in Directions : e \in grid'[a] => Beyond(a, e) \in T
    BY <1>3, <1>13 DEF Keeps
  <2>2. Keeps(T)
    BY <1>7, <2>1 DEF Keeps
  <2>3. Visited \subseteq T
    BY <1>3, <2>2 DEF TreeInv
  <2>4. d \in grid'[pos] /\ pos \in T
    BY <1>3, <1>5, <1>7, <2>3
  <2>5. to \in T
    BY <1>1, <2>1, <2>4
  <2> QED BY <1>5, <2>3, <2>5
<1>14. Cardinality(Passages') = 2 * (Cardinality(Visited') - 1)
  <2>1. Visited \in SUBSET Cells /\ Passages \in SUBSET (Cells \X Directions)
    BY <1>3 DEF Visited, Passages
  <2>2. /\ IsFiniteSet(Visited) /\ Cardinality(Visited) \in Nat
        /\ IsFiniteSet(Passages) /\ Cardinality(Passages) \in Nat
    BY <2>1, FiniteMaze
  <2>3. Cardinality(Visited') = Cardinality(Visited) + 1
    BY <1>5, <2>2, FS_AddElement
  <2>4. PICK p, q : p = <<pos, d>> /\ q = <<to, opp>>
    OBVIOUS
  <2>5. p # q /\ p \notin Passages /\ q \notin Passages /\ Passages' = (Passages \union {p}) \union {q}
    BY <1>4, <1>5, <2>4
  <2> HIDE <2>4
  <2>6. /\ IsFiniteSet(Passages \union {p})
        /\ Cardinality(Passages \union {p}) = Cardinality(Passages) + 1
    BY <2>2, <2>5, FS_AddElement
  <2>7. Cardinality(Passages') = Cardinality(Passages) + 2
    <3>1. q \notin Passages \union {p}
      BY <2>5
    <3>2. Cardinality((Passages \union {p}) \union {q}) = Cardinality(Passages \union {p}) + 1
      BY <2>6, <3>1, FS_AddElement
    <3> QED BY <2>2, <2>5, <2>6, <3>2
  <2>8. Cardinality(Passages) = 2 * (Cardinality(Visited) - 1)
    BY <1>3 DEF TreeInv
  <2> QED BY <2>2, <2>3, <2>7, <2>8
<1>15. Unvisited \notin grid'[seed']
  BY <1>3, <1>5
<1> QED BY <1>9, <1>10, <1>11, <1>12, <1>13, <1>14, <1>15 DEF TreeInv

LEMMA DigPending ==
  ASSUME MazeStateOK, TreeInv, PendingInv, NEW d \in Directions, Dig(d)
  PROVE  PendingInv'
<1>1. PICK to : to = Beyond(pos, d)
  OBVIOUS
<1>2. /\ Generated /\ pos \in Cells /\ left > 0 /\ left \in Nat
      /\ pc' = "corridor" /\ pos' = to /\ left' = left - 1
  BY <1>1 DEF Dig, MazeStateOK, Generated
<1>3. /\ to \in Cells /\ to # pos /\ d \in UnvisitedDirections(pos)
      /\ grid'[pos] = Dug(grid[pos], d) /\ grid'[to] = {Opposite(d)}
      /\ \A c \in Cells \ {pos, to} : grid'[c] = grid[c]
      /\ DOMAIN startNodes \subseteq DOMAIN startNodes'
      /\ Cardinality(UnvisitedDirections(pos)) > 1 => pos \in DOMAIN startNodes'
      /\ left = 1 => to \in DOMAIN startNodes'
  BY <1>1, DigIs
<1>4. Opposite(d) \in Directions
  BY <1>2, DirectionIs
<1>5. \A c \in Cells : Unvisited \in grid'[c] => c # pos /\ c # to /\ grid'[c] = grid[c]
  BY <1>3, <1>4, BitsDiffer DEF Dug
<1>6. \A c \in Cells : UnvisitedDirections(c)' \subseteq UnvisitedDirections(c)
  BY <1>5 DEF UnvisitedDirections
<1>7. \A c \in Cells : c = pos => d \notin UnvisitedDirections(c)'
  BY <1>1, <1>5 DEF UnvisitedDirections
<1>8. Visited' = Visited \union {to}
  BY <1>1, DugMaze
<1>9. Visited \in SUBSET Cells
  BY DEF Visited, MazeStateOK
<1>10. ASSUME NEW c \in Visited, c # to, UnvisitedDirections(c)' # {}
       PROVE  c \in DOMAIN startNodes'
  <2>1. c \in Cells /\ UnvisitedDirections(c) # {}
    BY <1>6, <1>9, <1>10
  <2>2. CASE c # pos
    BY <1>2, <1>3, <2>1, <2>2 DEF PendingInv
  <2>3. CASE c = pos
    <3> DEFINE S == UnvisitedDirections(pos)
    <3>1. S \subseteq Directions /\ d \in S
      BY <1>3 DEF UnvisitedDirections
    <3>2. IsFiniteSet(S)
      BY <3>1, BitsDiffer, FS_Subset
    <3>3. S # {d}
      <4> SUFFICES ASSUME S = {d} PROVE FALSE
        OBVIOUS
      <4>1. \A e \in UnvisitedDirections(c)' : e \in UnvisitedDirections(c)
        BY <1>6, <2>1
      <4>2. \A e \in UnvisitedDirections(c)' : e = d
        BY <2>3, <4>1
      <4>3. d \notin UnvisitedDirections(c)'
        BY <1>7, <2>1, <2>3
      <4> QED BY <1>10, <4>2, <4>3
    <3> HIDE DEF S
    <3>4. Cardinality(S) \in Nat /\ Cardinality(S) # 0 /\ Cardinality(S) # 1
      <4>1. Cardinality(S) \in Nat
        BY <3>2, FS_CardinalityType
      <4>2. Cardinality(S) # 0
        BY <3>1, <3>2, FS_EmptySet
      <4>3. Cardinality(S) # 1
        BY <3>1, <3>2, <3>3, FS_Singleton
      <4> QED BY <4>1, <4>2, <4>3
    <3>5. Cardinality(S) > 1
      BY <3>4
    <3> QED BY <1>3, <2>3, <3>5 DEF S
  <2> QED BY <2>2, <2>3
<1>11. to \in DOMAIN startNodes' \/ left' > 0
  BY <1>2, <1>3
<1>12. \A c \in Visited' : UnvisitedDirections(c)' # {} =>
         c \in DOMAIN startNodes' \/ (c = to /\ left' > 0)
  BY <1>8, <1>10, <1>11
<1> QED BY <1>2, <1>12 DEF PendingInv

LEMMA BagSizes ==
  ASSUME MazeStateOK
  PROVE  /\ Cardinality(Copies(startNodes)) \in Nat /\ Cardinality(Passages) \in Nat
         /\ Cardinality(Visited) \in Nat /\ Cardinality(Visited) <= Cardinality(Cells)
         /\ Cardinality(Cells) \in Nat
<1>1. Visited \in SUBSET Cells /\ Passages \in SUBSET (Cells \X Directions)
  BY DEF Visited, Passages, MazeStateOK
<1> QED BY <1>1, FiniteMaze, FS_CardinalityType DEF MazeStateOK, IsCellBag

LEMMA DigCount ==
  ASSUME MazeStateOK, MazeStateOK', TreeInv, CountInv, NEW d \in Directions, Dig(d)
  PROVE  CountInv'
<1>1. PICK to : to = Beyond(pos, d)
  OBVIOUS
<1>2. /\ Generated /\ pc = "corridor" /\ pc' = "corridor" /\ iterations' = iterations
      /\ iterations \in Nat
  BY DEF Dig, MazeStateOK
<1>3. Cardinality(Copies(startNodes')) <= Cardinality(Copies(startNodes)) + 2
  BY <1>1, DigIs
<1>4. /\ Cardinality(Passages) = 2 * (Cardinality(Visited) - 1)
      /\ Cardinality(Passages') = 2 * (Cardinality(Visited') - 1)
  <2>1. Generated'
    BY <1>2 DEF Dig, Generated
  <2> QED BY <1>2, <2>1, DigTree DEF TreeInv
<1>5. Cardinality(Visited') = Cardinality(Visited) + 1
  <2>1. Visited \in SUBSET Cells
    BY DEF Visited, MazeStateOK
  <2>2. IsFiniteSet(Visited)
    BY <2>1, FiniteMaze
  <2>3. to \notin Visited /\ Visited' = Visited \union {to}
    BY <1>1, DugMaze
  <2> QED BY <2>2, <2>3, FS_AddElement
<1>6. /\ Cardinality(Copies(startNodes)) \in Nat /\ Cardinality(Copies(startNodes')) \in Nat
      /\ Cardinality(Visited) \in Nat
  BY BagSizes, FS_CardinalityType DEF MazeStateOK, IsCellBag
<1>7. iterations + Cardinality(Copies(startNodes)) + 1 <= Cardinality(Passages) + 1
  BY <1>2 DEF CountInv
<1>8. iterations + Cardinality(Copies(startNodes')) + 1 <= Cardinality(Passages') + 1
  BY <1>2, <1>3, <1>4, <1>5, <1>6, <1>7
<1> QED BY <1>2, <1>8 DEF CountInv

-----------------------------------------------------------------------------
(***************************************************************************)
(* The mazes.                                                              *)
(***************************************************************************)

LEMMA StepTree ==
  ASSUME MazeStateOK, TreeInv, [MazeNext]_mazeVars
  PROVE  TreeInv'
<1>1. MazeStateOK'
  BY StepTypes
<1>2. ASSUME NEW c \in Cells, NEW withLoops \in BOOLEAN, Generate(c, withLoops)
      PROVE  TreeInv'
  BY <1>2, GenerateIs
<1>3. ASSUME NEW d \in Directions, Dig(d) PROVE TreeInv'
  BY <1>3, DigTree
<1>4. ASSUME ~Generated, ~Generated' PROVE TreeInv'
  BY <1>4 DEF TreeInv
<1>5. ASSUME NEW c \in Cells, NEW length \in CorridorLengths, StartCorridor(c, length)
      PROVE  TreeInv'
  <2>1. Generated /\ pos' = c
    BY <1>5 DEF StartCorridor, MazeStateOK
  <2>2. pos' \in Visited /\ DOMAIN startNodes' \subseteq Visited
    BY <1>5, <2>1, StartIs DEF TreeInv
  <2> QED BY <1>1, <1>5, <2>2, SameMazeIs, OtherSteps
<1>6. ASSUME \/ EndCorridor \/ EndCorridors
             \/ \E lucky \in BOOLEAN : Connect(lucky)
             \/ EndLoops \/ UNCHANGED mazeVars
      PROVE  TreeInv'
  <2>1. pos' = pos /\ startNodes' = startNodes /\ generations' = generations
    BY <1>6 DEF EndCorridor, EndCorridors, Connect, EndLoops, mazeVars
  <2>2. SameMaze
    BY <1>6, OtherSteps
  <2>3. CASE Generated
    <3>1. pos' \in Visited /\ DOMAIN startNodes' \subseteq Visited
      BY <2>1, <2>3 DEF TreeInv
    <3> QED BY <1>1, <2>2, <3>1, SameMazeIs
  <2>4. CASE ~Generated
    BY <1>4, <2>1, <2>4 DEF Generated
  <2> QED BY <2>3, <2>4
<1> QED BY <1>2, <1>3, <1>5, <1>6 DEF MazeNext, Step

LEMMA MazeInvariant == MazeSpec => [](MazeStateOK /\ TreeInv)
<1>1. MazeInit => MazeStateOK /\ TreeInv
  <2> SUFFICES ASSUME MazeInit PROVE MazeStateOK /\ TreeInv
    OBVIOUS
  <2>1. grid \in [Cells -> SUBSET Bits]
    BY DEF MazeInit, Bits
  <2>2. <<>> \in Seq(Cells)
    OBVIOUS
  <2>3. ~Generated
    BY DEF MazeInit, Generated
  <2>4. /\ IsCellBag(startNodes) /\ seed \in Cells /\ pos \in Cells /\ loops \in BOOLEAN
        /\ left \in Nat /\ iterations \in Nat /\ generations \in Nat /\ pc = "done"
        /\ scan \in Seq(Cells)
    BY <2>2, EmptyIs DEF MazeInit
  <2> QED BY <2>1, <2>3, <2>4 DEF MazeStateOK, TreeInv
<1>2. MazeStateOK /\ TreeInv /\ [MazeNext]_mazeVars => (MazeStateOK /\ TreeInv)'
  BY StepTypes, StepTree
<1> QED BY <1>1, <1>2, PTL DEF MazeSpec

\* A passage can be taken both ways, and the passages make a tree that spans the
\* cells that were visited, at every step of the generation, on every grid and
\* whatever is drawn.
THEOREM CorridorsMakeATree == MazeSpec => []CorridorsAreATree
<1>1. MazeStateOK /\ TreeInv => CorridorsAreATree
  <2> SUFFICES ASSUME MazeStateOK, TreeInv, Generated PROVE CorridorsAreATree
    BY DEF CorridorsAreATree
  <2> DEFINE kept(S) == seed \in S /\ \A a \in S, d \in Directions : d \in grid[a] => Beyond(a, d) \in S
             least(S) == kept(S) /\ \A T \in SUBSET S : kept(T) => T = S
             R == CHOOSE S \in SUBSET Cells : least(S)
  <2>1. \A c \in Cells, d \in Directions : d \in grid[c] =>
          /\ Beyond(c, d) \in Cells
          /\ Opposite(d) \in grid[Beyond(c, d)] /\ Unvisited \notin grid[Beyond(c, d)]
    BY DEF TreeInv
  <2>2. Visited \in SUBSET Cells /\ kept(Visited)
    BY <2>1 DEF Visited, MazeStateOK
  <2>3. \A T \in SUBSET Cells : kept(T) => Visited \subseteq T
    BY DEF TreeInv, Keeps
  <2>4. least(Visited)
    BY <2>2, <2>3
  <2>5. R \in SUBSET Cells /\ least(R)
    <3> HIDE DEF least
    <3> QED BY <2>2, <2>4
  <2>6. R = Visited
    <3> HIDE DEF R
    <3> QED BY <2>2, <2>3, <2>5
  <2>7. ReachedFrom(seed, LAMBDA a, d : d \in grid[a]) = R
    BY DEF ReachedFrom
  <2>8. Cardinality(Passages) = 2 * (Cardinality(Visited) - 1)
    BY DEF TreeInv
  <2>9. \A p \in Passages : p[1] \in Cells /\ p[2] \in Directions /\ p[2] \in grid[p[1]]
    BY DEF Passages
  <2> HIDE DEF R
  <2> QED BY <2>1, <2>6, <2>7, <2>8, <2>9 DEF CorridorsAreATree
<1> QED BY <1>1, MazeInvariant, PTL

\* The limit on the iterations cuts no generation short that has half as many cells.
EnoughIterations == MaxIterations >= 2 * Cardinality(Cells)

WholeInv == PendingInv /\ CountInv

LEMMA StepWhole ==
  ASSUME EnoughIterations, MazeStateOK, TreeInv, WholeInv, [MazeNext]_mazeVars
  PROVE  WholeInv'
<1>1. MazeStateOK' /\ TreeInv'
  BY StepTypes, StepTree
<1>2. ASSUME NEW c \in Cells, NEW withLoops \in BOOLEAN, Generate(c, withLoops)
      PROVE  WholeInv'
  BY <1>2, GenerateIs DEF WholeInv
<1>3. ASSUME NEW d \in Directions, Dig(d) PROVE WholeInv'
  BY <1>1, <1>3, DigPending, DigCount DEF WholeInv
<1>4. ASSUME SameMaze
      PROVE  /\ Visited' = Visited /\ Passages' = Passages /\ Generated' = Generated
             /\ Visited \in SUBSET Cells
             /\ \A c \in Cells : UnvisitedDirections(c)' = UnvisitedDirections(c)
  BY <1>1, <1>4, SameMazeIs DEF Visited, MazeStateOK
<1>5. ASSUME NEW c \in Cells, NEW length \in CorridorLengths, StartCorridor(c, length)
      PROVE  WholeInv'
  <2>1. Generated /\ pc = "choose" /\ pc' = "corridor" /\ pos' = c /\ left' = length
        /\ iterations' = iterations /\ iterations \in Nat
    BY <1>5 DEF StartCorridor, MazeStateOK
  <2>2. length > 0
    BY MazeAssumption
  <2>3. /\ DOMAIN startNodes \subseteq DOMAIN startNodes' \union {c}
        /\ Cardinality(Copies(startNodes')) = Cardinality(Copies(startNodes)) - 1
    BY <1>5, StartIs
  <2>4. SameMaze
    BY <1>5, OtherSteps
  <2>5. PendingInv'
    BY <1>4, <2>1, <2>2, <2>3, <2>4 DEF WholeInv, PendingInv
  <2>6. CountInv'
    BY <1>4, <2>1, <2>3, <2>4, BagSizes DEF WholeInv, CountInv
  <2> QED BY <2>5, <2>6 DEF WholeInv
<1>6. CASE EndCorridor
  <2>1. /\ Generated /\ pc = "corridor" /\ iterations' = iterations + 1 /\ iterations \in Nat
        /\ startNodes' = startNodes /\ pos' = pos /\ left' = left /\ left \in Nat
        /\ left = 0 \/ UnvisitedDirections(pos) = {}
        /\ pc' = IF iterations' >= MaxIterations THEN After ELSE "choose"
    BY <1>6 DEF EndCorridor, MazeStateOK
  <2>2. SameMaze
    BY <1>6, OtherSteps
  <2>3. iterations' + Cardinality(Copies(startNodes)) <= Cardinality(Passages) + 1
    BY <2>1, BagSizes DEF WholeInv, CountInv
  <2>4. iterations' < MaxIterations
    <3>1. Cardinality(Passages) = 2 * (Cardinality(Visited) - 1)
      BY <2>1 DEF TreeInv
    <3>2. MaxIterations \in Nat /\ MaxIterations >= 2 * Cardinality(Cells)
      BY MazeAssumption DEF EnoughIterations
    <3> QED BY <2>1, <2>3, <3>1, <3>2, BagSizes
  <2>5. pc' = "choose"
    BY <2>1, <2>4, MazeAssumption
  <2>6. PendingInv'
    <3>1. \A c \in Visited : UnvisitedDirections(c) # {} =>
            c \in DOMAIN startNodes \/ (c = pos /\ left > 0)
      BY <2>1 DEF WholeInv, PendingInv
    <3>2. \A c \in Visited : UnvisitedDirections(c) # {} => c \in DOMAIN startNodes
      BY <2>1, <3>1
    <3> QED BY <1>4, <2>1, <2>2, <2>5, <3>2 DEF PendingInv
  <2>7. CountInv'
    BY <1>4, <2>1, <2>2, <2>3, <2>5, BagSizes DEF CountInv
  <2> QED BY <2>6, <2>7 DEF WholeInv
<1>7. CASE EndCorridors
  <2>1. /\ pc = "choose" /\ pc' = After /\ startNodes' = startNodes /\ startNodes = EmptyBag
        /\ pos' = pos /\ left' = left
    BY <1>7 DEF EndCorridors
  <2>2. SameMaze
    BY <1>7, OtherSteps
  <2>3. DOMAIN startNodes = {} /\ pc' \in {"loops", "done"}
    BY <2>1, EmptyIs DEF After
  <2> QED BY <1>4, <2>1, <2>2, <2>3 DEF WholeInv, PendingInv, CountInv
<1>8. ASSUME (\E lucky \in BOOLEAN : Connect(lucky)) \/ EndLoops PROVE WholeInv'
  <2>1. pc = "loops" /\ pc' \in {"loops", "done"} /\ startNodes' = startNodes
    BY <1>8 DEF Connect, EndLoops
  <2>2. SameMaze
    BY <1>8, OtherSteps
  <2> QED BY <1>4, <2>1, <2>2 DEF WholeInv, PendingInv, CountInv
<1>9. CASE UNCHANGED mazeVars
  <2>1. SameMaze
    BY <1>9, OtherSteps
  <2>2. pc' = pc /\ startNodes' = startNodes /\ pos' = pos /\ left' = left /\ iterations' = iterations
    BY <1>9 DEF mazeVars
  <2> QED BY <1>4, <2>1, <2>2 DEF WholeInv, PendingInv, CountInv
<1> QED BY <1>2, <1>3, <1>5, <1>6, <1>7, <1>8, <1>9 DEF MazeNext, Step

\* A maze that is done has every cell that disabled cells do not cut off from the
\* seed, on every grid and whatever is drawn, if maxIterations is at least twice the
\* number of cells: every iteration but the first stands for one side of a passage.
THEOREM MazesAreWhole ==
  ASSUME EnoughIterations
  PROVE  MazeSpec => []MazeIsWhole
<1>1. MazeInit => WholeInv
  BY DEF MazeInit, WholeInv, PendingInv, CountInv, Generated
<1>2. MazeStateOK /\ TreeInv /\ WholeInv /\ [MazeNext]_mazeVars => WholeInv'
  BY StepWhole
<1>3. MazeStateOK /\ TreeInv /\ WholeInv => MazeIsWhole
  <2> SUFFICES ASSUME MazeStateOK, TreeInv, PendingInv, Generated, pc = "done" PROVE MazeIsWhole
    BY DEF WholeInv, MazeIsWhole
  <2> DEFINE leads(a, d) == Beyond(a, d) \in Cells /\ Disabled \notin grid[Beyond(a, d)]
             kept(S) == seed \in S /\ \A a \in S, d \in Directions : leads(a, d) => Beyond(a, d) \in S
             least(S) == kept(S) /\ \A T \in SUBSET S : kept(T) => T = S
             R == CHOOSE S \in SUBSET Cells : least(S)
  <2>1. Visited \in SUBSET Cells /\ seed \in Visited
    BY DEF Visited, MazeStateOK
  <2>2. \A c \in Visited : UnvisitedDirections(c) = {}
    BY DEF PendingInv
  <2>3. kept(Visited)
    <3> SUFFICES ASSUME NEW a \in Visited, NEW d \in Directions, leads(a, d)
        PROVE Beyond(a, d) \in Visited
      BY <2>1
    <3>1. Unvisited \notin grid[Beyond(a, d)]
      BY <2>2 DEF UnvisitedDirections
    <3> QED BY <3>1 DEF Visited
  <2>4. ASSUME NEW T \in SUBSET Cells, kept(T) PROVE Visited \subseteq T
    <3>1. \A a \in T, d \in Directions : d \in grid[a] => leads(a, d)
      BY DEF TreeInv
    <3>2. Keeps(T)
      BY <2>4, <3>1 DEF Keeps
    <3> QED BY <3>2 DEF TreeInv
  <2>5. least(Visited)
    BY <2>1, <2>3, <2>4
  <2>6. R \in SUBSET Cells /\ least(R)
    <3> HIDE DEF least
    <3> QED BY <2>1, <2>5
  <2>7. R = Visited
    <3> HIDE DEF R
    <3> QED BY <2>1, <2>3, <2>4, <2>6
  <2>8. ReachedFrom(seed, LAMBDA a, d :
                    Beyond(a, d) \in Cells /\ Disabled \notin grid[Beyond(a, d)]) = R
    BY DEF ReachedFrom
  <2> HIDE DEF R
  <2> QED BY <2>7, <2>8 DEF MazeIsWhole
<1> QED BY <1>1, <1>2, <1>3, MazeInvariant, PTL DEF MazeSpec
=============================================================================

------------------------------ MODULE AssetBank ------------------------------
(***************************************************************************)
(* zn::AssetBank: load() reads or writes the manifest of a folder, scans   *)
(* the folder on demand, and loads what the manifest lists into one map    *)
(* per type of asset.  Around it, files come, go and break, the manifest   *)
(* may be deleted, and the program restarted.                              *)
(*                                                                         *)
(* A section of a manifest and a map are functions from names to paths,    *)
(* Nil where they have nothing; that a map holds the object loaded from   *)
(* the path is left out.  Paths are relative to the root.  A manifest that *)
(* is written can be read (JSON is left out), and one that cannot be read  *)
(* counts as none.                                                         *)
(***************************************************************************)
EXTENDS Integers, Sequences, FiniteSets

CONSTANTS
  Order,      \* the types of assets, in the order of loadAssets
  Files,      \* the paths
  TypeOf,     \* the type that the file associations give each of them, or Nil
  BaseName,   \* fileNameWithoutExtension of each of them
  Nil,
  Changes     \* bound: what may happen to files outside of the program

Types == {Order[k] : k \in DOMAIN Order}
Names == {BaseName[f] : f \in Files} \union Files

\* No file has the path of another one of its type for base name, as x.png.png has
\* that of x.png: what the scan then makes of them is left out.
ASSUME BankAssumption ==
  /\ Order \in Seq(Types) /\ IsFiniteSet(Files)
  /\ TypeOf \in [Files -> Types \union {Nil}] /\ Nil \notin Types
  /\ Nil \notin Files
  /\ \A f, g \in Files : TypeOf[f] # Nil /\ TypeOf[f] = TypeOf[g] => BaseName[f] # g
  /\ Changes \in Nat

Entries == [Types -> [Names -> Files \union {Nil}]]
NoEntries == [t \in Types |-> [n \in Names |-> Nil]]

VARIABLES
  disk,      \* the state of each file: "good", "broken" or "absent"
  manifest,  \* the manifest file, Nil if there is none
  maps,      \* the asset maps of the AssetBank
  last,      \* history: the last load, until something changes on the disk
  rescanned, \* history: the folder was scanned when there was a manifest or an asset
  changes    \* history: what happened to files so far

bankVars == <<disk, manifest, maps, last, rescanned, changes>>

Present == {f \in Files : disk[f] # "absent"}

NoLoad == [rescan |-> FALSE, ok |-> FALSE, seen |-> {}, listed |-> NoEntries]

BankInit ==
  /\ disk \in [Files -> {"good", "absent"}]
  /\ manifest = Nil
  /\ maps = NoEntries
  /\ last = NoLoad
  /\ rescanned = FALSE /\ changes = 0

-----------------------------------------------------------------------------
\* What getFiles gives: all the files that are there, or a part of them, for it passes
\* over a folder that cannot be opened, and does not ask whether stat() has failed.
FilesSeen == SUBSET Present

\* The files that scanFolder tells the type and base name of.
Homonyms(seen, t, n) == {f \in seen : TypeOf[f] = t /\ BaseName[f] = n}

\* The order of readdir is any: of the files with a type and base name, one is the
\* first.
Firsts(seen) ==
  {set \in SUBSET {f \in seen : TypeOf[f] # Nil} :
     \A t \in Types, n \in Names :
       Homonyms(seen, t, n) # {} => Cardinality(set \intersect Homonyms(seen, t, n)) = 1}

\* Slip: when a base name is taken, its first file gets its path for name as well.
ScannedTwice(seen, firsts) ==
  [t \in Types |-> [n \in Names |->
     IF Homonyms(seen, t, n) # {}
       THEN CHOOSE f \in Homonyms(seen, t, n) : f \in firsts
     ELSE IF n \in seen /\ TypeOf[n] = t /\ Cardinality(Homonyms(seen, t, BaseName[n])) > 1
       THEN n
     ELSE Nil]]

\* What scanFolder puts in a manifest: the first file with a base name gets it
\* as its name, and the others with this base name their path.  When the root itself
\* cannot be opened no file is seen, and it puts nothing.
Scanned(seen, firsts) ==
  [t \in Types |-> [n \in Names |->
     IF Homonyms(seen, t, n) # {}
       THEN CHOOSE f \in Homonyms(seen, t, n) : f \in firsts
     ELSE IF n \in seen \ firsts /\ TypeOf[n] = t THEN n
     ELSE Nil]]

\* merge, without overwriting.
Merged(entries, others) ==
  [t \in Types |-> [n \in Names |->
     IF entries[t][n] = Nil THEN others[t][n] ELSE entries[t][n]]]

\* The names that loadFromManifest finds in a section and not in the map, and
\* those of them that cannot be loaded.
Missing(listed, t) == {n \in Names : listed[t][n] # Nil /\ maps[t][n] = Nil}
Failing(listed, t) == {n \in Missing(listed, t) : disk[listed[t][n]] # "good"}

\* The place in the order of the first type for which loadAssets fails, or one
\* more than there are.
FirstFailure(listed) ==
  CHOOSE k \in 1..(Len(Order) + 1) :
    /\ k <= Len(Order) => Failing(listed, Order[k]) # {}
    /\ \A j \in 1..(k - 1) : Failing(listed, Order[j]) = {}

\* The maps of the types in whole are filled with all that is missing, and that
\* of the type t with the names in part.
Filled(listed, whole, t, part) ==
  [u \in Types |-> [n \in Names |->
     IF maps[u][n] = Nil /\ (u \in whole \/ (u = t /\ n \in part))
       THEN listed[u][n]
       ELSE maps[u][n]]]

\* All the types before the first that fails are loaded, that one up to an asset
\* that fails, in no order, and none of those after it.
LoadAssets(listed) ==
  LET k     == FirstFailure(listed)
      whole == {Order[j] : j \in 1..(k - 1)}
  IN  IF k > Len(Order)
        THEN maps' = Filled(listed, whole, Nil, {})
        ELSE \E part \in SUBSET (Missing(listed, Order[k]) \ Failing(listed, Order[k])) :
               maps' = Filled(listed, whole, Order[k], part)

\* Slip: only the result of the last type is looked at.
SucceedsLast(listed) == Failing(listed, Order[Len(Order)]) = {}

\* What loadAssets returns.
Succeeds(listed) == \A t \in Types : Failing(listed, t) = {}

\* load(root, rescan): the manifest is read, completed by a scan, and written if
\* there was none; what it lists is loaded.  Whether the scan and the writing succeed
\* is not asked.  The early return before is never taken: loadFileAssociations, asked
\* to create the file, returns true even when it cannot.
Load(rescan) ==
  \E seen \in IF rescan THEN FilesSeen ELSE {{}} : \E firsts \in Firsts(seen) :
    LET found  == IF manifest = Nil THEN NoEntries ELSE manifest
        listed == IF rescan THEN Merged(found, Scanned(seen, firsts)) ELSE found
    IN  /\ manifest' \in IF manifest = Nil THEN {listed, Nil} ELSE {manifest}
        /\ LoadAssets(listed)
        /\ last' = [rescan |-> rescan, ok |-> Succeeds(listed), seen |-> seen,
                    listed |-> listed]
        /\ rescanned' = (rescanned \/ (rescan /\ (manifest # Nil \/ maps # NoEntries)))
        /\ UNCHANGED <<disk, changes>>

\* Outside of the program a file comes, goes, breaks or is repaired.
ChangeFile(f, state) ==
  /\ changes < Changes
  /\ disk[f] # state
  /\ disk' = [disk EXCEPT ![f] = state]
  /\ last' = NoLoad
  /\ changes' = changes + 1
  /\ UNCHANGED <<manifest, maps, rescanned>>

DeleteManifest ==
  /\ changes < Changes
  /\ manifest # Nil
  /\ manifest' = Nil
  /\ last' = NoLoad
  /\ changes' = changes + 1
  /\ UNCHANGED <<disk, maps, rescanned>>

\* The program ends and is started again, with a new AssetBank.
Restart ==
  /\ maps # NoEntries
  /\ maps' = NoEntries
  /\ last' = NoLoad
  /\ UNCHANGED <<disk, manifest, rescanned, changes>>

BankNext ==
  \/ \E rescan \in BOOLEAN : Load(rescan)
  \/ \E f \in Files, state \in {"good", "broken", "absent"} : ChangeFile(f, state)
  \/ DeleteManifest
  \/ Restart

BankSpec == BankInit /\ [][BankNext]_bankVars

-----------------------------------------------------------------------------
(***************************************************************************)
(* Properties.                                                             *)
(***************************************************************************)

\* Types of the state.  A map holds only assets of its type.
BankTypeOK ==
  /\ disk \in [Files -> {"good", "broken", "absent"}]
  /\ manifest = Nil \/ manifest \in Entries
  /\ maps \in Entries
  /\ \A t \in Types, n \in Names : maps[t][n] # Nil => TypeOf[maps[t][n]] = t
  /\ last \in [rescan : BOOLEAN, ok : BOOLEAN, seen : SUBSET Files, listed : Entries]
  /\ rescanned \in BOOLEAN /\ changes \in 0..Changes

Loaded(t) == {maps[t][n] : n \in {m \in Names : maps[t][m] # Nil}}

\* A load that succeeds has loaded all that the manifest lists, whatever loads
\* failed before it; and one that scanned, "every asset contained" in the folder
\* (AssetBank.hpp:61) that getFiles has seen, as long as it is scanned only when there is
\* nothing yet.  It has not loaded what getFiles passed over, though it succeeds; and in
\* a later scan merge keeps the file that the manifest has under a name, and the file
\* that is found under this name is listed nowhere.
SuccessIsComplete ==
  last.ok =>
    /\ \A t \in Types, n \in Names : last.listed[t][n] # Nil => maps[t][n] # Nil
    /\ last.rescan /\ ~rescanned =>
         \A f \in last.seen : TypeOf[f] # Nil => f \in Loaded(TypeOf[f])

\* "assets with the same file path are not reloaded" (AssetMap.hpp:23): no file
\* is in a map under two names, as long as the folder is scanned only when there
\* is nothing yet.  load looks for the name alone, and a new scan may give a file
\* another name than the manifest or the map does.
LoadedOnce ==
  ~rescanned =>
    \A t \in Types, n \in Names, m \in Names :
      maps[t][n] # Nil /\ maps[t][n] = maps[t][m] => n = m
=============================================================================

------------------------- MODULE MCScenePersistence -------------------------
(***************************************************************************)
(* Small instances of ScenePersistence.                                    *)
(***************************************************************************)
EXTENDS ScenePersistence, TLC

\* Addresses are interchangeable.
EntitySymmetry == Permutations(Entity)
=============================================================================

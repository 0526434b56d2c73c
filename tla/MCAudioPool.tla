---------------------------- MODULE MCAudioPool ----------------------------
(***************************************************************************)
(* Small instances of AudioPool: a few emitters for a few sources.         *)
(***************************************************************************)
EXTENDS AudioPool, TLC

\* Addresses are interchangeable.
EmitterSymmetry == Permutations(Emitter)
=============================================================================

---------------------------- MODULE MCPathFinder ----------------------------
(***************************************************************************)
(* Small instances of PathFinder.                                          *)
(***************************************************************************)
EXTENDS PathFinder

\* The middle of a side, the corner next to it and the one across.
ThreeEnds == {<<0, 0>>, <<1, 0>>, <<2, 1>>}
=============================================================================

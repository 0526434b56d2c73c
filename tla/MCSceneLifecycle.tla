-------------------------- MODULE MCSceneLifecycle --------------------------
(***************************************************************************)
(* Small instances of SceneLifecycle: a few entities, one or two           *)
(* behaviours, one or two update orders.                                   *)
(***************************************************************************)
EXTENDS SceneLifecycle, TLC

CONSTANTS e1, e2, e3, c1, c2

\* A behaviour in the first of the lists.
OnlyOne == c1 :> 1

\* Two behaviours in the same list.
OneOrder == (c1 :> 1) @@ (c2 :> 1)
=============================================================================

---------------------------- MODULE MCAggregation ----------------------------
(***************************************************************************)
(* Instances of Aggregation for TLC: a proxy with one child of its own and *)
(* one that has none below the root, so that a value passes two scrapes    *)
(* and the root sums two children.                                         *)
(***************************************************************************)
EXTENDS Aggregation, TLC

CONSTANTS a, b, c

Tree == (a :> Root) @@ (b :> a) @@ (c :> Root)
==============================================================================

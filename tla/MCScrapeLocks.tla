--------------------------- MODULE MCScrapeLocks -----------------------------
(***************************************************************************)
(* The root scrapes two proxies, one with a child and one with two: when   *)
(* the first of them and a child of the second stop, the root and the      *)
(* second one report at the same time, and the deepest proxy may be a      *)
(* child of the second one.                                                *)
(***************************************************************************)
EXTENDS ScrapeLocks, TLC

CONSTANTS a, b, a1, b1, b2

MCTree == a :> Root @@ b :> Root @@ a1 :> a @@ b1 :> b @@ b2 :> b
MCLevel == Root :> 0 @@ a :> 1 @@ b :> 1 @@ a1 :> 2 @@ b1 :> 2 @@ b2 :> 2
==============================================================================

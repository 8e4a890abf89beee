-------------------------------- MODULE MCTbon --------------------------------
(***************************************************************************)
(* Instances of Tbon for TLC: a few proxies below one root, enough for a   *)
(* parent, its children and a deepest proxy elsewhere in the tree to be    *)
(* three different proxies when a repair happens.                          *)
(***************************************************************************)
EXTENDS Tbon, TLC

\* Proxies are interchangeable: the root tells them apart by position only.
Symmetry == Permutations(Proxies)
===============================================================================

--------------------------- MODULE MCJobRegistry ---------------------------
(***************************************************************************)
(* Instance of JobRegistry for TLC: two client connections and two scraped *)
(* children that share one application job beside "main", on an            *)
(* aggregating proxy, so that every kind of holder meets every other.      *)
(***************************************************************************)
EXTENDS JobRegistry, TLC

\* Connections and children are interchangeable.
Symmetry == Permutations(Clients) \cup Permutations(Children)
=============================================================================

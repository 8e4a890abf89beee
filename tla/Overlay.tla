------------------------------- MODULE Overlay --------------------------------
(***************************************************************************)
(* The proxies that the overlay network connects.  Tbon has the topology   *)
(* and its repair, ScrapeLocks who waits for whom during a repair.         *)
(***************************************************************************)
EXTENDS Integers, Sequences, FiniteSets

CONSTANTS
  Root,     \* the root proxy, which never stops
  Proxies,  \* the other proxies, named by their web URL
  None      \* no proxy

Nodes == Proxies \cup {Root}

ASSUME NodesAssumption == Root \notin Proxies /\ None \notin Nodes
===============================================================================

--------------------------- MODULE MCProfileStore ----------------------------
(***************************************************************************)
(* Two jobs and two commands.  Runs with one metric more than others, so   *)
(* that the average separates them; one that is not complete, one with a   *)
(* value that is not a number on a child, one that has a metric "walltime" *)
(* of its own, and one of another command.                                 *)
(***************************************************************************)
EXTENDS ProfileStore, TLC

CONSTANTS c, d

Run(command, metrics, own, complete, nan, child, start, stop) ==
  [cmd |-> command, metrics |-> metrics, own |-> own, complete |-> complete,
   nan |-> nan, child |-> child, start |-> start, stop |-> stop]

MCRuns == {Run(c, 1, FALSE, TRUE, FALSE, FALSE, 1, 2),
           Run(c, 2, FALSE, TRUE, TRUE, TRUE, 1, 3),
           Run(c, 2, FALSE, FALSE, FALSE, FALSE, 2, 3),
           Run(c, 3, FALSE, TRUE, FALSE, FALSE, 2, 3),
           Run(d, 1, TRUE, TRUE, FALSE, FALSE, 1, 2)}

\* Jobs and web threads are interchangeable.
Symmetry == Permutations(Jobs) \cup Permutations(Web)
==============================================================================

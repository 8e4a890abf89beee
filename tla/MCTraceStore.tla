----------------------------- MODULE MCTraceStore -----------------------------
(***************************************************************************)
(* Instances of TraceStore for TLC: two counters, a file of a few frames   *)
(* and enough time for the trace to be folded several times.               *)
(***************************************************************************)
EXTENDS TraceStore, TLC

\* Counters are interchangeable.
Symmetry == Permutations(Names)
===============================================================================

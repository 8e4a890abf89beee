----------------------------- MODULE MCClientLib -----------------------------
(***************************************************************************)
(* Two threads, a counter (the one that release counts in) and a gauge;    *)
(* other processes have described nothing, or the gauge as a counter.      *)
(***************************************************************************)
EXTENDS ClientLib

CONSTANTS f, g

MCAsks == [n \in {f, g} |-> IF n = f THEN {"counter"} ELSE {"gauge"}]
MCOthers == {[n \in {f, g} |-> "none"], [n \in {f, g} |-> IF n = g THEN "counter" ELSE "none"]}
==============================================================================

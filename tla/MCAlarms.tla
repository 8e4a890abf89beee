------------------------------ MODULE MCAlarms -------------------------------
(***************************************************************************)
(* One metric with three values, an alarm set on one of three conditions,  *)
(* one thread of each kind and two that write.                             *)
(***************************************************************************)
EXTENDS Alarms

CONSTANT load

MCConditions == {[metric |-> load, op |-> ">", bound |-> 0],
                 [metric |-> load, op |-> "=", bound |-> 1],
                 [metric |-> load, op |-> "<", bound |-> 2]}
==============================================================================

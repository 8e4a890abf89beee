------------------------------- MODULE JobLife -------------------------------
(***************************************************************************)
(* What the job registry of ExporterFactory promises to those who use it,  *)
(* without counters, passes and sessions: a job lives from the first use   *)
(* on; the step that ends the last use stores it, when this proxy keeps    *)
(* profiles, and ends its life.  A user that forgets what it uses instead  *)
(* of ending the use makes those jobs immortal.  JobRegistry implements    *)
(* this specification.                                                     *)
(***************************************************************************)
EXTENDS FiniteSets

CONSTANTS
  Jobs,     \* job ids
  Users,    \* client threads, scrapers, and the factory itself
  Owner,    \* the factory
  Pinned,   \* the jobs that the factory uses from the start
  Keeps     \* whether profiles are stored

VARIABLES
  uses,     \* the jobs that a user uses
  live,     \* the jobs that have an exporter
  stored,   \* the jobs that have a profile
  leaked    \* the jobs that a user forgot

vars == <<uses, live, stored, leaked>>

Init ==
  /\ uses = [u \in Users |-> IF u = Owner THEN Pinned ELSE {}]
  /\ live = Pinned
  /\ stored = {} /\ leaked = {}

\* resolve_job
Acquire(u, j) ==
  /\ j \notin uses[u]
  /\ uses' = [uses EXCEPT ![u] = @ \cup {j}]
  /\ live' = live \cup {j}
  /\ UNCHANGED <<stored, leaked>>

\* Nobody but u uses j or has forgotten it.
LastUse(u, j) == j \notin leaked /\ \A v \in Users \ {u} : j \notin uses[v]

EndLife(j) ==
  /\ live' = live \ {j}
  /\ stored' = IF Keeps THEN stored \cup {j} ELSE stored

\* relax_job: the exporter outlives its last use only when storing it fails,
\* before or after the profile was written.
Release(u, j) ==
  /\ j \in uses[u]
  /\ uses' = [uses EXCEPT ![u] = @ \ {j}]
  /\ \/ LastUse(u, j) /\ EndLife(j)
     \/ /\ ~LastUse(u, j)
        /\ UNCHANGED <<live, stored>>
     \/ /\ LastUse(u, j) /\ Keeps
        /\ stored' \in {stored, stored \cup {j}}
        /\ UNCHANGED live
  /\ UNCHANGED leaked

\* A client thread that ends on an error, scrapers dropped with their state.
Forget(U) ==
  /\ uses' = [u \in Users |-> IF u \in U THEN {} ELSE uses[u]]
  /\ leaked' = leaked \cup UNION {uses[u] : u \in U}
  /\ UNCHANGED <<live, stored>>

Next ==
  \/ \E u \in Users, j \in Jobs : Acquire(u, j) \/ Release(u, j)
  \/ \E U \in SUBSET Users : Forget(U)

Spec == Init /\ [][Next]_vars
==============================================================================

-------------------------- MODULE JobRegistryProofs --------------------------
(***************************************************************************)
(* Proofs about JobRegistry, for any finite sets of clients and children,  *)
(* any set of jobs and any bound on the abandoned references.              *)
(***************************************************************************)
EXTENDS JobRegistry, FiniteSetTheorems, TLAPS

(***************************************************************************)
(* Every job has finitely many holders, so that counting them means        *)
(* something.                                                              *)
(***************************************************************************)
LEMMA RefsFinite ==
  ASSUME NEW j
  PROVE  IsFiniteSet(Refs(j)) /\ Cardinality(Refs(j)) \in Nat
<1>1. IsFiniteSet(Clients \cup Children)
  BY HoldersAssumption, FS_Union
<1>2. IsFiniteSet(Holders)
  BY <1>1, FS_AddElement DEF Holders
<1>3. Refs(j) \in SUBSET Holders
  BY DEF Refs
<1>4. IsFiniteSet(Refs(j))
  BY <1>2, <1>3, FS_Subset
<1> QED
  BY <1>4, FS_CardinalityType

(***************************************************************************)
(* resolve_job by a holder that does not refer to the job yet keeps the    *)
(* counter in step with the holders.                                       *)
(***************************************************************************)
LEMMA TakeCounts ==
  ASSUME TypeOK, RefcountCovers, RefcountExactUnlessLost,
         NEW h \in Holders, NEW j \in Jobs, j \notin held[h],
         held' = [held EXCEPT ![h] = held[h] \cup {j}],
         counter' = [counter EXCEPT ![j] = @ + 1],
         lost' = 0 => lost = 0
  PROVE  RefcountCovers' /\ RefcountExactUnlessLost'
<1> SUFFICES ASSUME NEW k \in Jobs
             PROVE  /\ Cardinality(Refs(k)') <= counter'[k]
                    /\ lost' = 0 => counter'[k] = Cardinality(Refs(k)')
  BY DEF RefcountCovers, RefcountExactUnlessLost
<1>1. held[h] \cup {j} \in SUBSET Jobs
  BY DEF TypeOK
<1>2. Refs(k)' = IF k \in held[h] \cup {j} THEN Refs(k) \cup {h} ELSE Refs(k) \ {h}
  BY <1>1 DEF TypeOK, Refs
<1>3. /\ Cardinality(Refs(k)) <= counter[k] 
      /\ lost' = 0 => counter[k] = Cardinality(Refs(k))
      /\ counter[k] \in Nat
  BY DEF RefcountCovers, RefcountExactUnlessLost, TypeOK
<1>4. CASE k = j
  <2>1. h \notin Refs(k) /\ Refs(k)' = Refs(k) \cup {h}
    BY <1>2, <1>4 DEF Refs
  <2>2. Cardinality(Refs(k)') = Cardinality(Refs(k)) + 1
    BY <2>1, RefsFinite, FS_AddElement
  <2>3. counter'[k] = counter[k] + 1
    BY <1>4 DEF TypeOK
  <2> QED
    BY <2>2, <2>3, <1>3, RefsFinite
<1>5. CASE k # j
  <2>1. Refs(k)' = Refs(k)
    BY <1>2, <1>5 DEF Refs
  <2>2. counter'[k] = counter[k]
    BY <1>5 DEF TypeOK
  <2> QED
    BY <2>1, <2>2, <1>3
<1> QED
  BY <1>4, <1>5

(***************************************************************************)
(* relax_job by a holder of the job keeps the counter in step with the     *)
(* holders.                                                                *)
(***************************************************************************)
LEMMA GiveCounts ==
  ASSUME TypeOK, RefcountCovers, RefcountExactUnlessLost,
         NEW h \in Holders, NEW j \in Jobs, j \in held[h],
         held' = [held EXCEPT ![h] = held[h] \ {j}],
         counter' = [counter EXCEPT ![j] = @ - 1],
         lost' = 0 => lost = 0
  PROVE  /\ counter[j] \in Nat \ {0}
         /\ RefcountCovers' /\ RefcountExactUnlessLost'
<1>0. counter[j] \in Nat \ {0}
  <2>1. h \in Refs(j)
    BY DEF Refs
  <2>2. Cardinality(Refs(j)) # 0
    BY <2>1, RefsFinite, FS_EmptySet
  <2> QED
    BY <2>2, RefsFinite DEF RefcountCovers, TypeOK
<1> SUFFICES ASSUME NEW k \in Jobs
             PROVE  /\ Cardinality(Refs(k)') <= counter'[k]
                    /\ lost' = 0 => counter'[k] = Cardinality(Refs(k)')
  BY <1>0 DEF RefcountCovers, RefcountExactUnlessLost
<1>1. held[h] \ {j} \in SUBSET Jobs
  BY DEF TypeOK
<1>2. Refs(k)' = IF k \in held[h] \ {j} THEN Refs(k) \cup {h} ELSE Refs(k) \ {h}
  BY <1>1 DEF TypeOK, Refs
<1>3. /\ Cardinality(Refs(k)) <= counter[k] 
      /\ lost' = 0 => counter[k] = Cardinality(Refs(k))
      /\ counter[k] \in Nat
  BY DEF RefcountCovers, RefcountExactUnlessLost, TypeOK
<1>4. CASE k = j
  <2>1. h \in Refs(k) /\ Refs(k)' = Refs(k) \ {h}
    BY <1>2, <1>4 DEF Refs
  <2>2. Cardinality(Refs(k)') = Cardinality(Refs(k)) - 1
    BY <2>1, RefsFinite, FS_RemoveElement
  <2>3. counter'[k] = counter[k] - 1
    BY <1>4 DEF TypeOK
  <2> QED
    BY <2>2, <2>3, <1>3, RefsFinite
<1>5. CASE k # j
  <2>1. Refs(k)' = Refs(k)
    BY <1>2, <1>5 DEF Refs
  <2>2. counter'[k] = counter[k]
    BY <1>5 DEF TypeOK
  <2> QED
    BY <2>1, <2>2, <1>3
<1> QED
  BY <1>4, <1>5

(***************************************************************************)
(* A step that leaves the counters alone and takes no reference keeps them *)
(* above the number of holders; the two agree as long as nothing is lost.  *)
(***************************************************************************)
LEMMA DropCounts ==
  ASSUME TypeOK, RefcountCovers, RefcountExactUnlessLost,
         \A h \in Holders : held'[h] \subseteq held[h],
         counter' = counter,
         lost' = 0 => lost = 0 /\ \A h \in Holders : held'[h] = held[h]
  PROVE  RefcountCovers' /\ RefcountExactUnlessLost'
<1> SUFFICES ASSUME NEW k \in Jobs
             PROVE  /\ Cardinality(Refs(k)') <= counter'[k]
                    /\ lost' = 0 => counter'[k] = Cardinality(Refs(k)')
  BY DEF RefcountCovers, RefcountExactUnlessLost
<1>1. Refs(k)' \in SUBSET Refs(k)
  BY DEF Refs
<1>2. Cardinality(Refs(k)') <= Cardinality(Refs(k)) /\ IsFiniteSet(Refs(k)')
  BY <1>1, RefsFinite, FS_Subset
<1>3. Cardinality(Refs(k)') \in Nat
  BY <1>2, FS_CardinalityType
<1>4. Cardinality(Refs(k)) <= counter[k] /\ counter[k] \in Nat
  BY DEF RefcountCovers, TypeOK
<1>5. lost' = 0 => Refs(k)' = Refs(k)
  BY DEF Refs
<1> QED
  BY <1>2, <1>3, <1>4, <1>5, RefsFinite DEF RefcountExactUnlessLost

-----------------------------------------------------------------------------
(***************************************************************************)
(* What resolve_job keeps, whoever calls it: the types of the table, its   *)
(* consistency, and a scraper for every open trace.                        *)
(***************************************************************************)
LEMMA ResolveKeeps ==
  ASSUME IndInv, NEW j \in Jobs, NEW local \in BOOLEAN, Resolve(j, local),
         UNCHANGED <<tracers, broken>>
  PROVE  /\ perjob' \subseteq Jobs /\ counter' \in [Jobs -> Nat]
         /\ islocal' \in [Jobs -> BOOLEAN] /\ pending' \subseteq Jobs
         /\ trace' \in [Jobs -> {"none", "open", "done"}]
         /\ saved' \in [Jobs -> {"never", "ended", "running"}]
         /\ perjob \subseteq perjob' /\ j \in perjob'
         /\ \A k \in Jobs : trace[k] = "done" => trace'[k] = "done"
         /\ OpenTraceIsScrapedUnlessBroken' /\ TableConsistent'
<1> USE ParametersAssumption DEF IndInv, TypeOK, Resolve
<1>0. PICK t \in {"none", "open", "done"} :
        /\ trace' = [trace EXCEPT ![j] = t]
        /\ pending' = IF j \notin perjob /\ t # "none" THEN pending \cup {j} ELSE pending
        /\ t = trace[j] \/ (Aggregator /\ trace[j] = "none" /\ j \notin perjob)
  BY DEF TraceOf
<1>1. perjob' \subseteq Jobs /\ perjob \subseteq perjob' /\ j \in perjob'
  OBVIOUS
<1>2. counter' \in [Jobs -> Nat] /\ pending' \subseteq Jobs
  OBVIOUS
<1>3. islocal' \in [Jobs -> BOOLEAN]
  <2>1. local \/ (~(j \notin perjob) /\ islocal[j]) \in BOOLEAN
    OBVIOUS
  <2> QED BY <2>1
<1>4. /\ trace' \in [Jobs -> {"none", "open", "done"}]
      /\ \A k \in Jobs : trace[k] = "done" => trace'[k] = "done"
      /\ saved' \in [Jobs -> {"never", "ended", "running"}]
      /\ ~Aggregator => trace' = trace
      /\ \A k \in Jobs : trace'[k] = "open" => trace[k] = "open" \/ k \in pending'
      /\ pending \subseteq pending'
  BY <1>0
<1>5. OpenTraceIsScrapedUnlessBroken'
  BY <1>4 DEF OpenTraceIsScrapedUnlessBroken
<1>6. TableConsistent'
  BY <1>1, <1>4 DEF TableConsistent
<1> QED
  BY <1>1, <1>2, <1>3, <1>4, <1>5, <1>6

(***************************************************************************)
(* What relax_job does for a caller that holds the job: it counts one      *)
(* reference less and retires the job when that was the last one.          *)
(***************************************************************************)
LEMMA RelaxKeeps ==
  ASSUME IndInv, NEW j \in Jobs, NEW end \in {"ended", "running"},
         NEW result \in {"ok", "nofile", "nomodel"},
         j \in perjob, counter[j] \in Nat \ {0},
         Relax(j, end, result), UNCHANGED <<tracers, broken>>
  PROVE  /\ counter' = [counter EXCEPT ![j] = @ - 1]
         /\ perjob' \subseteq Jobs /\ counter' \in [Jobs -> Nat]
         /\ islocal' \in [Jobs -> BOOLEAN] /\ pending' \subseteq Jobs
         /\ trace' \in [Jobs -> {"none", "open", "done"}]
         /\ saved' \in [Jobs -> {"never", "ended", "running"}]
         /\ perjob' = perjob \/ (perjob' = perjob \ {j} /\ counter[j] = 1)
         /\ j \notin perjob' => trace'[j] # "open"
         /\ j \notin perjob' /\ Aggregator => saved'[j] # "never"
         /\ \A k \in Jobs : trace[k] = "done" => trace'[k] = "done"
         /\ OpenTraceIsScrapedUnlessBroken' /\ TableConsistent'
<1> USE ParametersAssumption DEF IndInv, TypeOK
<1>1. counter' = [counter EXCEPT ![j] = @ - 1] /\ UNCHANGED pending
  BY DEF Relax
<1>2. counter' \in [Jobs -> Nat] /\ pending' \subseteq Jobs
  BY <1>1
<1>3. CASE counter[j] = 1 /\ result \notin Failures
  <2>1. Retire(j, end)
    BY <1>3 DEF Relax
  <2>2. /\ perjob' = perjob \ {j}
        /\ islocal' \in [Jobs -> BOOLEAN]
        /\ saved' \in [Jobs -> {"never", "ended", "running"}]
        /\ trace' \in [Jobs -> {"none", "open", "done"}]
        /\ \A k \in Jobs : trace[k] = "done" => trace'[k] = "done"
        /\ \A k \in Jobs : trace'[k] = "open" => trace[k] = "open"
        /\ ~Aggregator => trace' = trace
    BY <2>1 DEF Retire
  <2>3. (Aggregator => saved'[j] # "never") /\ trace'[j] # "open"
    BY <2>1 DEF Retire, TableConsistent
  <2>4. OpenTraceIsScrapedUnlessBroken'
    BY <1>1, <2>2 DEF OpenTraceIsScrapedUnlessBroken
  <2>5. TableConsistent'
    <3>1. \A k \in Jobs \ perjob' : counter'[k] = 0
      BY <1>1, <1>3, <2>2 DEF TableConsistent
    <3>2. ~Aggregator => \A k \in Jobs : trace'[k] = "none"
      BY <2>2 DEF TableConsistent
    <3> QED
      BY <3>1, <3>2 DEF TableConsistent
  <2> QED
    BY <1>1, <1>2, <1>3, <2>2, <2>3, <2>4, <2>5
<1>4. CASE ~(counter[j] = 1 /\ result \notin Failures)
  <2>1. /\ UNCHANGED <<perjob, islocal, trace>>
        /\ saved' = IF result = "nomodel" THEN [saved EXCEPT ![j] = end] ELSE saved
    BY <1>4 DEF Relax
  <2>2. saved' \in [Jobs -> {"never", "ended", "running"}]
    BY <2>1
  <2>3. OpenTraceIsScrapedUnlessBroken'
    BY <1>1, <2>1 DEF OpenTraceIsScrapedUnlessBroken
  <2>4. TableConsistent'
    BY <1>1, <2>1 DEF TableConsistent
  <2> QED
    BY <1>1, <1>2, <2>1, <2>2, <2>3, <2>4
<1> QED
  BY <1>3, <1>4

-----------------------------------------------------------------------------
\* The initial state satisfies the inductive invariant.
LEMMA InitIndInv == Init => IndInv
<1> SUFFICES ASSUME Init PROVE IndInv
  OBVIOUS
<1> USE JobsAssumption, HoldersAssumption, ParametersAssumption DEF Init
<1>1. TypeOK
  <2>1. /\ perjob \subseteq Jobs /\ counter \in [Jobs -> Nat]
        /\ islocal \in [Jobs -> BOOLEAN] /\ held \in [Holders -> SUBSET Jobs]
        /\ session \in [Clients -> {"closed", "open", "identified"}]
    OBVIOUS
  <2>2. /\ scrapes \subseteq Children /\ tracers \subseteq Jobs /\ pending \subseteq Jobs
        /\ trace \in [Jobs -> {"none", "open", "done"}]
        /\ saved \in [Jobs -> {"never", "ended", "running"}]
    OBVIOUS
  <2>3. /\ pass \in BOOLEAN /\ left \subseteq Children \cup Jobs
        /\ cur \in Children \cup {None}
        /\ gone \subseteq Jobs /\ todo \subseteq Jobs
        /\ failed \subseteq Children \cup Jobs
    OBVIOUS
  <2>4. /\ lost \in 0 .. MaxLost /\ broken \subseteq Jobs
        /\ relaxed \in [Children -> SUBSET Jobs]
    OBVIOUS
  <2> QED
    BY <2>1, <2>2, <2>3, <2>4 DEF TypeOK
<1>2. \A j \in Jobs : Cardinality(Refs(j)) = counter[j]
  <2> SUFFICES ASSUME NEW j \in Jobs PROVE Cardinality(Refs(j)) = counter[j]
    OBVIOUS
  <2>1. Refs(j) = IF j \in SysJobs THEN {Self} ELSE {}
    BY DEF Refs, Holders
  <2> QED
    BY <2>1, FS_EmptySet, FS_Singleton
<1>3. RefcountCovers /\ RefcountExactUnlessLost
  BY <1>1, <1>2 DEF RefcountCovers, RefcountExactUnlessLost, TypeOK
<1>4. HeldJobsRegistered /\ OpenTraceIsScrapedUnlessBroken /\ TableConsistent
  BY DEF HeldJobsRegistered, OpenTraceIsScrapedUnlessBroken, TableConsistent
<1>5. SessionsHoldOneJob /\ PassConsistent /\ FailedHaveNothingToLose
  BY DEF SessionsHoldOneJob, PassConsistent, FailedHaveNothingToLose, Holders
<1> QED
  BY <1>1, <1>3, <1>4, <1>5 DEF IndInv

(***************************************************************************)
(* Steps that touch neither the table nor what anyone holds: they only     *)
(* have to keep the types, the scraping thread's own conditions and the    *)
(* trace scrapers.                                                         *)
(***************************************************************************)
LEMMA QuietStep ==
  ASSUME IndInv, UNCHANGED <<registry, held, tracers, lost>>,
         session' \in [Clients -> {"closed", "open", "identified"}],
         \A c \in Clients : session[c] = "identified" => session'[c] = "identified",
         UNCHANGED scrapes, pass' \in BOOLEAN,
         left' \subseteq Children \cup Jobs, cur' \in Children \cup {None},
         gone' \subseteq Jobs, todo' \subseteq Jobs,
         failed' \subseteq Children \cup Jobs,
         relaxed' \in [Children -> SUBSET Jobs],
         broken' \subseteq Jobs, broken \subseteq broken',
         PassConsistent', FailedHaveNothingToLose'
  PROVE  IndInv'
<1> USE DEF IndInv, registry
<1>1. TypeOK'
  BY DEF TypeOK
<1>2. RefcountCovers' /\ RefcountExactUnlessLost'
  BY DropCounts
<1>3. HeldJobsRegistered' /\ OpenTraceIsScrapedUnlessBroken' /\ TableConsistent'
  BY DEF HeldJobsRegistered, OpenTraceIsScrapedUnlessBroken, TableConsistent
<1>4. SessionsHoldOneJob'
  BY DEF SessionsHoldOneJob
<1> QED
  BY <1>1, <1>2, <1>3, <1>4

(***************************************************************************)
(* A scraper takes its first reference on a job it found at its child: the *)
(* common part of a scrape that goes on and of one that fails.             *)
(***************************************************************************)
LEMMA UpdateHolds ==
  ASSUME IndInv, cur \in Children, NEW j \in Jobs,
         IF j \in held[cur] THEN UNCHANGED registry ELSE Resolve(j, FALSE),
         held' = [held EXCEPT ![cur] = @ \cup {j}],
         lost' \in 0 .. MaxLost, lost' = 0 => lost = 0,
         UNCHANGED <<relaxed, session, scrapes, tracers, broken>>,
         pass' \in BOOLEAN, left' \subseteq Children \cup Jobs,
         cur' \in Children \cup {None}, gone' \subseteq Jobs, todo' \subseteq Jobs,
         failed' \subseteq Children \cup Jobs,
         PassConsistent',
         failed' \cap Jobs = failed \cap Jobs,
         lost' = 0 => \A s \in failed' \cap Children : held'[s] = {}
  PROVE  IndInv'
<1> USE DEF IndInv
<1>0. cur \in Holders /\ held' \in [Holders -> SUBSET Jobs]
  BY DEF TypeOK, Holders
<1>1. CASE j \in held[cur]
  <2>1. UNCHANGED registry /\ held' = held
    BY <1>1, <1>0 DEF TypeOK
  <2>2. TypeOK'
    BY <2>1, <1>0 DEF TypeOK, registry
  <2>3. RefcountCovers' /\ RefcountExactUnlessLost'
    BY <2>1, DropCounts DEF registry
  <2>4. HeldJobsRegistered' /\ OpenTraceIsScrapedUnlessBroken' /\ TableConsistent'
    BY <2>1 DEF HeldJobsRegistered, OpenTraceIsScrapedUnlessBroken, TableConsistent, registry
  <2>5. SessionsHoldOneJob'
    BY <2>1 DEF SessionsHoldOneJob
  <2>6. FailedHaveNothingToLose'
    BY <2>1 DEF FailedHaveNothingToLose, registry
  <2> QED
    BY <2>2, <2>3, <2>4, <2>5, <2>6
<1>2. CASE j \notin held[cur]
  <2>1. Resolve(j, FALSE)
    BY <1>2
  <2>2. /\ perjob' \subseteq Jobs /\ counter' \in [Jobs -> Nat]
        /\ islocal' \in [Jobs -> BOOLEAN] /\ pending' \subseteq Jobs
        /\ trace' \in [Jobs -> {"none", "open", "done"}]
        /\ saved' \in [Jobs -> {"never", "ended", "running"}]
        /\ perjob \subseteq perjob' /\ j \in perjob'
        /\ \A k \in Jobs : trace[k] = "done" => trace'[k] = "done"
        /\ OpenTraceIsScrapedUnlessBroken' /\ TableConsistent'
    BY <2>1, ResolveKeeps
  <2>3. TypeOK'
    BY <2>2, <1>0 DEF TypeOK
  <2>4. counter' = [counter EXCEPT ![j] = @ + 1]
    BY <2>1 DEF Resolve
  <2>5. RefcountCovers' /\ RefcountExactUnlessLost'
    BY <1>0, <1>2, <2>4, TakeCounts
  <2>6. HeldJobsRegistered'
    BY <2>2, <1>0 DEF HeldJobsRegistered, TypeOK
  <2>7. SessionsHoldOneJob'
    BY <1>0, HoldersAssumption DEF SessionsHoldOneJob, Holders, TypeOK
  <2>8. FailedHaveNothingToLose'
    BY <2>2 DEF FailedHaveNothingToLose
  <2> QED
    BY <2>2, <2>3, <2>5, <2>6, <2>7, <2>8
<1> QED
  BY <1>1, <1>2

(***************************************************************************)
(* A holder drops its reference with relax_job: the counters stay in step  *)
(* with the holders, and a job that leaves the table is one nothing refers *)
(* to, stored and closed.                                                  *)
(***************************************************************************)
LEMMA RelaxRetires ==
  ASSUME IndInv, NEW h \in Holders, NEW j \in held[h],
         NEW end \in {"ended", "running"},
         NEW result \in {"ok", "nofile", "nomodel"}, Relax(j, end, result),
         held' = [held EXCEPT ![h] = held[h] \ {j}],
         lost' = 0 => lost = 0, UNCHANGED <<tracers, broken>>
  PROVE  /\ RefcountCovers' /\ RefcountExactUnlessLost' /\ HeldJobsRegistered'
         /\ counter[j] \in Nat \ {0}
         /\ RetiresUnused
<1> USE DEF IndInv
<1>0. /\ held' \in [Holders -> SUBSET Jobs]
      /\ j \in Jobs /\ j \in perjob
  BY DEF TypeOK, HeldJobsRegistered
<1>1. counter' = [counter EXCEPT ![j] = @ - 1]
  BY <1>0 DEF Relax
<1>2. /\ counter[j] \in Nat \ {0}
      /\ RefcountCovers' /\ RefcountExactUnlessLost'
  BY <1>0, <1>1, GiveCounts
<1>3. /\ perjob' = perjob \/ (perjob' = perjob \ {j} /\ counter[j] = 1)
      /\ j \notin perjob' => trace'[j] # "open"
      /\ j \notin perjob' /\ Aggregator => saved'[j] # "never"
  BY <1>0, <1>2, RelaxKeeps
<1>4. \A g \in Holders : held'[g] \subseteq held[g]
  BY <1>0 DEF TypeOK
<1>5. counter[j] = 1 => Refs(j)' = {}
  <2> SUFFICES ASSUME counter[j] = 1 PROVE Refs(j)' = {}
    OBVIOUS
  <2>1. counter'[j] = 0
    BY <1>0, <1>1 DEF TypeOK
  <2>2. Cardinality(Refs(j)') <= 0
    BY <2>1, <1>0, <1>2 DEF RefcountCovers
  <2>3. Refs(j)' \in SUBSET Refs(j)
    BY <1>4 DEF Refs
  <2>4. IsFiniteSet(Refs(j)')
    BY <2>3, RefsFinite, FS_Subset
  <2> QED
    BY <2>2, <2>4, FS_CardinalityType, FS_EmptySet
<1>6. HeldJobsRegistered'
  <2>1. CASE perjob' = perjob
    BY <2>1, <1>4 DEF HeldJobsRegistered
  <2>2. CASE perjob' = perjob \ {j} /\ counter[j] = 1
    <3>1. \A g \in Holders : j \notin held'[g]
      BY <2>2, <1>5 DEF Refs
    <3> QED
      BY <2>2, <3>1, <1>4 DEF HeldJobsRegistered
  <2> QED
    BY <2>1, <2>2, <1>3
<1>7. RetiresUnused
  <2> SUFFICES ASSUME NEW k \in perjob, k \notin perjob'
               PROVE  /\ Refs(k)' = {}
                      /\ Aggregator => saved'[k] # "never"
                      /\ trace'[k] # "open"
    BY DEF RetiresUnused
  <2>1. k = j /\ counter[j] = 1
    BY <1>3
  <2>2. Refs(k)' = {}
    BY <2>1, <1>5
  <2>3. (Aggregator => saved'[k] # "never") /\ trace'[k] # "open"
    BY <2>1, <1>3
  <2> QED
    BY <2>2, <2>3
<1> QED
  BY <1>2, <1>6, <1>7

(***************************************************************************)
(* Dropping a reference with relax_job, by a client thread at end of file  *)
(* or by a scraper for a job that has left its child, keeps the invariant, *)
(* whether or not the profile can be stored.                               *)
(***************************************************************************)
LEMMA RelaxHolds ==
  ASSUME IndInv, NEW h \in Holders, NEW j \in held[h],
         NEW end \in {"ended", "running"},
         NEW result \in {"ok", "nofile", "nomodel"}, Relax(j, end, result),
         held' = [held EXCEPT ![h] = held[h] \ {j}],
         session' \in [Clients -> {"closed", "open", "identified"}],
         lost' \in 0 .. MaxLost, lost' = 0 => lost = 0,
         relaxed' \in [Children -> SUBSET Jobs],
         UNCHANGED <<scrapes, tracers, broken>>,
         pass' \in BOOLEAN, left' \subseteq Children \cup Jobs,
         cur' \in Children \cup {None}, gone' \subseteq Jobs, todo' \subseteq Jobs,
         failed' \subseteq Children \cup Jobs,
         PassConsistent', SessionsHoldOneJob',
         failed' \cap Jobs = failed \cap Jobs,
         lost' = 0 => \A s \in failed' \cap Children : held'[s] = {}
  PROVE  IndInv'
<1> USE DEF IndInv
<1>0. /\ held' \in [Holders -> SUBSET Jobs]
      /\ j \in Jobs /\ j \in perjob
  BY DEF TypeOK, HeldJobsRegistered
<1>1. /\ RefcountCovers' /\ RefcountExactUnlessLost' /\ HeldJobsRegistered'
      /\ counter[j] \in Nat \ {0}
  BY RelaxRetires
<1>2. /\ perjob' \subseteq Jobs /\ counter' \in [Jobs -> Nat]
      /\ islocal' \in [Jobs -> BOOLEAN] /\ pending' \subseteq Jobs
      /\ trace' \in [Jobs -> {"none", "open", "done"}]
      /\ saved' \in [Jobs -> {"never", "ended", "running"}]
      /\ \A k \in Jobs : trace[k] = "done" => trace'[k] = "done"
      /\ OpenTraceIsScrapedUnlessBroken' /\ TableConsistent'
  BY <1>0, <1>1, RelaxKeeps
<1>3. TypeOK'
  BY <1>2, <1>0 DEF TypeOK
<1>4. FailedHaveNothingToLose'
  BY <1>2 DEF FailedHaveNothingToLose
<1> QED
  BY <1>1, <1>2, <1>3, <1>4

-----------------------------------------------------------------------------
(***************************************************************************)
(* One lemma per kind of step.  The steps of the client threads.           *)
(***************************************************************************)
LEMMA ClientKeeps ==
  ASSUME IndInv, NEW c \in Clients, ClientStep(c)
  PROVE  IndInv'
<1> USE DEF IndInv
<1>0. c \in Holders /\ cur # c /\ c \notin Children
  BY HoldersAssumption DEF TypeOK, Holders
<1>1. CASE Connect(c)
  <2>1. session' \in [Clients -> {"closed", "open", "identified"}]
    BY <1>1 DEF Connect, TypeOK
  <2>2. \A d \in Clients : session[d] = "identified" => session'[d] = "identified"
    BY <1>1 DEF Connect, TypeOK
  <2> QED
    BY <1>1, <2>1, <2>2, QuietStep
       DEF Connect, TypeOK, loop, history, registry, PassConsistent, FailedHaveNothingToLose
<1>2. CASE RecvAnonymousJobDesc(c)
  <2>1. session' \in [Clients -> {"closed", "open", "identified"}]
    BY <1>2 DEF RecvAnonymousJobDesc, TypeOK
  <2>2. \A d \in Clients : session[d] = "identified" => session'[d] = "identified"
    BY <1>2 DEF RecvAnonymousJobDesc, TypeOK
  <2> QED
    BY <1>2, <2>1, <2>2, QuietStep
       DEF RecvAnonymousJobDesc, TypeOK, loop, history, registry, PassConsistent,
           FailedHaveNothingToLose
<1>3. CASE RecvJobDesc(c)
  <2>1. PICK j \in AppJobs : Resolve(j, TRUE) /\ held' = [held EXCEPT ![c] = {j}]
    BY <1>3 DEF RecvJobDesc
  <2>2. j \in Jobs /\ held[c] = {} /\ held' = [held EXCEPT ![c] = held[c] \cup {j}]
    BY <2>1, <1>3 DEF AppJobs, RecvJobDesc, SessionsHoldOneJob
  <2>3. /\ perjob' \subseteq Jobs /\ counter' \in [Jobs -> Nat]
        /\ islocal' \in [Jobs -> BOOLEAN] /\ pending' \subseteq Jobs
        /\ trace' \in [Jobs -> {"none", "open", "done"}]
        /\ saved' \in [Jobs -> {"never", "ended", "running"}]
        /\ perjob \subseteq perjob' /\ j \in perjob'
        /\ \A k \in Jobs : trace[k] = "done" => trace'[k] = "done"
        /\ OpenTraceIsScrapedUnlessBroken' /\ TableConsistent'
    BY <2>1, <2>2, <1>3, ResolveKeeps DEF RecvJobDesc, history
  <2>4. TypeOK'
    BY <1>0, <1>3, <2>2, <2>3 DEF TypeOK, RecvJobDesc, loop, history
  <2>5. RefcountCovers' /\ RefcountExactUnlessLost'
    <3>1. counter' = [counter EXCEPT ![j] = @ + 1]
      BY <2>1 DEF Resolve
    <3>2. lost' = lost /\ j \notin held[c]
      BY <1>3, <2>2 DEF RecvJobDesc, history
    <3> QED
      BY <1>0, <2>2, <3>1, <3>2, TakeCounts
  <2>6. HeldJobsRegistered'
    BY <1>0, <2>1, <2>3 DEF HeldJobsRegistered, TypeOK
  <2>7. SessionsHoldOneJob'
    BY <1>0, <1>3, <2>1 DEF SessionsHoldOneJob, RecvJobDesc, TypeOK
  <2>8. PassConsistent' /\ FailedHaveNothingToLose'
    BY <1>0, <1>3, <2>1, <2>3
       DEF PassConsistent, FailedHaveNothingToLose, RecvJobDesc, loop, history, TypeOK, Holders
  <2> QED
    BY <2>3, <2>4, <2>5, <2>6, <2>7, <2>8
<1>4. CASE ClientLeaves(c)
  <2>0. /\ session' \in [Clients -> {"closed", "open", "identified"}]
        /\ held' = [held EXCEPT ![c] = {}]
        /\ UNCHANGED <<relaxed, scrapes, tracers, loop, history>>
    BY <1>4 DEF ClientLeaves, TypeOK
  <2>1. SessionsHoldOneJob'
    BY <1>0, <1>4, <2>0 DEF SessionsHoldOneJob, TypeOK, ClientLeaves
  <2>2. PassConsistent'
    BY <1>0, <2>0 DEF PassConsistent, loop, TypeOK, Holders
  <2>3. \A s \in failed' \cap Children : held'[s] = held[s]
    BY <1>0, <2>0 DEF TypeOK, Holders
  <2>4. CASE held[c] = {}
    <3>1. UNCHANGED registry /\ held' = held
      BY <1>0, <1>4, <2>0, <2>4 DEF ClientLeaves, TypeOK
    <3>2. TypeOK'
      BY <2>0, <3>1 DEF TypeOK, registry, loop, history
    <3>3. RefcountCovers' /\ RefcountExactUnlessLost'
      BY <2>0, <3>1, DropCounts DEF registry, history
    <3>4. HeldJobsRegistered' /\ OpenTraceIsScrapedUnlessBroken' /\ TableConsistent'
      BY <2>0, <3>1
         DEF HeldJobsRegistered, OpenTraceIsScrapedUnlessBroken, TableConsistent, registry, history
    <3>5. FailedHaveNothingToLose'
      BY <2>0, <3>1 DEF FailedHaveNothingToLose, registry, loop, history
    <3> QED
      BY <2>1, <2>2, <3>2, <3>3, <3>4, <3>5
  <2>5. CASE held[c] # {}
    <3>1. PICK j \in held[c], result \in Failures \cup {"ok"} : Relax(j, "ended", result)
      BY <1>4, <2>5 DEF ClientLeaves
    <3>2. held[c] \ {j} = {} /\ held' = [held EXCEPT ![c] = held[c] \ {j}]
      <4>1. held[c] = {j}
        BY <2>5, <3>1 DEF SessionsHoldOneJob
      <4>2. held[c] \ {j} = {}
        BY <4>1
      <4> QED
        BY <4>2, <2>0
    <3>3. result \in {"ok", "nofile", "nomodel"}
      BY <3>1 DEF Failures
    <3>4. /\ pass' \in BOOLEAN /\ left' \subseteq Children \cup Jobs
          /\ cur' \in Children \cup {None} /\ gone' \subseteq Jobs
          /\ todo' \subseteq Jobs /\ failed' \subseteq Children \cup Jobs
          /\ failed' = failed /\ lost' = lost /\ lost' \in 0 .. MaxLost
      BY <2>0 DEF loop, history, TypeOK
    <3>5. lost' = 0 => \A s \in failed' \cap Children : held'[s] = {}
      BY <2>3, <3>4 DEF FailedHaveNothingToLose
    <3>6. /\ session' \in [Clients -> {"closed", "open", "identified"}]
          /\ UNCHANGED <<scrapes, tracers, broken>>
          /\ relaxed' \in [Children -> SUBSET Jobs]
      BY <2>0 DEF history, TypeOK
    <3> HIDE DEF IndInv
    <3> QED
      BY <1>0, <2>1, <2>2, <3>1, <3>2, <3>3, <3>4, <3>5, <3>6, RelaxHolds, ZenonT(40)
  <2> QED
    BY <2>4, <2>5
<1>5. CASE ClientError(c)
  <2>0. /\ session' \in [Clients -> {"closed", "open", "identified"}]
        /\ held' = [held EXCEPT ![c] = {}]
        /\ UNCHANGED <<registry, relaxed, scrapes, tracers, loop, broken>>
        /\ lost' = IF held[c] # {} THEN lost + 1 ELSE lost
        /\ held[c] # {} => lost < MaxLost
    BY <1>5 DEF ClientError, Abandon, TypeOK
  <2>1. lost' \in 0 .. MaxLost
    BY <2>0, ParametersAssumption DEF TypeOK
  <2>2. lost' = 0 => lost = 0 /\ held[c] = {}
    BY <2>0 DEF TypeOK
  <2>3. TypeOK'
    BY <1>0, <2>0, <2>1 DEF TypeOK, registry, loop
  <2>4. \A h \in Holders : held'[h] = IF h = c THEN {} ELSE held[h]
    BY <2>0 DEF TypeOK
  <2>5. RefcountCovers' /\ RefcountExactUnlessLost'
    <3>1. \A h \in Holders : held'[h] \subseteq held[h]
      BY <2>4
    <3>2. lost' = 0 => lost = 0 /\ \A h \in Holders : held'[h] = held[h]
      BY <2>2, <2>4
    <3>3. counter' = counter
      BY <2>0 DEF registry
    <3> QED
      BY <3>1, <3>2, <3>3, DropCounts
  <2>6. HeldJobsRegistered' /\ OpenTraceIsScrapedUnlessBroken' /\ TableConsistent'
    BY <2>0, <2>4 DEF HeldJobsRegistered, OpenTraceIsScrapedUnlessBroken, TableConsistent, registry
  <2>7. SessionsHoldOneJob'
    BY <1>0, <1>5, <2>0, <2>4 DEF SessionsHoldOneJob, TypeOK, ClientError, Holders
  <2>8. PassConsistent'
    BY <1>0, <2>0, <2>4 DEF PassConsistent, loop, TypeOK, Holders
  <2>9. FailedHaveNothingToLose'
    BY <1>0, <2>0, <2>2, <2>4 DEF FailedHaveNothingToLose, registry, loop, Holders
  <2> QED
    BY <2>3, <2>5, <2>6, <2>7, <2>8, <2>9
<1> QED
  BY <1>1, <1>2, <1>3, <1>4, <1>5 DEF ClientStep

(***************************************************************************)
(* Scrapers deleted with their shadow states outside a scrape, by a web    *)
(* thread or at the end of a pass.                                         *)
(***************************************************************************)
LEMMA DropHolds ==
  ASSUME IndInv, NEW S, DropScrapers(S), \A s \in S \cap Holders : s \in Children,
         UNCHANGED <<perjob, counter, islocal, trace, saved, session, broken>>,
         \A s \in Children \ S : relaxed[s] = {},
         scrapes' \subseteq Children, tracers' \subseteq Jobs, pending' \subseteq Jobs,
         pass' \in BOOLEAN, cur' = None,
         left' = {}, UNCHANGED <<gone, todo>>,
         failed' = {}, lost' \in 0 .. MaxLost,
         lost' = 0 => lost = 0 /\ \A s \in S \cap Holders : held[s] = {},
         OpenTraceIsScrapedUnlessBroken'
  PROVE  IndInv'
<1> USE DEF IndInv
<1>0. \A h \in Holders : held'[h] = IF h \in S THEN {} ELSE held[h]
  BY DEF DropScrapers
<1>1. TypeOK'
  <2>1. held' \in [Holders -> SUBSET Jobs] /\ relaxed' \in [Children -> SUBSET Jobs]
    BY DEF DropScrapers, TypeOK
  <2> QED
    BY <2>1 DEF TypeOK
<1>2. RefcountCovers' /\ RefcountExactUnlessLost'
  <2>1. \A h \in Holders : held'[h] \subseteq held[h]
    BY <1>0
  <2>2. lost' = 0 => lost = 0 /\ \A h \in Holders : held'[h] = held[h]
    BY <1>0
  <2> QED
    BY <2>1, <2>2, DropCounts
<1>3. HeldJobsRegistered' /\ TableConsistent'
  BY <1>0 DEF HeldJobsRegistered, TableConsistent
<1>4. SessionsHoldOneJob'
  <2>1. \A c \in Clients : held'[c] = held[c]
    BY <1>0, HoldersAssumption DEF Holders
  <2> QED
    BY <2>1 DEF SessionsHoldOneJob
<1>5. PassConsistent'
  <2>1. \A s \in Children : relaxed'[s] = {}
    BY DEF DropScrapers
  <2> QED
    BY <2>1 DEF PassConsistent
<1>6. FailedHaveNothingToLose'
  <2>1. \A s \in Children : held'[s] \subseteq held[s]
    BY <1>0 DEF Holders
  <2> QED
    BY <2>1 DEF FailedHaveNothingToLose
<1> QED
  BY <1>1, <1>2, <1>3, <1>4, <1>5, <1>6

\* The steps of the web threads and the start of a proxy scrape.
LEMMA ScraperKeeps ==
  ASSUME IndInv, NEW s \in Children, ScraperStep(s)
  PROVE  IndInv'
<1> USE DEF IndInv
<1>0. s \in Holders /\ s # None
  BY HoldersAssumption DEF Holders
<1>1. CASE AddScrape(s) \/ RemoveScrape(s)
  <2>1. /\ DropScrapers({s}) /\ UNCHANGED <<registry, session, tracers, loop, broken>>
        /\ scrapes' \subseteq Children /\ ~pass
        /\ Abandon(held[s])
    BY <1>1 DEF AddScrape, RemoveScrape, TypeOK
  <2>2. cur' = None /\ pass' \in BOOLEAN /\ failed' = {} /\ left' = {} /\ UNCHANGED <<gone, todo>>
    BY <2>1 DEF loop, PassConsistent, TypeOK
  <2>3. lost' \in 0 .. MaxLost /\ (lost' = 0 => lost = 0 /\ held[s] = {})
    BY <2>1, ParametersAssumption DEF Abandon, TypeOK
  <2>4. /\ UNCHANGED <<perjob, counter, islocal, trace, saved, session, broken>>
        /\ tracers' \subseteq Jobs /\ pending' \subseteq Jobs /\ OpenTraceIsScrapedUnlessBroken'
    BY <2>1 DEF registry, TypeOK, OpenTraceIsScrapedUnlessBroken
  <2>5. /\ \A t \in {s} \cap Holders : t \in Children
        /\ \A t \in Children \ {s} : relaxed[t] = {}
    BY <2>1, HoldersAssumption DEF PassConsistent
  <2>6. lost' = 0 => lost = 0 /\ \A t \in {s} \cap Holders : held[t] = {}
    BY <2>3
  <2> HIDE DEF IndInv
  <2> QED
    BY <2>1, <2>2, <2>3, <2>4, <2>5, <2>6, DropHolds
<1>2. CASE Fetch(s)
  <2>1. PICK A \in SUBSET AppJobs : todo' = A \cup {Shared} /\ gone' = State(s) \ (A \cup {Shared})
    BY <1>2 DEF Fetch
  <2>2. /\ UNCHANGED <<registry, held, tracers, lost>>
        /\ UNCHANGED <<relaxed, session, scrapes, broken>>
        /\ cur' = s /\ left' = left \ {s} /\ pass' = pass /\ failed' = failed
        /\ s \in left /\ cur = None
    BY <1>2 DEF Fetch, history
  <2>3. todo' \subseteq Jobs
    BY <2>1, JobsAssumption DEF AppJobs
  <2>4. gone' \subseteq Jobs /\ gone' \subseteq held[s]
    <3>1. relaxed[s] = {}
      BY <1>0, <2>2 DEF PassConsistent
    <3> QED
      BY <1>0, <2>1, <3>1 DEF TypeOK, State
  <2>5. pass
    BY <1>2 DEF Fetch, PassConsistent
  <2>6. PassConsistent' /\ FailedHaveNothingToLose'
    BY <2>2, <2>4, <2>5, HoldersAssumption DEF PassConsistent, FailedHaveNothingToLose, registry
  <2> QED
    BY <2>2, <2>3, <2>4, <2>6, QuietStep DEF TypeOK
<1>3. CASE FetchFails(s)
  <2>1. /\ UNCHANGED <<registry, held, relaxed, session, scrapes, tracers, pass, cur, gone, todo>>
        /\ UNCHANGED broken
        /\ left' = left \ {s} /\ failed' = failed \cup {s} /\ Abandon(held[s])
        /\ s \in left /\ cur = None
    BY <1>3 DEF FetchFails
  <2>2. lost' \in 0 .. MaxLost /\ (lost' = 0 => lost = 0 /\ held[s] = {})
    BY <2>1, ParametersAssumption DEF Abandon, TypeOK
  <2>3. TypeOK'
    BY <2>1, <2>2 DEF TypeOK, registry
  <2>4. RefcountCovers' /\ RefcountExactUnlessLost'
    BY <2>1, <2>2, DropCounts DEF registry
  <2>5. HeldJobsRegistered' /\ OpenTraceIsScrapedUnlessBroken' /\ TableConsistent'
    BY <2>1 DEF HeldJobsRegistered, OpenTraceIsScrapedUnlessBroken, TableConsistent, registry
  <2>6. SessionsHoldOneJob' /\ PassConsistent'
    BY <2>1 DEF SessionsHoldOneJob, PassConsistent
  <2>7. FailedHaveNothingToLose'
    BY <2>1, <2>2, HoldersAssumption DEF FailedHaveNothingToLose, registry
  <2> QED
    BY <2>3, <2>4, <2>5, <2>6, <2>7
<1> QED
  BY <1>1, <1>2, <1>3 DEF ScraperStep

\* The steps of a scrape on one job.
LEMMA JobKeeps ==
  ASSUME IndInv, NEW j \in Jobs, JobStep(j)
  PROVE  IndInv'
<1> USE DEF IndInv
<1>1. CASE RelaxGone(j) \/ RelaxGoneFails(j)
  <2>1. /\ cur \in Children /\ cur \in Holders /\ j \in held[cur] /\ pass
        /\ held' = [held EXCEPT ![cur] = held[cur] \ {j}]
        /\ relaxed' = [relaxed EXCEPT ![cur] = relaxed[cur] \cup {j}]
        /\ UNCHANGED <<session, scrapes, tracers, pass, left, broken>>
    BY <1>1 DEF RelaxGone, RelaxGoneFails, TypeOK, PassConsistent, Holders, history
  <2>2. PICK result \in {"ok", "nofile", "nomodel"} : Relax(j, "running", result)
    BY <1>1 DEF RelaxGone, RelaxGoneFails, Failures
  <2>3. \A h \in Holders : h # cur => held'[h] = held[h]
    BY <2>1 DEF TypeOK
  <2>4. held'[cur] = held[cur] \ {j}
    BY <2>1 DEF TypeOK
  <2>5. SessionsHoldOneJob'
    <3>1. \A c \in Clients : held'[c] = held[c]
      BY <2>1, <2>3, HoldersAssumption DEF Holders
    <3> QED
      BY <2>1, <3>1 DEF SessionsHoldOneJob
  <2>6. /\ relaxed' \in [Children -> SUBSET Jobs]
        /\ \A s \in Children \ {cur} : relaxed'[s] = relaxed[s]
    BY <2>1 DEF TypeOK
  <2>7. /\ cur \in Holders /\ j \in held[cur]
        /\ held' = [held EXCEPT ![cur] = held[cur] \ {j}]
        /\ UNCHANGED <<scrapes, tracers, broken>>
    BY <2>1
  <2>8. CASE RelaxGone(j)
    <3>1. /\ gone' = gone \ {j} /\ cur' = cur /\ todo' = todo
          /\ failed' = failed /\ lost' = lost
      BY <2>8 DEF RelaxGone, history
    <3>2. /\ lost' \in 0 .. MaxLost /\ (lost' = 0 => lost = 0)
          /\ pass' \in BOOLEAN /\ left' \subseteq Children \cup Jobs
          /\ cur' \in Children \cup {None} /\ gone' \subseteq Jobs
          /\ todo' \subseteq Jobs /\ failed' \subseteq Children \cup Jobs
          /\ session' \in [Clients -> {"closed", "open", "identified"}]
          /\ failed' \cap Jobs = failed \cap Jobs
      BY <2>1, <3>1 DEF TypeOK
    <3>3. PassConsistent'
      BY <2>1, <2>4, <2>6, <3>1 DEF PassConsistent
    <3>4. lost' = 0 => \A s \in failed' \cap Children : held'[s] = {}
      BY <2>1, <2>3, <3>1 DEF FailedHaveNothingToLose, Holders
    <3> HIDE DEF IndInv
    <3> QED
      BY <2>2, <2>5, <2>6, <2>7, <3>2, <3>3, <3>4, RelaxHolds, ZenonT(40)
  <2>9. CASE RelaxGoneFails(j)
    <3>1. Abort /\ Abandon(held[cur] \ {j})
      BY <2>9 DEF RelaxGoneFails
    <3>2. lost' \in 0 .. MaxLost /\ (lost' = 0 => lost = 0 /\ held[cur] \ {j} = {})
      BY <3>1, ParametersAssumption DEF Abandon, TypeOK
    <3>3. /\ pass' \in BOOLEAN /\ left' \subseteq Children \cup Jobs
          /\ cur' \in Children \cup {None} /\ gone' \subseteq Jobs
          /\ todo' \subseteq Jobs /\ failed' \subseteq Children \cup Jobs
          /\ session' \in [Clients -> {"closed", "open", "identified"}]
      BY <2>1, <3>1 DEF TypeOK, Abort
    <3>4. failed' \cap Jobs = failed \cap Jobs
      BY <2>1, <3>1, HoldersAssumption DEF Abort
    <3>5. PassConsistent'
      BY <2>1, <2>6, <3>1, HoldersAssumption DEF PassConsistent, Abort
    <3>6. lost' = 0 => \A s \in failed' \cap Children : held'[s] = {}
      BY <2>3, <2>4, <3>1, <3>2 DEF FailedHaveNothingToLose, Holders, Abort
    <3> HIDE DEF IndInv
    <3> QED
      BY <2>2, <2>5, <2>6, <2>7, <3>2, <3>3, <3>4, <3>5, <3>6, RelaxHolds, ZenonT(40)
  <2> QED
    BY <1>1, <2>8, <2>9
<1>2. CASE Update(j) \/ UpdateFails(j)
  <2>1. /\ cur \in Children /\ cur \in Holders /\ pass /\ gone = {}
        /\ IF j \in held[cur] THEN UNCHANGED registry ELSE Resolve(j, FALSE)
        /\ held' = [held EXCEPT ![cur] = @ \cup {j}]
        /\ UNCHANGED <<relaxed, session, scrapes, tracers, pass, left, broken>>
    BY <1>2 DEF Update, UpdateFails, ShadowCurrent, State, TypeOK, PassConsistent, Holders, history
  <2>2. \A h \in Holders : h # cur => held'[h] = held[h]
    BY <2>1 DEF TypeOK
  <2>3. CASE Update(j)
    <3>1. /\ todo' = todo \ {j} /\ cur' = cur /\ gone' = gone
          /\ failed' = failed /\ lost' = lost
      BY <2>3 DEF Update, history
    <3>2. /\ lost' \in 0 .. MaxLost /\ (lost' = 0 => lost = 0)
          /\ pass' \in BOOLEAN /\ left' \subseteq Children \cup Jobs
          /\ cur' \in Children \cup {None} /\ gone' \subseteq Jobs
          /\ todo' \subseteq Jobs /\ failed' \subseteq Children \cup Jobs
          /\ failed' \cap Jobs = failed \cap Jobs
      BY <2>1, <3>1 DEF TypeOK
    <3>3. PassConsistent'
      BY <2>1, <3>1 DEF PassConsistent
    <3>4. lost' = 0 => \A s \in failed' \cap Children : held'[s] = {}
      <4>1. cur \notin failed
        BY <2>1, HoldersAssumption DEF PassConsistent
      <4> QED
        BY <2>2, <3>1, <4>1 DEF FailedHaveNothingToLose, Holders
    <3> HIDE DEF IndInv
    <3> QED
      BY <2>1, <3>2, <3>3, <3>4, UpdateHolds
  <2>4. CASE UpdateFails(j)
    <3>1. Abort /\ Abandon(held[cur] \cup {j})
      BY <2>4 DEF UpdateFails
    <3>2. lost' \in 0 .. MaxLost /\ lost' # 0
      BY <3>1, ParametersAssumption DEF Abandon, TypeOK
    <3>3. /\ pass' \in BOOLEAN /\ left' \subseteq Children \cup Jobs
          /\ cur' \in Children \cup {None} /\ gone' \subseteq Jobs
          /\ todo' \subseteq Jobs /\ failed' \subseteq Children \cup Jobs
      BY <2>1, <3>1 DEF TypeOK, Abort
    <3>4. failed' \cap Jobs = failed \cap Jobs
      BY <2>1, <3>1, HoldersAssumption DEF Abort
    <3>5. PassConsistent'
      BY <2>1, <3>1, HoldersAssumption DEF PassConsistent, Abort
    <3> HIDE DEF IndInv
    <3> QED
      BY <2>1, <3>2, <3>3, <3>4, <3>5, UpdateHolds
  <2> QED
    BY <1>2, <2>3, <2>4
<1>3. CASE ScrapeTrace(j)
  <2>1. /\ UNCHANGED <<registry, held, tracers, lost>>
        /\ UNCHANGED <<relaxed, session, scrapes, pass, cur, gone, todo>>
        /\ left' = left \ {j} /\ failed' \in {failed, failed \cup {j}}
        /\ broken' \in {broken, broken \cup {j}}
        /\ failed' = failed \/ trace[j] = "done" \/ j \in broken'
        /\ j \in left /\ cur = None
    BY <1>3 DEF ScrapeTrace
  <2>2. PassConsistent'
    BY <2>1 DEF PassConsistent
  <2>3. FailedHaveNothingToLose'
    BY <2>1, HoldersAssumption DEF FailedHaveNothingToLose, registry
  <2> QED
    BY <2>1, <2>2, <2>3, QuietStep DEF TypeOK
<1> QED
  BY <1>1, <1>2, <1>3 DEF JobStep

\* The steps of the scraping thread around the scrapes of a pass.
LEMMA LoopKeeps ==
  ASSUME IndInv,
         (\E k \in Children \cup Jobs : NotDue(k)) \/ BeginPass \/ ForgetGone \/ EndFetch \/ EndPass
  PROVE  IndInv'
<1> USE DEF IndInv
<1>1. CASE (\E k \in Children \cup Jobs : NotDue(k)) \/ BeginPass \/ ForgetGone \/ EndFetch
  <2>1. /\ UNCHANGED <<registry, held, tracers, lost>>
        /\ UNCHANGED <<session, scrapes, gone, todo, failed, broken>>
        /\ pass' \in BOOLEAN /\ left' \subseteq Children \cup Jobs
        /\ cur' \in Children \cup {None}
        /\ relaxed' \in [Children -> SUBSET Jobs]
        /\ \A s \in Children : relaxed'[s] # {} => relaxed[s] # {}
    BY <1>1, HoldersAssumption DEF NotDue, BeginPass, ForgetGone, EndFetch, TypeOK, loop, history
  <2>2. PassConsistent'
    BY <1>1, <2>1, HoldersAssumption
       DEF NotDue, BeginPass, ForgetGone, EndFetch, PassConsistent, ShadowCurrent, loop
  <2>3. FailedHaveNothingToLose'
    BY <2>1 DEF FailedHaveNothingToLose, registry
  <2> QED
    BY <2>1, <2>2, <2>3, QuietStep DEF TypeOK
<1>2. CASE EndPass
  <2>1. /\ DropScrapers(failed)
        /\ UNCHANGED <<perjob, counter, islocal, trace, saved, session, broken>>
        /\ cur' = None /\ left' = {} /\ failed' = {} /\ lost' = lost
        /\ UNCHANGED <<gone, todo>> /\ pass' \in BOOLEAN
        /\ \A s \in Children \ failed : relaxed[s] = {}
    BY <1>2, HoldersAssumption DEF EndPass, history, PassConsistent
  <2>2. /\ scrapes' \subseteq Children /\ tracers' \subseteq Jobs /\ pending' \subseteq Jobs
        /\ lost' \in 0 .. MaxLost
    BY <1>2 DEF EndPass, TypeOK, history
  <2>3. OpenTraceIsScrapedUnlessBroken'
    BY <1>2 DEF EndPass, OpenTraceIsScrapedUnlessBroken, FailedHaveNothingToLose, history, TypeOK
  <2>4. \A s \in failed \cap Holders : s \in Children
    BY HoldersAssumption DEF TypeOK, Holders
  <2>5. lost' = 0 => lost = 0 /\ \A s \in failed \cap Holders : held[s] = {}
    BY <2>1, <2>4 DEF FailedHaveNothingToLose
  <2> HIDE DEF IndInv
  <2> QED
    BY <2>1, <2>2, <2>3, <2>4, <2>5, DropHolds
<1> QED
  BY <1>1, <1>2

-----------------------------------------------------------------------------
\* Every step of the specification keeps the inductive invariant.
LEMMA NextIndInv == IndInv /\ [Next]_vars => IndInv'
<1> SUFFICES ASSUME IndInv, [Next]_vars PROVE IndInv'
  OBVIOUS
<1>1. CASE UNCHANGED vars
  <2>1. /\ UNCHANGED <<registry, held, tracers, lost>>
        /\ UNCHANGED <<relaxed, session, scrapes, pass, left, cur, gone, todo, failed, broken>>
    BY <1>1 DEF vars, loop, history
  <2>2. PassConsistent' /\ FailedHaveNothingToLose'
    BY <2>1 DEF IndInv, PassConsistent, FailedHaveNothingToLose, registry
  <2> QED
    BY <2>1, <2>2, QuietStep DEF IndInv, TypeOK
<1>2. CASE Next
  BY <1>2, ClientKeeps, ScraperKeeps, JobKeeps, LoopKeeps DEF Next
<1> QED
  BY <1>1, <1>2

\* The inductive invariant holds in every reachable state.
LEMMA Invariance == Spec => []IndInv
<1>1. Init => IndInv
  BY InitIndInv
<1>2. IndInv /\ [Next]_vars => IndInv'
  BY NextIndInv
<1> QED
  BY <1>1, <1>2, PTL DEF Spec

(***************************************************************************)
(* Type correctness; that `counter' stays in Nat is the assertion of       *)
(* relax_job (`assert!(0 <= job_entry.counter)').                          *)
(***************************************************************************)
THEOREM TypeCorrect == Spec => []TypeOK
<1>1. IndInv => TypeOK
  BY DEF IndInv
<1> QED
  BY <1>1, Invariance, PTL

(***************************************************************************)
(* Reference counting is safe: relax_job never takes the counter of a job  *)
(* below the number of client threads and scrapers that still use it.      *)
(***************************************************************************)
THEOREM RefcountSafe == Spec => []RefcountCovers
<1>1. IndInv => RefcountCovers
  BY DEF IndInv
<1> QED
  BY <1>1, Invariance, PTL

(***************************************************************************)
(* resolve_job and relax_job are paired: the counter is exact until a step *)
(* abandons a reference.                                                   *)
(***************************************************************************)
THEOREM RefcountExact == Spec => []RefcountExactUnlessLost
<1>1. IndInv => RefcountExactUnlessLost
  BY DEF IndInv
<1> QED
  BY <1>1, Invariance, PTL

(***************************************************************************)
(* No client thread or scraper ever refers to a job without an entry: the  *)
(* error paths "No such job to remove" and "No such JobID" are dead code.  *)
(***************************************************************************)
THEOREM NoDanglingJob == Spec => []HeldJobsRegistered
<1>1. IndInv => HeldJobsRegistered
  BY DEF IndInv
<1> QED
  BY <1>1, Invariance, PTL

(***************************************************************************)
(* An open trace has a scraper in the table or on its way to it, unless a  *)
(* write to it has failed: no failing scraper of a finished trace takes    *)
(* away the one of an open trace.                                          *)
(***************************************************************************)
THEOREM OpenTraceSampled == Spec => []OpenTraceIsScrapedUnlessBroken
<1>1. IndInv => OpenTraceIsScrapedUnlessBroken
  BY DEF IndInv
<1> QED
  BY <1>1, Invariance, PTL

(***************************************************************************)
(* relax_job deletes an entry only when nothing refers to the job, and on  *)
(* an aggregator not before the profile is stored; its trace, if it has    *)
(* one, is closed.                                                         *)
(***************************************************************************)
LEMMA StepRetires == IndInv /\ [Next]_vars => RetiresUnused
<1> SUFFICES ASSUME IndInv, [Next]_vars PROVE RetiresUnused
  OBVIOUS
<1> USE DEF IndInv
<1>0. ASSUME perjob \subseteq perjob' PROVE RetiresUnused
  BY <1>0 DEF RetiresUnused
<1>1. CASE UNCHANGED vars
  BY <1>0, <1>1 DEF vars, registry
<1>2. ASSUME NEW c \in Clients, ClientStep(c) PROVE RetiresUnused
  <2>1. CASE ClientLeaves(c)
    <3>1. CASE held[c] = {}
      BY <1>0, <2>1, <3>1 DEF ClientLeaves, registry
    <3>2. CASE held[c] # {}
      <4>1. PICK j \in held[c], result \in Failures \cup {"ok"} : Relax(j, "ended", result)
        BY <2>1, <3>2 DEF ClientLeaves
      <4>2. held[c] = {j}
        BY <3>2, <4>1 DEF SessionsHoldOneJob
      <4>3. held[c] \ {j} = {}
        BY <4>2
      <4>4. /\ held' = [held EXCEPT ![c] = held[c] \ {j}]
            /\ UNCHANGED <<tracers, lost, broken>> /\ (lost' = 0 => lost = 0)
            /\ c \in Holders /\ result \in {"ok", "nofile", "nomodel"}
        BY <2>1, <4>1, <4>3 DEF ClientLeaves, Holders, Failures, history
      <4> HIDE DEF IndInv
      <4> QED
        BY <4>1, <4>4, RelaxRetires
    <3> QED
      BY <3>1, <3>2
  <2>2. CASE Connect(c) \/ RecvJobDesc(c) \/ RecvAnonymousJobDesc(c) \/ ClientError(c)
    BY <1>0, <2>2 DEF Connect, RecvJobDesc, RecvAnonymousJobDesc, ClientError, Resolve, registry
  <2> QED
    BY <1>2, <2>1, <2>2 DEF ClientStep
<1>3. ASSUME NEW s \in Children, ScraperStep(s) PROVE RetiresUnused
  BY <1>0, <1>3 DEF ScraperStep, AddScrape, RemoveScrape, Fetch, FetchFails, registry
<1>4. ASSUME NEW j \in Jobs, JobStep(j) PROVE RetiresUnused
  <2>1. CASE RelaxGone(j) \/ RelaxGoneFails(j)
    <3>1. /\ cur \in Holders /\ j \in held[cur]
          /\ held' = [held EXCEPT ![cur] = held[cur] \ {j}] /\ UNCHANGED <<tracers, broken>>
      BY <2>1 DEF RelaxGone, RelaxGoneFails, TypeOK, PassConsistent, Holders, history
    <3>2. PICK result \in {"ok", "nofile", "nomodel"} : Relax(j, "running", result)
      BY <2>1 DEF RelaxGone, RelaxGoneFails, Failures
    <3>3. lost' = 0 => lost = 0
      BY <2>1 DEF RelaxGone, RelaxGoneFails, Abandon, TypeOK, history
    <3> HIDE DEF IndInv
    <3> QED
      BY <3>1, <3>2, <3>3, RelaxRetires
  <2>2. CASE Update(j) \/ UpdateFails(j) \/ ScrapeTrace(j)
    BY <1>0, <2>2 DEF Update, UpdateFails, ScrapeTrace, Resolve, registry
  <2> QED
    BY <1>4, <2>1, <2>2 DEF JobStep
<1>5. CASE (\E k \in Children \cup Jobs : NotDue(k)) \/ BeginPass \/ ForgetGone \/ EndFetch \/ EndPass
  BY <1>0, <1>5 DEF NotDue, BeginPass, ForgetGone, EndFetch, EndPass, registry
<1> QED
  BY <1>1, <1>2, <1>3, <1>4, <1>5 DEF Next

\* As a property of behaviours: no step ever retires a job that is in use.
THEOREM RetirementSafe == Spec => RetiredWhenUnused
<1>1. IndInv /\ [Next]_vars => RetiresUnused
  BY StepRetires
<1> QED
  BY <1>1, Invariance, PTL DEF Spec, RetiredWhenUnused

-----------------------------------------------------------------------------
(***************************************************************************)
(* The registry implements JobLife: every step maps to one use that begins *)
(* or ends, to users that forget, or to a stutter.                         *)
(***************************************************************************)

(***************************************************************************)
(* resolve_job leaks nothing: one holder more, one reference more.         *)
(***************************************************************************)
LEMMA TakeLeaksNothing ==
  ASSUME IndInv, NEW h \in Holders, NEW j \in Jobs, j \notin held[h],
         held' = [held EXCEPT ![h] = held[h] \cup {j}],
         counter' = [counter EXCEPT ![j] = @ + 1],
         perjob' = perjob \cup {j}
  PROVE  Leaked' = Leaked
<1> USE DEF IndInv
<1>1. held[h] \cup {j} \in SUBSET Jobs
  BY DEF TypeOK
<1>2. \A k \in Jobs : Refs(k)' = IF k = j THEN Refs(k) \cup {h} ELSE Refs(k)
  BY <1>1 DEF TypeOK, Refs
<1>3. \A k \in Jobs : counter'[k] = IF k = j THEN counter[k] + 1 ELSE counter[k]
  BY DEF TypeOK
<1>4. Cardinality(Refs(j)') = Cardinality(Refs(j)) + 1
  <2>1. h \notin Refs(j)
    BY DEF Refs
  <2> QED
    BY <1>2, <2>1, RefsFinite, FS_AddElement
<1>5. counter[j] \in Nat /\ Cardinality(Refs(j)) \in Nat
  BY RefsFinite DEF TypeOK
<1>6. j \notin perjob => counter[j] = Cardinality(Refs(j))
  <2>1. j \notin perjob => Refs(j) = {}
    BY DEF HeldJobsRegistered, Refs
  <2>2. j \notin perjob => counter[j] = 0
    BY DEF TableConsistent
  <2> QED
    BY <2>1, <2>2, FS_EmptySet
<1>7. counter'[j] > Cardinality(Refs(j)') <=> counter[j] > Cardinality(Refs(j))
  BY <1>3, <1>4, <1>5
<1>8. j \in Leaked' <=> j \in Leaked
  BY <1>5, <1>6, <1>7 DEF Leaked
<1>9. \A k \in Jobs \ {j} : k \in Leaked' <=> k \in Leaked
  BY <1>2, <1>3 DEF Leaked
<1> QED
  BY <1>8, <1>9 DEF Leaked, TypeOK

(***************************************************************************)
(* The counter that relax_job finds is 1 exactly for the last user of a    *)
(* job that nobody forgot.                                                 *)
(***************************************************************************)
LEMMA LastUseCounts ==
  ASSUME IndInv, NEW h \in Holders, NEW j \in held[h]
  PROVE  Life!LastUse(h, j) <=> counter[j] = 1
<1> USE DEF IndInv
<1>1. j \in Jobs /\ j \in perjob /\ h \in Refs(j)
  BY DEF TypeOK, HeldJobsRegistered, Refs
<1>2. counter[j] \in Nat /\ Cardinality(Refs(j)) \in Nat /\ Cardinality(Refs(j)) <= counter[j]
  BY <1>1, RefsFinite DEF TypeOK, RefcountCovers
<1>3. j \notin Leaked <=> counter[j] = Cardinality(Refs(j))
  BY <1>1, <1>2 DEF Leaked
<1>4. Cardinality(Refs(j)) = Cardinality(Refs(j) \ {h}) + 1
  <2>1. Cardinality(Refs(j) \ {h}) = Cardinality(Refs(j)) - 1
    BY <1>1, RefsFinite, FS_RemoveElement
  <2> QED
    BY <1>2, <2>1
<1>5. IsFiniteSet(Refs(j) \ {h}) /\ Cardinality(Refs(j) \ {h}) \in Nat
  <2>1. Refs(j) \ {h} \in SUBSET Refs(j)
    OBVIOUS
  <2>2. IsFiniteSet(Refs(j) \ {h})
    BY <2>1, RefsFinite, FS_Subset
  <2> QED
    BY <2>2, FS_CardinalityType
<1>6. Cardinality(Refs(j) \ {h}) = 0 <=> Refs(j) \ {h} = {}
  BY <1>5, FS_EmptySet
<1>7. (\A v \in Holders \ {h} : j \notin held[v]) <=> Refs(j) \ {h} = {}
  BY DEF Refs
<1>8. Life!LastUse(h, j) <=> (j \notin Leaked /\ Refs(j) \ {h} = {})
  BY <1>7 DEF Life!LastUse
<1> QED
  BY <1>2, <1>3, <1>4, <1>5, <1>6, <1>8

\* relax_job by a holder leaks nothing, whether it deletes the entry or fails to
\* store it.
LEMMA GiveLeaksNothing ==
  ASSUME IndInv, NEW h \in Holders, NEW j \in held[h],
         held' = [held EXCEPT ![h] = held[h] \ {j}],
         counter' = [counter EXCEPT ![j] = @ - 1],
         perjob' = perjob \/ (perjob' = perjob \ {j} /\ counter[j] = 1)
  PROVE  Leaked' = Leaked
<1> USE DEF IndInv
<1>0. j \in Jobs /\ j \in perjob /\ h \in Refs(j)
  BY DEF TypeOK, HeldJobsRegistered, Refs
<1>1. held[h] \ {j} \in SUBSET Jobs
  BY DEF TypeOK
<1>2. \A k \in Jobs : Refs(k)' = IF k = j THEN Refs(k) \ {h} ELSE Refs(k)
  BY <1>1 DEF TypeOK, Refs
<1>3. \A k \in Jobs : counter'[k] = IF k = j THEN counter[k] - 1 ELSE counter[k]
  BY DEF TypeOK
<1>4. Cardinality(Refs(j)') = Cardinality(Refs(j)) - 1
  BY <1>0, <1>2, RefsFinite, FS_RemoveElement
<1>5. counter[j] \in Nat /\ Cardinality(Refs(j)) \in Nat
  BY <1>0, RefsFinite DEF TypeOK
<1>6. counter'[j] > Cardinality(Refs(j)') <=> counter[j] > Cardinality(Refs(j))
  BY <1>0, <1>3, <1>4, <1>5
<1>7. counter[j] = 1 => j \notin Leaked
  <2>1. Life!LastUse(h, j) => j \notin Leaked
    BY DEF Life!LastUse
  <2> HIDE DEF IndInv
  <2> QED
    BY <2>1, LastUseCounts
<1>8. j \in Leaked' <=> j \in Leaked
  BY <1>0, <1>6, <1>7 DEF Leaked
<1>9. \A k \in Jobs \ {j} : k \in Leaked' <=> k \in Leaked
  BY <1>2, <1>3 DEF Leaked
<1> QED
  BY <1>8, <1>9 DEF Leaked, TypeOK

(***************************************************************************)
(* Holders dropped with what they refer to leak exactly that: the counters *)
(* keep the references of U and no holder is left to give them back.       *)
(***************************************************************************)
LEMMA DropForgets ==
  ASSUME IndInv, NEW U \in SUBSET Holders,
         held' = [h \in Holders |-> IF h \in U THEN {} ELSE held[h]],
         UNCHANGED <<counter, perjob, saved>>
  PROVE  Life!Forget(U)
<1> USE DEF IndInv
<1>1. \A k \in Jobs : Refs(k)' = Refs(k) \ U
  BY DEF Refs, TypeOK
<1>2. UNION {held[u] : u \in U} \subseteq perjob
  BY DEF HeldJobsRegistered
<1>3. ASSUME NEW k \in Jobs
      PROVE  k \in Leaked' <=> k \in Leaked \cup UNION {held[u] : u \in U}
  <2>1. /\ counter[k] \in Nat /\ Cardinality(Refs(k)) \in Nat
        /\ Cardinality(Refs(k)) <= counter[k]
    BY RefsFinite DEF TypeOK, RefcountCovers
  <2>2. CASE k \in UNION {held[u] : u \in U}
    <3>1. PICK u \in U : k \in held[u]
      BY <2>2
    <3>2. u \in Refs(k)
      BY <3>1 DEF Refs
    <3>3. Cardinality(Refs(k) \ {u}) = Cardinality(Refs(k)) - 1
      BY <3>2, RefsFinite, FS_RemoveElement
    <3>4. Refs(k) \ {u} \in SUBSET Refs(k) /\ Refs(k)' \in SUBSET (Refs(k) \ {u})
      BY <1>1
    <3>5. IsFiniteSet(Refs(k) \ {u})
      BY <3>4, RefsFinite, FS_Subset
    <3>6. /\ Cardinality(Refs(k)') <= Cardinality(Refs(k) \ {u})
          /\ IsFiniteSet(Refs(k)')
      BY <3>4, <3>5, FS_Subset
    <3>7. Cardinality(Refs(k)') \in Nat
      BY <3>6, FS_CardinalityType
    <3>8. counter'[k] > Cardinality(Refs(k)')
      BY <2>1, <3>3, <3>6, <3>7
    <3> QED
      BY <1>2, <2>2, <3>8 DEF Leaked
  <2>3. CASE k \notin UNION {held[u] : u \in U}
    <3>1. Refs(k)' = Refs(k)
      BY <1>1, <2>3 DEF Refs
    <3> QED
      BY <2>3, <3>1 DEF Leaked
  <2> QED
    BY <2>2, <2>3
<1>4. Leaked' = Leaked \cup UNION {held[u] : u \in U}
  BY <1>2, <1>3 DEF Leaked, TypeOK
<1> QED
  BY <1>4 DEF Life!Forget, Stored

-----------------------------------------------------------------------------
\* resolve_job by a holder that does not refer to the job is an Acquire.
LEMMA ResolveAcquires ==
  ASSUME IndInv, NEW h \in Holders, NEW j \in Jobs, j \notin held[h],
         NEW local \in BOOLEAN, Resolve(j, local),
         held' = [held EXCEPT ![h] = held[h] \cup {j}]
  PROVE  Life!Acquire(h, j)
<1>1. /\ counter' = [counter EXCEPT ![j] = @ + 1]
      /\ perjob' = perjob \cup {j} /\ saved' = saved
  BY DEF Resolve
<1>2. Leaked' = Leaked
  BY <1>1, TakeLeaksNothing
<1> QED
  BY <1>1, <1>2 DEF Life!Acquire, Stored

\* relax_job by a holder of the job is a Release.
LEMMA RelaxReleases ==
  ASSUME IndInv, NEW h \in Holders, NEW j \in held[h],
         NEW end \in {"ended", "running"},
         NEW result \in {"ok", "nofile", "nomodel"}, Relax(j, end, result),
         held' = [held EXCEPT ![h] = held[h] \ {j}]
  PROVE  Life!Release(h, j)
<1>0. j \in Jobs /\ j \in perjob /\ Aggregator \in BOOLEAN
  BY ParametersAssumption DEF IndInv, TypeOK, HeldJobsRegistered
<1>1. counter' = [counter EXCEPT ![j] = @ - 1]
  BY <1>0 DEF Relax
<1>2. saved \in [Jobs -> {"never", "ended", "running"}]
  BY DEF IndInv, TypeOK
<1>3. CASE counter[j] = 1 /\ result \notin Failures
  <2>1. Life!LastUse(h, j)
    BY <1>3, LastUseCounts
  <2>2. /\ perjob' = perjob \ {j}
        /\ saved' = IF Aggregator THEN [saved EXCEPT ![j] = end] ELSE saved
    BY <1>0, <1>3 DEF Relax, Retire
  <2>3. Leaked' = Leaked
    BY <1>1, <1>3, <2>2, GiveLeaksNothing
  <2>4. Stored' = IF Aggregator THEN Stored \cup {j} ELSE Stored
    BY <1>0, <1>2, <2>2 DEF Stored
  <2> QED
    BY <2>1, <2>2, <2>3, <2>4 DEF Life!Release, Life!EndLife
<1>4. CASE ~(counter[j] = 1 /\ result \notin Failures)
  <2>1. /\ perjob' = perjob
        /\ saved' = IF result = "nomodel" THEN [saved EXCEPT ![j] = end] ELSE saved
        /\ result \in Failures => Aggregator /\ counter[j] = 1
    BY <1>0, <1>4 DEF Relax
  <2>2. Leaked' = Leaked
    BY <1>1, <2>1, GiveLeaksNothing
  <2>3. CASE result \in Failures
    <3>1. Life!LastUse(h, j) /\ Aggregator
      BY <2>1, <2>3, LastUseCounts
    <3>2. Stored' \in {Stored, Stored \cup {j}}
      BY <1>0, <1>2, <2>1 DEF Stored
    <3> QED
      BY <2>1, <2>2, <3>1, <3>2 DEF Life!Release
  <2>4. CASE result \notin Failures
    <3>1. ~Life!LastUse(h, j)
      BY <1>4, <2>4, LastUseCounts
    <3>2. Stored' = Stored
      BY <2>1, <2>4 DEF Stored, Failures
    <3> QED
      BY <2>1, <2>2, <3>1, <3>2 DEF Life!Release
  <2> QED
    BY <2>3, <2>4
<1> QED
  BY <1>3, <1>4

\* A step that leaves the table and the holders alone is a stutter.
LEMMA QuietStutters ==
  ASSUME UNCHANGED <<perjob, counter, saved, held>>
  PROVE  UNCHANGED Life!vars
<1>1. \A k : Refs(k)' = Refs(k)
  BY DEF Refs
<1>2. Leaked' = Leaked /\ Stored' = Stored
  BY <1>1 DEF Leaked, Stored
<1> QED
  BY <1>2 DEF Life!vars

\* Init of the registry is Init of JobLife: nothing is leaked or stored.
LEMMA InitImplements == Init => Life!Init
<1> SUFFICES ASSUME Init PROVE Life!Init
  OBVIOUS
<1>1. IndInv /\ lost = 0
  BY InitIndInv DEF Init
<1>2. Leaked = {}
  <2>1. \A j \in Jobs : counter[j] \in Nat /\ counter[j] = Cardinality(Refs(j))
    BY <1>1 DEF IndInv, RefcountExactUnlessLost, TypeOK
  <2> QED
    BY <1>1, <2>1 DEF Leaked, IndInv, TypeOK
<1>3. Stored = {}
  BY DEF Init, Stored
<1> QED
  BY <1>2, <1>3 DEF Init, Life!Init

\* One step of a client thread.
LEMMA ClientImplements ==
  ASSUME IndInv, NEW c \in Clients, ClientStep(c)
  PROVE  [Life!Next]_Life!vars
<1>0. c \in Holders
  BY DEF Holders
<1>1. CASE Connect(c) \/ RecvAnonymousJobDesc(c)
  <2>1. UNCHANGED <<perjob, counter, saved, held>>
    BY <1>1 DEF Connect, RecvAnonymousJobDesc, registry
  <2> QED
    BY <2>1, QuietStutters
<1>2. CASE RecvJobDesc(c)
  <2>1. PICK j \in AppJobs : Resolve(j, TRUE) /\ held' = [held EXCEPT ![c] = {j}]
    BY <1>2 DEF RecvJobDesc
  <2>2. held[c] = {}
    BY <1>2 DEF RecvJobDesc, IndInv, SessionsHoldOneJob
  <2>3. held[c] \cup {j} = {j} /\ j \notin held[c] /\ j \in Jobs
    BY <2>1, <2>2 DEF AppJobs
  <2>4. held' = [held EXCEPT ![c] = held[c] \cup {j}]
    BY <2>1, <2>3
  <2>5. Life!Acquire(c, j)
    BY <1>0, <2>1, <2>3, <2>4, ResolveAcquires
  <2> QED
    BY <1>0, <2>3, <2>5 DEF Life!Next
<1>3. CASE ClientLeaves(c)
  <2>1. CASE held[c] = {}
    <3>1. UNCHANGED <<perjob, counter, saved, held>>
      BY <1>0, <1>3, <2>1 DEF ClientLeaves, registry, IndInv, TypeOK
    <3> QED
      BY <3>1, QuietStutters
  <2>2. CASE held[c] # {}
    <3>1. PICK j \in held[c], result \in Failures \cup {"ok"} : Relax(j, "ended", result)
      BY <1>3, <2>2 DEF ClientLeaves
    <3>2. held[c] = {j} /\ j \in Jobs
      BY <2>2, <3>1 DEF IndInv, SessionsHoldOneJob, AppJobs
    <3>3. held[c] \ {j} = {}
      BY <3>2
    <3>4. held' = [held EXCEPT ![c] = held[c] \ {j}]
      BY <1>3, <3>3 DEF ClientLeaves
    <3>5. Life!Release(c, j)
      BY <1>0, <3>1, <3>4, RelaxReleases DEF Failures
    <3> QED
      BY <1>0, <3>2, <3>5 DEF Life!Next
  <2> QED
    BY <2>1, <2>2
<1>4. CASE ClientError(c)
  <2>1. /\ held' = [h \in Holders |-> IF h \in {c} THEN {} ELSE held[h]]
        /\ UNCHANGED <<counter, perjob, saved>>
    BY <1>0, <1>4 DEF ClientError, registry, IndInv, TypeOK
  <2>2. {c} \in SUBSET Holders
    BY <1>0
  <2>3. Life!Forget({c})
    BY <2>1, <2>2, DropForgets
  <2> QED
    BY <2>2, <2>3 DEF Life!Next
<1> QED
  BY <1>1, <1>2, <1>3, <1>4 DEF ClientStep

\* One step of a web thread, or the request of a scrape.
LEMMA ScraperImplements ==
  ASSUME IndInv, NEW s \in Children, ScraperStep(s)
  PROVE  [Life!Next]_Life!vars
<1>1. CASE AddScrape(s) \/ RemoveScrape(s)
  <2>1. /\ held' = [h \in Holders |-> IF h \in {s} THEN {} ELSE held[h]]
        /\ UNCHANGED <<counter, perjob, saved>>
    BY <1>1 DEF AddScrape, RemoveScrape, DropScrapers, registry
  <2>2. {s} \in SUBSET Holders
    BY DEF Holders
  <2>3. Life!Forget({s})
    BY <2>1, <2>2, DropForgets
  <2> QED
    BY <2>2, <2>3 DEF Life!Next
<1>2. CASE Fetch(s) \/ FetchFails(s)
  <2>1. UNCHANGED <<perjob, counter, saved, held>>
    BY <1>2 DEF Fetch, FetchFails, registry
  <2> QED
    BY <2>1, QuietStutters
<1> QED
  BY <1>1, <1>2 DEF ScraperStep

\* One step of a scrape in progress.
LEMMA JobImplements ==
  ASSUME IndInv, NEW j \in Jobs, JobStep(j)
  PROVE  [Life!Next]_Life!vars
<1>1. CASE RelaxGone(j) \/ RelaxGoneFails(j)
  <2>1. /\ cur \in Holders /\ j \in held[cur]
        /\ held' = [held EXCEPT ![cur] = held[cur] \ {j}]
    BY <1>1 DEF RelaxGone, RelaxGoneFails, IndInv, TypeOK, PassConsistent, Holders
  <2>2. PICK result \in {"ok", "nofile", "nomodel"} : Relax(j, "running", result)
    BY <1>1 DEF RelaxGone, RelaxGoneFails, Failures
  <2>3. Life!Release(cur, j)
    BY <2>1, <2>2, RelaxReleases
  <2> QED
    BY <2>1, <2>3 DEF Life!Next
<1>2. CASE Update(j) \/ UpdateFails(j)
  <2>1. /\ cur \in Holders
        /\ IF j \in held[cur] THEN UNCHANGED registry ELSE Resolve(j, FALSE)
        /\ held' = [held EXCEPT ![cur] = held[cur] \cup {j}]
    BY <1>2 DEF Update, UpdateFails, ShadowCurrent, State, IndInv, TypeOK, Holders
  <2>2. CASE j \in held[cur]
    <3>1. held[cur] \cup {j} = held[cur]
      BY <2>2
    <3>2. UNCHANGED <<perjob, counter, saved, held>>
      BY <2>1, <2>2, <3>1 DEF registry, IndInv, TypeOK
    <3> QED
      BY <3>2, QuietStutters
  <2>3. CASE j \notin held[cur]
    <3>1. Life!Acquire(cur, j)
      BY <2>1, <2>3, ResolveAcquires
    <3> QED
      BY <2>1, <3>1 DEF Life!Next
  <2> QED
    BY <2>2, <2>3
<1>3. CASE ScrapeTrace(j)
  <2>1. UNCHANGED <<perjob, counter, saved, held>>
    BY <1>3 DEF ScrapeTrace, registry
  <2> QED
    BY <2>1, QuietStutters
<1> QED
  BY <1>1, <1>2, <1>3 DEF JobStep

\* Every step of the registry is a step or a stutter of JobLife.
LEMMA StepImplements == IndInv /\ [Next]_vars => [Life!Next]_Life!vars
<1> SUFFICES ASSUME IndInv, [Next]_vars PROVE [Life!Next]_Life!vars
  OBVIOUS
<1>1. CASE UNCHANGED vars \/ (\E k \in Children \cup Jobs : NotDue(k)) \/ BeginPass \/ ForgetGone \/ EndFetch
  <2>1. UNCHANGED <<perjob, counter, saved, held>>
    BY <1>1 DEF vars, registry, NotDue, BeginPass, ForgetGone, EndFetch
  <2> QED
    BY <2>1, QuietStutters
<1>2. CASE EndPass
  <2>1. /\ held' = [h \in Holders |-> IF h \in failed \cap Holders THEN {} ELSE held[h]]
        /\ UNCHANGED <<counter, perjob, saved>>
    BY <1>2 DEF EndPass, DropScrapers
  <2>2. failed \cap Holders \in SUBSET Holders
    OBVIOUS
  <2>3. Life!Forget(failed \cap Holders)
    BY <2>1, <2>2, DropForgets
  <2> QED
    BY <2>2, <2>3 DEF Life!Next
<1> QED
  BY <1>1, <1>2, ClientImplements, ScraperImplements, JobImplements DEF Next

(***************************************************************************)
(* The registry of ExporterFactory implements JobLife: in every behaviour  *)
(* of client threads, scrapes, /join and /disconnect, a job lives from its *)
(* first use to its last and is stored by the step that ends the last one; *)
(* only users dropped without relax_job keep it alive for ever.            *)
(***************************************************************************)
THEOREM RegistryImplementsJobLife == Spec => ImplementsJobLife
<1>1. Init => Life!Init
  BY InitImplements
<1>2. IndInv /\ [Next]_vars => [Life!Next]_Life!vars
  BY StepImplements
<1> QED
  BY <1>1, <1>2, Invariance, PTL DEF Spec, Life!Spec, ImplementsJobLife
=============================================================================

-------------------------- MODULE ProfileStoreProofs -------------------------
(***************************************************************************)
(* Proofs about the files, the memory and the models of ProfileStore, for  *)
(* any jobs, commands, runs, web threads and bounds.                       *)
(***************************************************************************)
EXTENDS ProfileStore, FiniteSetTheorems, TLAPS

\* Where a thread is while it generates a model.
Phases == {"gather", "fetch", "create", "lines"}

\* The Saver is a thread and no web thread.
LEMMA SaverIsThread == Saver \in Threads /\ Saver \notin Web
BY ThreadsAssumption DEF Threads

\* What is stored has no value that is not a number, and is stored as it is.
LEMMA SavedIsClean ==
  ASSUME NEW r \in Runs
  PROVE  LET p == Clean([of |-> r, end |-> EndTime(r), nan |-> r.nan])
         IN  p \in Complete /\ Serialized(p) = p
<1>1. EndTime(r) \in Stamps /\ r.nan \in BOOLEAN
  BY RunsAssumption, BoundsAssumption DEF EndTime, Stamps
<1>2. [of |-> r, end |-> EndTime(r), nan |-> r.nan] \in Profiles
  BY <1>1 DEF Profiles
<1> QED
  BY <1>1, <1>2 DEF Clean, Serialized, Profiles, Complete

\* A new directory.
LEMMA InitFilesInv == Init => FilesInv
<1> SUFFICES ASSUME Init PROVE FilesInv
  OBVIOUS
<1> USE SaverIsThread, NoneAssumption DEF Init
<1>1. FilesTyped
  BY DEF FilesTyped
<1>2. SaverConsistent
  BY DEF SaverConsistent, Busy
<1>3. TornIsCut /\ DownIsEmpty
  BY DEF TornIsCut, TornJobs, DownIsEmpty
<1>4. MemoryIsDisk /\ StartFailsOnCutOnly
  BY DEF MemoryIsDisk, StartFailsOnCutOnly
<1> QED
  BY <1>1, <1>2, <1>3, <1>4 DEF FilesInv

\* A thread that does something belongs to a process that runs.
LEMMA WorkingIsUp ==
  ASSUME FilesInv, NEW t \in Threads, pc[t] # "idle"
  PROVE  status = "up"
BY DEF FilesInv, DownIsEmpty

(***************************************************************************)
(* A thread moves on without touching profiles: a web thread, or the Saver *)
(* in the generation of a model or at its end.                             *)
(***************************************************************************)
LEMMA MoveOn ==
  ASSUME FilesInv, status = "up", NEW t \in Threads, NEW to,
         pc' = [pc EXCEPT ![t] = to],
         UNCHANGED <<status, disk, mem, cut>>,
         t # Saver => saving' = saving,
         t = Saver => /\ pc[Saver] \in Phases
                      /\ \/ to \in Phases /\ saving' = saving
                         \/ to = "idle" /\ saving' = Absent
  PROVE  FilesInv'
<1> USE SaverIsThread, NoneAssumption DEF FilesInv
<1>1. CASE t # Saver
  <2>1. pc'[Saver] = pc[Saver] /\ DOMAIN pc' = Threads /\ saving' = saving
    BY <1>1 DEF FilesTyped
  <2> QED
    BY <1>1, <2>1 DEF FilesTyped, SaverConsistent, Busy, TornIsCut, TornJobs, CutOff, DownIsEmpty,
                      MemoryIsDisk, StartFailsOnCutOnly
<1>2. CASE t = Saver
  <2>1. pc'[Saver] = to /\ DOMAIN pc' = Threads
    BY <1>2 DEF FilesTyped
  <2>2. saving # Absent /\ mem[saving.job] = disk[saving.job]
    BY <1>2 DEF SaverConsistent, Busy, Phases
  <2>3. FilesTyped'
    BY <1>2, <2>1 DEF FilesTyped
  <2>4. SaverConsistent'
    BY <1>2, <2>1, <2>2 DEF SaverConsistent, Busy, Phases
  <2>5. TornIsCut'
    BY <1>2, <2>1 DEF TornIsCut, TornJobs, CutOff, Phases
  <2>6. DownIsEmpty' /\ StartFailsOnCutOnly'
    BY DEF DownIsEmpty, StartFailsOnCutOnly
  <2>7. MemoryIsDisk'
    BY <1>2, <2>2 DEF MemoryIsDisk
  <2> QED
    BY <2>3, <2>4, <2>5, <2>6, <2>7
<1> QED
  BY <1>1, <1>2

\* The generation of a model, and the requests that may lead to it.
LEMMA GenerateFilesInv ==
  ASSUME FilesInv, NEW t \in Threads,
         \/ Gather(t) \/ GatherNothing(t) \/ Fetch(t) \/ Create(t) \/ Line(t) \/ Close(t)
         \/ GenerateFails(t) \/ Read(t) \/ Reread(t)
         \/ (t \in Web /\ \E c \in Commands : Ask(t, c))
  PROVE  FilesInv'
<1> USE SaverIsThread
<1>1. status = "up"
  BY WorkingIsUp DEF Gather, GatherNothing, Fetch, Create, Line, Close, GenerateFails,
                     Read, Reread, Ask
<1>2. pc[Saver] \notin {"read", "reread"}
  BY DEF FilesInv, SaverConsistent
<1>3. UNCHANGED <<status, disk, mem, cut>>
  BY DEF Gather, GatherNothing, Fetch, Create, Line, Close, GenerateFails, Read, Reread, Ask
<1>4. CASE Gather(t) \/ Fetch(t) \/ Create(t)
  <2>1. PICK to \in Phases : pc' = [pc EXCEPT ![t] = to]
    BY <1>4 DEF Gather, Fetch, Create, Goto, Phases
  <2>2. pc[t] \in Phases /\ saving' = saving
    BY <1>4 DEF Gather, Fetch, Create, Phases
  <2> QED
    BY <1>1, <1>3, <2>1, <2>2, MoveOn
<1>9. CASE Line(t)
  <2>1. UNCHANGED <<status, disk, mem, pc, saving, cut>>
    BY <1>9 DEF Line
  <2> QED
    BY <2>1 DEF FilesInv, FilesTyped, SaverConsistent, Busy, TornIsCut, TornJobs, CutOff,
                DownIsEmpty, MemoryIsDisk, StartFailsOnCutOnly
<1>5. CASE GatherNothing(t) \/ Close(t)
  BY <1>1, <1>3, <1>5, MoveOn DEF GatherNothing, Close, Resume, Goto, Phases
<1>6. CASE GenerateFails(t)
  BY <1>1, <1>3, <1>6, MoveOn DEF GenerateFails, Goto, Phases
<1>7. CASE Read(t) \/ Reread(t)
  BY <1>1, <1>2, <1>3, <1>7, MoveOn DEF Read, Reread, Goto
<1>8. CASE t \in Web /\ \E c \in Commands : Ask(t, c)
  BY <1>1, <1>3, <1>8, MoveOn DEF Ask, Goto
<1> QED
  BY <1>4, <1>5, <1>6, <1>7, <1>8, <1>9

-----------------------------------------------------------------------------
\* saveprofile: the file is created, and cannot be read until it is written.
LEMMA SaveFilesInv ==
  ASSUME FilesInv, NEW j \in Jobs, NEW r \in Runs, Save(j, r)
  PROVE  FilesInv'
<1> USE SaverIsThread, NoneAssumption DEF FilesInv
<1>1. PICK p \in Complete : saving' = [job |-> j, profile |-> p]
  BY SavedIsClean DEF Save
<1>2. /\ status = "up" /\ pc[Saver] = "idle" /\ disk' = [disk EXCEPT ![j] = Torn]
      /\ pc' = [pc EXCEPT ![Saver] = "write"] /\ UNCHANGED <<status, mem, cut>>
  BY DEF Save, Goto
<1>3. saving = Absent /\ saving'.job = j /\ saving' # Absent
  BY <1>1, <1>2 DEF SaverConsistent, Busy, Complete
<1>4. pc'[Saver] = "write" /\ disk'[j] = Torn /\ \A k \in Jobs : k # j => disk'[k] = disk[k]
  BY <1>2 DEF FilesTyped
<1>5. FilesTyped'
  BY <1>1, <1>2 DEF FilesTyped
<1>6. SaverConsistent'
  BY <1>3, <1>4 DEF SaverConsistent, Busy
<1>7. TornIsCut'
  BY <1>2, <1>3, <1>4 DEF TornIsCut, TornJobs, CutOff
<1>8. DownIsEmpty' /\ StartFailsOnCutOnly'
  BY <1>2 DEF DownIsEmpty, StartFailsOnCutOnly
<1>9. MemoryIsDisk'
  BY <1>2, <1>3, <1>4 DEF MemoryIsDisk
<1> QED
  BY <1>5, <1>6, <1>7, <1>8, <1>9

\* The file is written, and is no longer cut off if it was.
LEMMA WriteFilesInv ==
  ASSUME FilesInv, Write
  PROVE  FilesInv'
<1> USE SaverIsThread, NoneAssumption DEF FilesInv
<1>1. status = "up"
  BY WorkingIsUp DEF Write
<1>2. /\ saving # Absent /\ saving.job \in Jobs /\ saving.profile \in Complete
      /\ ~saving.profile.nan /\ saving.profile # Torn
  BY DEF Write, SaverConsistent, Busy, FilesTyped, Complete
<1>3. /\ disk' = [disk EXCEPT ![saving.job] = saving.profile]
      /\ pc' = [pc EXCEPT ![Saver] = "insert"] /\ cut' = cut \ {saving.job}
      /\ UNCHANGED <<status, mem, saving>>
  BY <1>2 DEF Write, Goto, Serialized
<1>4. /\ pc'[Saver] = "insert" /\ disk'[saving.job] = saving.profile
      /\ \A k \in Jobs : k # saving.job => disk'[k] = disk[k]
  BY <1>2, <1>3 DEF FilesTyped
<1>5. FilesTyped'
  BY <1>2, <1>3 DEF FilesTyped
<1>6. SaverConsistent'
  BY <1>2, <1>3, <1>4 DEF SaverConsistent, Busy
<1>7. TornIsCut'
  BY <1>2, <1>3, <1>4 DEF TornIsCut, TornJobs, CutOff
<1>8. DownIsEmpty' /\ StartFailsOnCutOnly'
  BY <1>1, <1>3 DEF DownIsEmpty, StartFailsOnCutOnly
<1>9. MemoryIsDisk'
  BY <1>2, <1>3, <1>4 DEF MemoryIsDisk
<1> QED
  BY <1>5, <1>6, <1>7, <1>8, <1>9

\* The write fails: the file is one of those that were cut off.
LEMMA WriteFailsFilesInv ==
  ASSUME FilesInv, WriteFails
  PROVE  FilesInv'
<1> USE SaverIsThread, NoneAssumption DEF FilesInv
<1>1. status = "up"
  BY WorkingIsUp DEF WriteFails
<1>2. saving # Absent /\ saving.job \in TornJobs /\ pc[Saver] = "write"
  BY DEF WriteFails, SaverConsistent, Busy, FilesTyped, TornJobs
<1>3. /\ pc' = [pc EXCEPT ![Saver] = "idle"] /\ cut' = cut \cup {saving.job}
      /\ saving' = Absent /\ UNCHANGED <<status, disk, mem>>
  BY DEF WriteFails, Goto
<1>4. pc'[Saver] = "idle"
  BY <1>3 DEF FilesTyped
<1>5. FilesTyped' /\ SaverConsistent'
  BY <1>3, <1>4 DEF FilesTyped, SaverConsistent, Busy
<1>6. TornIsCut'
  BY <1>2, <1>3, <1>4 DEF TornIsCut, TornJobs, CutOff
<1>7. DownIsEmpty' /\ StartFailsOnCutOnly' /\ MemoryIsDisk'
  BY <1>1, <1>3 DEF DownIsEmpty, StartFailsOnCutOnly, MemoryIsDisk
<1> QED
  BY <1>5, <1>6, <1>7

\* The profile is entered in memory, after it was written.
LEMMA InsertFilesInv ==
  ASSUME FilesInv, Insert
  PROVE  FilesInv'
<1> USE SaverIsThread, NoneAssumption DEF FilesInv
<1>1. status = "up"
  BY WorkingIsUp DEF Insert
<1>2. /\ saving # Absent /\ saving.job \in Jobs /\ saving.profile \in Complete
      /\ disk[saving.job] = saving.profile
  BY DEF Insert, SaverConsistent, Busy, FilesTyped
<1>3. /\ mem' = [mem EXCEPT ![saving.job] = saving.profile]
      /\ pc' = [pc EXCEPT ![Saver] = "gather"] /\ pc[Saver] = "insert"
      /\ UNCHANGED <<status, disk, saving, cut>>
  BY DEF Insert, Goto
<1>4. /\ pc'[Saver] = "gather" /\ mem'[saving.job] = disk[saving.job]
      /\ \A k \in Jobs : k # saving.job => mem'[k] = mem[k]
  BY <1>2, <1>3 DEF FilesTyped
<1>5. FilesTyped'
  BY <1>2, <1>3 DEF FilesTyped
<1>6. SaverConsistent'
  BY <1>2, <1>3, <1>4 DEF SaverConsistent, Busy
<1>7. TornIsCut' /\ DownIsEmpty' /\ StartFailsOnCutOnly'
  BY <1>1, <1>3, <1>4 DEF TornIsCut, TornJobs, CutOff, DownIsEmpty, StartFailsOnCutOnly
<1>8. MemoryIsDisk'
  BY <1>3, <1>4 DEF MemoryIsDisk
<1> QED
  BY <1>5, <1>6, <1>7, <1>8

-----------------------------------------------------------------------------
\* A file that can be read has a complete profile.
LEMMA FoundIsComplete ==
  ASSUME FilesInv, NEW j \in Jobs, disk[j] \in Profiles
  PROVE  disk[j] \in Complete
BY NoneAssumption DEF FilesInv, FilesTyped

\* A plot reads profiles again: what memory gets is what the files hold.
LEMMA PlotFilesInv ==
  ASSUME FilesInv, NEW c \in Commands, Plot(c)
  PROVE  FilesInv'
<1> USE SaverIsThread, NoneAssumption DEF FilesInv
<1>1. PICK S \in SUBSET {j \in Jobs : disk[j] \in Profiles} :
        mem' = [j \in Jobs |-> IF j \in S THEN disk[j] ELSE mem[j]]
  BY DEF Plot, Load
<1>2. status = "up" /\ UNCHANGED <<status, disk, pc, saving, cut>>
  BY DEF Plot, threads
<1>3. \A j \in Jobs : mem'[j] = disk[j] \/ mem'[j] = mem[j]
  BY <1>1
<1>4. FilesTyped'
  <2>1. \A j \in S : disk[j] \in Complete
    BY FoundIsComplete
  <2> QED
    BY <1>1, <1>2, <2>1 DEF FilesTyped
<1>5. SaverConsistent'
  BY <1>2, <1>3 DEF SaverConsistent, Busy, FilesTyped
<1>6. TornIsCut' /\ DownIsEmpty' /\ StartFailsOnCutOnly'
  BY <1>2 DEF TornIsCut, TornJobs, CutOff, DownIsEmpty, StartFailsOnCutOnly
<1>7. MemoryIsDisk'
  BY <1>2, <1>3 DEF MemoryIsDisk
<1> QED
  BY <1>4, <1>5, <1>6, <1>7

\* The process ends, by a kill or because its stack overflows: a file that was
\* being written is cut off.
LEMMA EndFilesInv ==
  ASSUME FilesInv, status' = "down", Empty, cut' = cut \cup CutOff, UNCHANGED disk
  PROVE  FilesInv'
<1> USE SaverIsThread, NoneAssumption DEF FilesInv
<1>1. pc'[Saver] = "idle" /\ saving' = Absent
  BY DEF Empty
<1>2. FilesTyped'
  BY DEF FilesTyped, Empty
<1>3. SaverConsistent'
  BY <1>1 DEF SaverConsistent, Busy
<1>4. TornIsCut'
  <2>1. CutOff \subseteq TornJobs
    BY DEF CutOff, TornJobs, FilesTyped, SaverConsistent, Busy
  <2> QED
    BY <2>1 DEF TornIsCut, TornJobs
<1>5. DownIsEmpty'
  BY DEF DownIsEmpty, Empty
<1>6. MemoryIsDisk' /\ StartFailsOnCutOnly'
  BY DEF MemoryIsDisk, StartFailsOnCutOnly
<1> QED
  BY <1>2, <1>3, <1>4, <1>5, <1>6

\* A start reads every profile of the directory.
LEMMA StartFilesInv ==
  ASSUME FilesInv, Start
  PROVE  FilesInv'
<1> USE SaverIsThread, NoneAssumption DEF FilesInv
<1>1. /\ status # "up" /\ TornJobs = {} /\ status' = "up"
      /\ mem' = [j \in Jobs |-> IF j \in {k \in Jobs : disk[k] \in Profiles}
                                THEN disk[j] ELSE mem[j]]
      /\ UNCHANGED <<disk, pc, saving, cut>>
  BY DEF Start, Load, threads
<1>2. \A j \in Jobs : disk[j] \in Complete \/ disk[j] = Absent
  BY <1>1 DEF TornJobs, FilesTyped
<1>3. \A j \in Jobs : mem'[j] = disk[j]
  BY <1>1, <1>2 DEF DownIsEmpty, Complete
<1>4. pc[Saver] = "idle"
  BY <1>1 DEF DownIsEmpty
<1>5. FilesTyped'
  BY <1>1, <1>2, <1>3 DEF FilesTyped
<1>6. SaverConsistent'
  BY <1>1, <1>4 DEF SaverConsistent, Busy
<1>7. TornIsCut'
  BY <1>1 DEF TornIsCut, TornJobs
<1>8. DownIsEmpty' /\ StartFailsOnCutOnly'
  BY <1>1 DEF DownIsEmpty, StartFailsOnCutOnly
<1>9. MemoryIsDisk'
  BY <1>1, <1>3 DEF MemoryIsDisk
<1> QED
  BY <1>5, <1>6, <1>7, <1>8, <1>9

\* A start fails: nobody is writing, so the file it stops at was cut off.
LEMMA StartFailsFilesInv ==
  ASSUME FilesInv, StartFails
  PROVE  FilesInv'
<1> USE SaverIsThread DEF FilesInv
<1>1. /\ status = "down" /\ TornJobs # {} /\ status' = "failed"
      /\ UNCHANGED <<disk, mem, pc, saving, cut>>
  BY DEF StartFails, threads
<1>2. pc[Saver] = "idle"
  BY <1>1 DEF DownIsEmpty
<1>3. FilesTyped' /\ SaverConsistent' /\ DownIsEmpty' /\ MemoryIsDisk'
  BY <1>1 DEF FilesTyped, SaverConsistent, Busy, DownIsEmpty, MemoryIsDisk
<1>4. TornIsCut' /\ StartFailsOnCutOnly'
  BY <1>1, <1>2 DEF TornIsCut, TornJobs, CutOff, StartFailsOnCutOnly
<1> QED
  BY <1>3, <1>4

-----------------------------------------------------------------------------
\* Every step keeps the invariant.
LEMMA NextFilesInv == FilesInv /\ [Next]_vars => FilesInv'
<1> SUFFICES ASSUME FilesInv, [Next]_vars PROVE FilesInv'
  OBVIOUS
<1>1. CASE \E j \in Jobs, r \in Runs : Save(j, r)
  BY <1>1, SaveFilesInv
<1>2. CASE WriteFails
  BY <1>2, WriteFailsFilesInv
<1>3. CASE \E t \in Threads : FetchOverflows(t)
  BY <1>3, EndFilesInv DEF FetchOverflows
<1>4. CASE Write
  BY <1>4, WriteFilesInv
<1>5. CASE Insert
  BY <1>5, InsertFilesInv
<1>6. CASE \E t \in Threads : \/ Gather(t) \/ GatherNothing(t) \/ Fetch(t) \/ Create(t)
                              \/ Line(t) \/ Close(t) \/ GenerateFails(t)
                              \/ Read(t) \/ Reread(t)
  BY <1>6, GenerateFilesInv
<1>7. CASE \E t \in Web, c \in Commands : Ask(t, c)
  BY <1>7, GenerateFilesInv DEF Threads
<1>8. CASE \E c \in Commands : Plot(c)
  BY <1>8, PlotFilesInv
<1>9. CASE GetOverflows \/ Kill
  BY <1>9, EndFilesInv DEF GetOverflows, Kill
<1>10. CASE Start
  BY <1>10, StartFilesInv
<1>11. CASE StartFails
  BY <1>11, StartFailsFilesInv
<1>12. CASE UNCHANGED vars
  BY <1>12 DEF vars, threads, FilesInv, FilesTyped, SaverConsistent, Busy, TornIsCut, TornJobs,
               CutOff, DownIsEmpty, MemoryIsDisk, StartFailsOnCutOnly
<1> QED
  BY <1>1, <1>2, <1>3, <1>4, <1>5, <1>6, <1>7, <1>8, <1>9, <1>10, <1>11, <1>12
  DEF Next, Work, Generate

\* FilesInv is an invariant of the profile store.
LEMMA FilesInvariant == Spec => []FilesInv
BY InitFilesInv, NextFilesInv, PTL DEF Spec

(***************************************************************************)
(* Whatever the proxy shows of a job is what its profile file holds, so a  *)
(* restart brings the same back (saveprofile, refresh_profiles); only a    *)
(* job that is being stored, or whose file a kill or a failed write cut    *)
(* off, is excepted.                                                       *)
(***************************************************************************)
THEOREM MemoryMatchesDisk == Spec => []MemoryIsDisk
<1>1. FilesInv => MemoryIsDisk
  BY DEF FilesInv
<1> QED
  BY <1>1, FilesInvariant, PTL

(***************************************************************************)
(* A start of the proxy fails (refresh_profiles, called by ProfileView::   *)
(* new) only when a kill or a failed write cut off a profile: what         *)
(* saveprofile completes can always be read back.                          *)
(***************************************************************************)
THEOREM CompletedProfilesCanBeRead == Spec => []StartFailsOnCutOnly
<1>1. FilesInv => StartFailsOnCutOnly
  BY DEF FilesInv
<1> QED
  BY <1>1, FilesInvariant, PTL

-----------------------------------------------------------------------------
(***************************************************************************)
(* Models.                                                                 *)
(***************************************************************************)

\* The wall time of a complete profile.
LEMMA WalltimeIs ==
  ASSUME NEW p \in Complete
  PROVE  Walltime(p) \in Stamps /\ (Walltime(p) = p.of.stop - p.of.start \/ p.of.child)
<1> DEFINE M == 2^W
           a == p.of.start
           b == p.of.stop
<1>1. M \in Int /\ a \in 0 .. M - 1 /\ b \in 0 .. M - 1 /\ a <= b /\ p.end \in 0 .. M - 1
  BY RunsAssumption, BoundsAssumption DEF Complete, Profiles, Stamps
<1>2. p.of.child \/ p.end = b
  BY DEF Complete, EndTime
<1>3. Walltime(p) = (p.end - a) % M /\ Stamps = 0 .. M - 1
  BY DEF Walltime, Stamps
<1> HIDE DEF M, a
<1>4. (p.end - a) % M \in 0 .. M - 1
  BY <1>1
<1>5. (b - a) % M = b - a
  BY <1>1
<1> QED
  BY <1>2, <1>3, <1>4, <1>5 DEF a

\* The model of complete profiles: accurate samples, at most one of each job.
LEMMA ModelIs ==
  ASSUME NEW S \in SUBSET Jobs, NEW P \in [S -> Complete]
  PROVE  /\ Model(P) \subseteq Right /\ IsFiniteSet(Model(P))
         /\ Cardinality(Model(P)) \in Nat /\ Cardinality(Model(P)) <= Cardinality(Jobs)
<1> DEFINE sample(j) == [job |-> j, of |-> P[j].of, walltime |-> Walltime(P[j])]
           T == {i \in S : Metrics(P)[i] > Average(P) /\ P[i].of.complete}
<1>1. Model(P) = {sample(j) : j \in T}
  BY DEF Model
<1>2. T \in SUBSET Jobs /\ \A j \in T : P[j] \in Complete
  OBVIOUS
<1>3. \A j \in T : sample(j) \in Right
  <2> TAKE j \in T
  <2>1. P[j] \in Complete /\ j \in Jobs /\ P[j].of \in Runs
    BY <1>2 DEF Complete, Profiles
  <2>2. Walltime(P[j]) \in Stamps /\ (Walltime(P[j]) = P[j].of.stop - P[j].of.start \/ P[j].of.child)
    BY <2>1, WalltimeIs
  <2> QED
    BY <2>1, <2>2 DEF Right, Samples, Accurate
<1>4. IsFiniteSet(T) /\ Cardinality(T) <= Cardinality(Jobs)
  BY <1>2, SetsAssumption, FS_Subset
<1> HIDE DEF T
<1> DEFINE f == [j \in T |-> sample(j)]
           R == {sample(j) : j \in T}
<1>5. f \in Surjection(T, R)
  BY DEF Surjection
<1>6. IsFiniteSet(R) /\ Cardinality(R) <= Cardinality(T)
  BY <1>4, <1>5, FS_Surjection
<1>7. Cardinality(R) \in Nat /\ Cardinality(T) \in Nat /\ Cardinality(Jobs) \in Nat
  BY <1>4, <1>6, SetsAssumption, FS_CardinalityType
<1>8. R \subseteq Right
  BY <1>3
<1> HIDE DEF R
<1>9. Model(P) = R
  BY <1>1 DEF R
<1> QED
  BY <1>4, <1>6, <1>7, <1>8, <1>9

\* What the model of a command should have.
LEMMA WantedIs ==
  ASSUME FilesTyped, NEW c
  PROVE  /\ Wanted(c) \subseteq Right /\ IsFiniteSet(Wanted(c))
         /\ Cardinality(Wanted(c)) \in Nat /\ Cardinality(Wanted(c)) <= Cardinality(Jobs)
<1>1. Stored(c) \in SUBSET Jobs
  BY DEF Stored
<1>2. Restrict(mem, Stored(c)) \in [Stored(c) -> Complete]
  BY DEF FilesTyped, Stored, Restrict
<1> QED
  BY <1>1, <1>2, ModelIs DEF Wanted

\* The same memory wants the same models.
LEMMA WantedSame ==
  ASSUME mem' = mem, NEW c
  PROVE  Wanted(c)' = Wanted(c) /\ Stored(c)' = Stored(c)
BY DEF Wanted, Stored

\* A file with lines is there.
LEMMA LinesAreThere ==
  ASSUME NEW lines \in Seq({Hole} \cup Right)
  PROVE  lines # Absent
<1>1. lines \in Seq({Hole} \cup Samples)
  <2>1. \A i \in 1 .. Len(lines) : lines[i] \in {Hole} \cup Samples
    BY DEF Right
  <2> QED
    BY <2>1
<1> QED
  BY <1>1, NoneAssumption

\* A new directory has no models.
LEMMA InitModelsInv == Init => ModelsInv
<1> SUFFICES ASSUME Init PROVE ModelsInv
  OBVIOUS
<1>1. (CHOOSE c \in Commands : TRUE) \in Commands
  BY SetsAssumption
<1>2. Cardinality(Jobs) \in Nat
  BY SetsAssumption, FS_CardinalityType
<1>3. spent \in [saves : 0 .. MaxSaves, asks : 0 .. MaxAsks, faults : 0 .. MaxFaults]
  BY BoundsAssumption DEF Init
<1>4. ModelsTyped
  BY <1>1, <1>2, <1>3 DEF Init, ModelsTyped, Places
<1>5. StoringUnsettles /\ SettledCurrent
  BY SaverIsThread DEF Init, StoringUnsettles, SettledCurrent
<1>6. \A t \in Threads : Tracked(t) /\ Alone(t) /\ Ahead(t)
  BY DEF Init, Tracked, Alone, Ahead, AtWork
<1> QED
  BY <1>4, <1>5, <1>6 DEF ModelsInv

(***************************************************************************)
(* Thread t goes on to something else than the work on a model, and leaves *)
(* memory and models alone.                                                *)
(***************************************************************************)
LEMMA LeaveModels ==
  ASSUME ModelsInv, status = "up", NEW t \in Threads,
         NEW to \in Places \ {"fetch", "create", "lines"},
         pc' = [pc EXCEPT ![t] = to],
         UNCHANGED <<status, mem, jsonl, models, settled, crossed, jobs, offset>>,
         cmd' \in [Threads -> Commands], todo' \in [Threads -> SUBSET Right],
         \A u \in Threads \ {t} : cmd'[u] = cmd[u] /\ todo'[u] = todo[u],
         cut' \subseteq Jobs,
         spent' \in [saves : 0 .. MaxSaves, asks : 0 .. MaxAsks, faults : 0 .. MaxFaults],
         saving' \in {saving, Absent},
         t # Saver => saving' = saving,
         t = Saver => to = "idle" \/ (pc[t] = "write" /\ to = "insert" /\ saving' = saving)
  PROVE  ModelsInv'
<1> USE SaverIsThread DEF ModelsInv
<1>1. /\ pc' \in [Threads -> Places] /\ pc'[t] = to
      /\ \A u \in Threads \ {t} : pc'[u] = pc[u]
  BY DEF ModelsTyped
<1>2. ModelsTyped'
  BY <1>1 DEF ModelsTyped
<1>3. StoringUnsettles'
  BY <1>1 DEF StoringUnsettles
<1>4. SettledCurrent'
  BY WantedSame DEF SettledCurrent
<1>5. ASSUME NEW u \in Threads
      PROVE  (Tracked(u) /\ Alone(u) /\ Ahead(u))'
  <2>1. CASE u = t
    BY <1>1, <2>1 DEF Tracked, Alone, Ahead, AtWork
  <2>2. CASE u # t
    <3>1. pc'[u] = pc[u] /\ cmd'[u] = cmd[u] /\ todo'[u] = todo[u]
      BY <1>1, <2>2
    <3>2. Tracked(u)'
      BY <3>1 DEF Tracked
    <3>3. Alone(u)'
      BY <1>1, <3>1 DEF Alone, AtWork
    <3>4. Wanted(cmd[u])' = Wanted(cmd[u]) /\ Stored(cmd[u])' = Stored(cmd[u])
      BY <3>1 DEF Wanted, Stored
    <3>5. Ahead(u)'
      BY <3>1, <3>4 DEF Ahead, AtWork
    <3> QED
      BY <3>2, <3>3, <3>5
  <2> QED
    BY <2>1, <2>2
<1> QED
  BY <1>2, <1>3, <1>4, <1>5

\* The bounds of the model leave the numbers in their ranges.
LEMMA SpendTyped ==
  ASSUME ModelsTyped, NEW what \in {"saves", "asks", "faults"}, Spend(what),
         what = "saves" => spent.saves < MaxSaves,
         what = "asks" => spent.asks < MaxAsks,
         what = "faults" => spent.faults < MaxFaults
  PROVE  spent' \in [saves : 0 .. MaxSaves, asks : 0 .. MaxAsks, faults : 0 .. MaxFaults]
BY BoundsAssumption DEF ModelsTyped, Spend

\* What the steps of storing and of requests do that leave models alone.
LEMMA WriteModelsInv ==
  ASSUME FilesInv, ModelsInv, Write \/ WriteFails
  PROVE  ModelsInv'
<1>1. status = "up" /\ saving.job \in Jobs /\ saving # Absent
  BY WorkingIsUp, SaverIsThread DEF Write, WriteFails, FilesInv, SaverConsistent, Busy, FilesTyped
<1>2. ModelsTyped
  BY DEF ModelsInv
<1>3. CASE Write
  <2>1. cut' \subseteq Jobs
    BY <1>2, <1>3 DEF Write, ModelsTyped
  <2> QED
    BY <1>1, <1>2, <1>3, <2>1, LeaveModels, SaverIsThread DEF Write, Goto, Places, ModelsTyped
<1>4. CASE WriteFails
  <2>1. cut' \subseteq Jobs
    BY <1>1, <1>2, <1>4 DEF WriteFails, ModelsTyped
  <2>2. spent' \in [saves : 0 .. MaxSaves, asks : 0 .. MaxAsks, faults : 0 .. MaxFaults]
    BY <1>2, <1>4, SpendTyped DEF WriteFails
  <2> QED
    BY <1>1, <1>2, <1>4, <2>1, <2>2, LeaveModels, SaverIsThread
    DEF WriteFails, Goto, Places, ModelsTyped
<1> QED
  BY <1>3, <1>4

\* A thread has nothing to generate, or fails, or reads a model.
LEMMA LeavingModelsInv ==
  ASSUME FilesInv, ModelsInv, NEW t \in Threads,
         \/ GatherNothing(t) \/ GenerateFails(t) \/ Read(t) \/ Reread(t)
         \/ (t \in Web /\ \E c \in Commands : Ask(t, c))
  PROVE  ModelsInv'
<1>1. status = "up"
  BY WorkingIsUp DEF GatherNothing, GenerateFails, Read, Reread, Ask
<1>2. ModelsTyped /\ pc[Saver] \notin {"read", "reread"}
  BY DEF ModelsInv, FilesInv, SaverConsistent
<1>3. CASE GatherNothing(t)
  BY <1>1, <1>2, <1>3, LeaveModels DEF GatherNothing, Resume, Goto, Places, ModelsTyped
<1>4. CASE GenerateFails(t)
  <2>1. spent' \in [saves : 0 .. MaxSaves, asks : 0 .. MaxAsks, faults : 0 .. MaxFaults]
    BY <1>2, <1>4, SpendTyped DEF GenerateFails
  <2>2. /\ todo' \in [Threads -> SUBSET Right]
        /\ \A u \in Threads \ {t} : todo'[u] = todo[u]
    BY <1>2, <1>4 DEF GenerateFails, ModelsTyped
  <2> QED
    BY <1>1, <1>2, <1>4, <2>1, <2>2, LeaveModels DEF GenerateFails, Goto, Places, ModelsTyped
<1>5. CASE Read(t)
  <2>1. PICK to \in {"idle", "gather"} : pc' = [pc EXCEPT ![t] = to]
    BY <1>5 DEF Read, Goto
  <2>2. t # Saver
    BY <1>2, <1>5 DEF Read
  <2> QED
    BY <1>1, <1>2, <1>5, <2>1, <2>2, LeaveModels DEF Read, Places, ModelsTyped
<1>6. CASE Reread(t)
  BY <1>1, <1>2, <1>6, LeaveModels DEF Reread, Goto, Places, ModelsTyped
<1>7. ASSUME t \in Web, NEW c \in Commands, Ask(t, c)
      PROVE  ModelsInv'
  <2>1. spent' \in [saves : 0 .. MaxSaves, asks : 0 .. MaxAsks, faults : 0 .. MaxFaults]
    BY <1>2, <1>7, SpendTyped DEF Ask
  <2>2. /\ cmd' \in [Threads -> Commands]
        /\ \A u \in Threads \ {t} : cmd'[u] = cmd[u]
    BY <1>2, <1>7 DEF Ask, ModelsTyped
  <2>3. t # Saver
    BY <1>7, SaverIsThread
  <2> QED
    BY <1>1, <1>2, <1>7, <2>1, <2>2, <2>3, LeaveModels DEF Ask, Goto, Places, ModelsTyped
<1> QED
  BY <1>3, <1>4, <1>5, <1>6, <1>7

-----------------------------------------------------------------------------
\* saveprofile begins: the models of the job's old and new command are no longer
\* settled, and web threads that generate a model have been crossed.
LEMMA SaveModelsInv ==
  ASSUME FilesInv, ModelsInv, NEW j \in Jobs, NEW r \in Runs, Save(j, r)
  PROVE  ModelsInv'
<1> USE SaverIsThread
<1> DEFINE p == Clean([of |-> r, end |-> EndTime(r), nan |-> r.nan])
<1>1. /\ status = "up" /\ pc[Saver] = "idle" /\ saving' = [job |-> j, profile |-> p]
      /\ cmd' = [cmd EXCEPT ![Saver] = r.cmd] /\ pc' = [pc EXCEPT ![Saver] = "write"]
      /\ settled' = settled \ ({r.cmd} \cup {c \in Commands : j \in Stored(c)})
      /\ crossed' = crossed \cup {t \in Web : Generating(t)}
      /\ UNCHANGED <<status, mem, jsonl, models, jobs, todo, offset, cut>>
  BY DEF Save, Goto
<1>2. p.of = r /\ r.cmd \in Commands
  BY RunsAssumption DEF Clean
<1> HIDE DEF p
<1>3. ModelsTyped /\ FilesTyped
  BY DEF ModelsInv, FilesInv
<1>4. /\ pc' \in [Threads -> Places] /\ pc'[Saver] = "write" /\ cmd' \in [Threads -> Commands]
      /\ \A u \in Threads \ {Saver} : pc'[u] = pc[u] /\ cmd'[u] = cmd[u]
  BY <1>1, <1>2, <1>3 DEF ModelsTyped, Places
<1>5. ModelsTyped'
  <2>1. spent' \in [saves : 0 .. MaxSaves, asks : 0 .. MaxAsks, faults : 0 .. MaxFaults]
    BY <1>3, SpendTyped DEF Save
  <2>2. crossed' \subseteq Threads /\ settled' \subseteq Commands
    BY <1>1, <1>3 DEF ModelsTyped, Threads
  <2> QED
    BY <1>1, <1>3, <1>4, <2>1, <2>2 DEF ModelsTyped
<1>6. StoringUnsettles'
  <2>1. saving'.job = j /\ saving'.profile.of.cmd = r.cmd
    BY <1>1, <1>2
  <2>2. ASSUME mem[j] # Absent PROVE mem[j].of.cmd \notin settled'
    <3>1. mem[j].of.cmd \in Commands
      BY <1>3, <2>2, RunsAssumption DEF FilesTyped, Complete, Profiles
    <3>2. j \in Stored(mem[j].of.cmd)
      BY <2>2 DEF Stored
    <3> QED
      BY <1>1, <3>1, <3>2
  <2> QED
    BY <1>1, <2>1, <2>2 DEF StoringUnsettles
<1>7. SettledCurrent'
  BY <1>1, WantedSame DEF SettledCurrent, ModelsInv
<1>8. ASSUME NEW u \in Threads
      PROVE  (Tracked(u) /\ Alone(u) /\ Ahead(u))'
  <2>1. CASE u = Saver
    BY <1>4, <2>1 DEF Tracked, Alone, Ahead, AtWork
  <2>2. CASE u # Saver
    <3>1. pc'[u] = pc[u] /\ cmd'[u] = cmd[u] /\ u \in Web
      BY <1>4, <2>2 DEF Threads
    <3>2. AtWork(u)' => u \in crossed' /\ AtWork(u)
      BY <1>1, <3>1 DEF AtWork, Generating
    <3>3. Tracked(u)'
      BY <1>1, <3>1 DEF Tracked, ModelsInv
    <3>4. Alone(u) /\ settled' \subseteq settled
      BY <1>1 DEF ModelsInv
    <3>5. Alone(u)'
      BY <3>1, <3>2, <3>4 DEF Alone
    <3>6. Ahead(u)'
      BY <3>2 DEF Ahead
    <3> QED
      BY <3>3, <3>5, <3>6
  <2> QED
    BY <2>1, <2>2
<1> QED
  BY <1>5, <1>6, <1>7, <1>8 DEF ModelsInv

\* The profile that is stored gets into memory: no settled model is about it.
LEMMA Entered ==
  ASSUME FilesInv, ModelsInv, pc[Saver] = "insert",
         mem' = [mem EXCEPT ![saving.job] = saving.profile]
  PROVE  \A c \in settled : Wanted(c)' = Wanted(c)
<1> TAKE c \in settled
<1> DEFINE j == saving.job
<1>1. /\ saving # Absent /\ j \in Jobs /\ saving.profile \in Complete
      /\ mem \in [Jobs -> {Absent} \cup Complete]
  BY DEF FilesInv, FilesTyped, SaverConsistent, Busy
<1>2. saving.profile.of.cmd # c /\ (mem[j] # Absent => mem[j].of.cmd # c)
  BY DEF ModelsInv, StoringUnsettles
<1>3. mem'[j] = saving.profile /\ \A k \in Jobs : k # j => mem'[k] = mem[k]
  BY <1>1
<1>4. j \notin Stored(c) /\ j \notin Stored(c)'
  BY <1>2, <1>3 DEF Stored
<1>5. Stored(c)' = Stored(c)
  BY <1>3, <1>4 DEF Stored
<1>6. Restrict(mem', Stored(c)) = Restrict(mem, Stored(c))
  BY <1>3, <1>4 DEF Restrict, Stored
<1> QED
  BY <1>5, <1>6 DEF Wanted

\* While a profile is about to be entered no thread is at work undisturbed.
LEMMA InsertDisturbs ==
  ASSUME FilesInv, ModelsInv, pc[Saver] = "insert", NEW u \in Threads, AtWork(u)
  PROVE  u \in crossed
<1>1. saving # Absent /\ u # Saver
  BY DEF FilesInv, SaverConsistent, Busy, AtWork
<1> QED
  BY <1>1 DEF ModelsInv, Alone

\* The profile is entered in memory.
LEMMA InsertModelsInv ==
  ASSUME FilesInv, FilesInv', ModelsInv, Insert
  PROVE  ModelsInv'
<1> USE SaverIsThread
<1>1. /\ pc[Saver] = "insert" /\ mem' = [mem EXCEPT ![saving.job] = saving.profile]
      /\ pc' = [pc EXCEPT ![Saver] = "gather"]
      /\ UNCHANGED <<status, jsonl, models, cmd, saving, jobs, todo, offset, settled, crossed,
                     cut, spent>>
  BY DEF Insert, Goto
<1>2. status = "up"
  BY <1>1, WorkingIsUp
<1>3. /\ pc' \in [Threads -> Places] /\ pc'[Saver] = "gather"
      /\ \A u \in Threads \ {Saver} : pc'[u] = pc[u]
  BY <1>1 DEF ModelsInv, ModelsTyped, Places
<1>4. /\ saving.profile # Absent /\ saving.job \in Jobs
      /\ \A k \in Jobs : mem[k] # Absent => mem'[k] # Absent
  BY <1>1, NoneAssumption DEF FilesInv, FilesTyped, SaverConsistent, Busy, Complete
<1>5. ModelsTyped'
  BY <1>1, <1>3 DEF ModelsInv, ModelsTyped
<1>6. StoringUnsettles'
  BY <1>3 DEF StoringUnsettles
<1>7. SettledCurrent'
  BY <1>1, <1>2, Entered DEF SettledCurrent, ModelsInv
<1>8. ASSUME NEW u \in Threads
      PROVE  (Tracked(u) /\ Alone(u) /\ Ahead(u))'
  <2>1. CASE u = Saver
    BY <1>3, <2>1 DEF Tracked, Alone, Ahead, AtWork
  <2>2. CASE u # Saver
    <3>1. pc'[u] = pc[u] /\ jobs[u] \in SUBSET Jobs
      BY <1>3, <2>2 DEF ModelsInv, ModelsTyped
    <3>2. AtWork(u)' => u \in crossed' /\ AtWork(u)
      BY <1>1, <3>1, InsertDisturbs DEF AtWork
    <3>3. Tracked(u)'
      BY <1>1, <1>4, <3>1 DEF Tracked, ModelsInv
    <3>4. Alone(u)' /\ Ahead(u)'
      BY <1>1, <3>1, <3>2 DEF Alone, Ahead, ModelsInv
    <3> QED
      BY <3>3, <3>4
  <2> QED
    BY <2>1, <2>2
<1> QED
  BY <1>5, <1>6, <1>7, <1>8 DEF ModelsInv

\* A plot reads profiles again: memory stays as it is, or gets the profile that
\* is about to be entered.
LEMMA PlotLoads ==
  ASSUME FilesInv, status = "up", NEW S \in SUBSET {j \in Jobs : disk[j] \in Profiles},
         mem' = [j \in Jobs |-> IF j \in S THEN disk[j] ELSE mem[j]]
  PROVE  \/ mem' = mem
         \/ pc[Saver] = "insert" /\ mem' = [mem EXCEPT ![saving.job] = saving.profile]
<1>1. mem \in [Jobs -> {Absent} \cup Complete]
  BY DEF FilesInv, FilesTyped
<1>2. \A j \in S : j \notin cut
  BY NoneAssumption DEF FilesInv, TornIsCut, TornJobs
<1>3. \A j \in S : mem[j] # disk[j] => saving # Absent /\ saving.job = j
  BY <1>2 DEF FilesInv, MemoryIsDisk
<1>4. CASE \A j \in S : mem[j] = disk[j]
  BY <1>1, <1>4
<1>5. CASE \E j \in S : mem[j] # disk[j]
  <2>1. PICK j \in S : mem[j] # disk[j]
    BY <1>5
  <2>2. saving # Absent /\ saving.job = j /\ disk[j] \in Profiles /\ disk[j] # Torn
    BY <1>3, <2>1, NoneAssumption
  <2>3. pc[Saver] = "insert" /\ disk[j] = saving.profile
    BY <2>1, <2>2 DEF FilesInv, SaverConsistent, Busy
  <2>4. \A k \in S : k # j => disk[k] = mem[k]
    BY <1>3, <2>2
  <2>5. mem' = [mem EXCEPT ![j] = saving.profile]
    BY <1>1, <2>3, <2>4
  <2> QED
    BY <2>2, <2>3, <2>5
<1> QED
  BY <1>4, <1>5

\* A plot.
LEMMA PlotModelsInv ==
  ASSUME FilesInv, ModelsInv, NEW c \in Commands, Plot(c)
  PROVE  ModelsInv'
<1> USE SaverIsThread
<1>1. PICK S \in SUBSET {j \in Jobs : disk[j] \in Profiles} : Load(S)
  BY DEF Plot
<1>2. /\ status = "up"
      /\ UNCHANGED <<status, jsonl, pc, cmd, saving, jobs, todo, offset, settled, crossed, cut>>
  BY DEF Plot, threads
<1>3. \/ mem' = mem
      \/ pc[Saver] = "insert" /\ mem' = [mem EXCEPT ![saving.job] = saving.profile]
  BY <1>1, <1>2, PlotLoads DEF Load
<1>4. \A k \in Jobs : mem[k] # Absent => mem'[k] # Absent
  BY <1>1, NoneAssumption DEF Load
<1>5. ModelsTyped'
  <2>1. models' \subseteq {d \in Commands : jsonl[d] # Absent}
    BY <1>1 DEF Load, ModelsInv, ModelsTyped
  <2>2. spent' \in [saves : 0 .. MaxSaves, asks : 0 .. MaxAsks, faults : 0 .. MaxFaults]
    BY SpendTyped DEF Plot, ModelsInv
  <2> QED
    BY <1>2, <2>1, <2>2 DEF ModelsInv, ModelsTyped
<1>6. \A d \in settled : Wanted(d)' = Wanted(d)
  BY <1>3, Entered, WantedSame
<1>7. SettledCurrent'
  BY <1>2, <1>6 DEF SettledCurrent, ModelsInv
<1>8. StoringUnsettles'
  <2>1. CASE mem' = mem
    BY <1>2, <2>1 DEF StoringUnsettles, ModelsInv
  <2>2. CASE pc[Saver] = "insert" /\ mem' = [mem EXCEPT ![saving.job] = saving.profile]
    <3>1. mem'[saving.job] = saving.profile
      BY <2>2 DEF FilesInv, FilesTyped, SaverConsistent, Busy
    <3> QED
      BY <1>2, <2>2, <3>1 DEF StoringUnsettles, ModelsInv
  <2> QED
    BY <1>3, <2>1, <2>2
<1>9. ASSUME NEW u \in Threads
      PROVE  (Tracked(u) /\ Alone(u) /\ Ahead(u))'
  <2>1. Tracked(u)'
    BY <1>2, <1>4 DEF Tracked, ModelsInv, ModelsTyped
  <2>2. Alone(u)'
    BY <1>2 DEF Alone, AtWork, ModelsInv
  <2>3. Ahead(u)'
    <3>1. CASE mem' = mem
      <4>1. Wanted(cmd[u])' = Wanted(cmd[u]) /\ Stored(cmd[u])' = Stored(cmd[u])
        BY <1>2, <3>1 DEF Wanted, Stored
      <4> QED
        BY <1>2, <4>1 DEF Ahead, AtWork, ModelsInv
    <3>2. CASE pc[Saver] = "insert"
      <4>1. AtWork(u)' => u \in crossed'
        BY <1>2, <3>2, InsertDisturbs DEF AtWork
      <4> QED
        BY <4>1 DEF Ahead
    <3> QED
      BY <1>3, <3>1, <3>2
  <2> QED
    BY <2>1, <2>2, <2>3
<1> QED
  BY <1>5, <1>7, <1>8, <1>9 DEF ModelsInv

-----------------------------------------------------------------------------
\* A thread reads which jobs have its command.
LEMMA GatherModelsInv ==
  ASSUME FilesInv, ModelsInv, NEW t \in Threads, Gather(t)
  PROVE  ModelsInv'
<1> USE SaverIsThread
<1>1. /\ pc[t] = "gather" /\ pc' = [pc EXCEPT ![t] = "fetch"]
      /\ jobs' = [jobs EXCEPT ![t] = Stored(cmd[t])] /\ settled' = settled \ {cmd[t]}
      /\ UNCHANGED <<status, mem, jsonl, models, cmd, saving, todo, offset, cut, spent>>
  BY DEF Gather, Goto
<1>2. /\ crossed \ {t} \subseteq crossed' /\ crossed' \subseteq Threads
      /\ t \notin crossed' => Others(t) = {} /\ (t = Saver \/ saving = Absent)
      /\ Others(t) \subseteq crossed'
  BY DEF Gather, ModelsInv, ModelsTyped, Others
<1>3. status = "up"
  BY <1>1, WorkingIsUp
<1>4. /\ pc' \in [Threads -> Places] /\ pc'[t] = "fetch"
      /\ jobs' \in [Threads -> SUBSET Jobs] /\ jobs'[t] = Stored(cmd[t])
      /\ \A u \in Threads \ {t} : pc'[u] = pc[u] /\ jobs'[u] = jobs[u]
  BY <1>1 DEF ModelsInv, ModelsTyped, Places, Stored
<1>5. ModelsTyped'
  BY <1>1, <1>2, <1>4 DEF ModelsInv, ModelsTyped
<1>6. StoringUnsettles'
  <2>1. pc'[Saver] \in {"write", "insert"} => pc[Saver] = pc'[Saver]
    BY <1>4
  <2> QED
    BY <1>1, <2>1 DEF StoringUnsettles, ModelsInv
<1>7. SettledCurrent'
  BY <1>1, <1>3, WantedSame DEF SettledCurrent, ModelsInv
<1>8. \A u \in Threads \ {t} : AtWork(u) /\ cmd[u] = cmd[t] => u \in Others(t)
  BY DEF Others, AtWork, Generating
<1>9. (Tracked(t) /\ Alone(t) /\ Ahead(t))'
  <2>1. Tracked(t)'
    BY <1>1, <1>4 DEF Tracked, Stored
  <2>2. Alone(t)'
    <3>1. \A u \in Threads \ {t} : AtWork(u)' => AtWork(u)
      BY <1>4 DEF AtWork
    <3> QED
      BY <1>1, <1>2, <1>8, <3>1 DEF Alone
  <2>3. Ahead(t)'
    BY <1>1, <1>4 DEF Ahead, Stored
  <2> QED
    BY <2>1, <2>2, <2>3
<1>10. ASSUME NEW u \in Threads \ {t}
       PROVE  (Tracked(u) /\ Alone(u) /\ Ahead(u))'
  <2>1. pc'[u] = pc[u] /\ jobs'[u] = jobs[u] /\ (u \notin crossed' => u \notin crossed)
    BY <1>2, <1>4
  <2>2. Tracked(u) /\ Alone(u) /\ Ahead(u)
    BY DEF ModelsInv
  <2>3. Tracked(u)'
    BY <1>1, <2>1, <2>2 DEF Tracked
  <2>4. Alone(u)'
    <3>1. \A v \in Threads \ {u} : AtWork(v)' => AtWork(v) \/ v = t
      BY <1>4 DEF AtWork
    <3>2. AtWork(u)' => AtWork(u)
      BY <2>1 DEF AtWork
    <3>3. AtWork(u)' /\ u \notin crossed' => cmd[t] # cmd[u]
      BY <1>2, <1>8, <3>2
    <3> QED
      BY <1>1, <2>1, <2>2, <3>1, <3>2, <3>3 DEF Alone
  <2>5. Ahead(u)'
    <3>1. Wanted(cmd[u])' = Wanted(cmd[u]) /\ Stored(cmd[u])' = Stored(cmd[u])
      BY <1>1 DEF Wanted, Stored
    <3> QED
      BY <1>1, <2>1, <2>2, <3>1 DEF Ahead, AtWork
  <2> QED
    BY <2>3, <2>4, <2>5
<1> QED
  BY <1>5, <1>6, <1>7, <1>9, <1>10 DEF ModelsInv

(***************************************************************************)
(* Thread t goes on with its model: of the others only one that it has     *)
(* crossed can have the same file.                                         *)
(***************************************************************************)
LEMMA WorkOn ==
  ASSUME ModelsInv, status = "up", NEW t \in Threads, AtWork(t), NEW to \in {"create", "lines"},
         pc' = [pc EXCEPT ![t] = to],
         UNCHANGED <<status, mem, models, cmd, saving, settled, crossed, cut, spent>>,
         jsonl' \in [Commands -> {Absent} \cup Seq({Hole} \cup Right)],
         \A c \in Commands : jsonl[c] # Absent => jsonl'[c] # Absent,
         \A c \in Commands : c # cmd[t] => jsonl'[c] = jsonl[c],
         jobs' \in [Threads -> SUBSET Jobs], todo' \in [Threads -> SUBSET Right],
         offset' \in [Threads -> 0 .. Cardinality(Jobs)],
         \A u \in Threads \ {t} : jobs'[u] = jobs[u] /\ todo'[u] = todo[u] /\ offset'[u] = offset[u],
         Tracked(t)', t \notin crossed => Ahead(t)'
  PROVE  ModelsInv'
<1> USE SaverIsThread
<1>1. /\ pc' \in [Threads -> Places] /\ pc'[t] = to /\ cmd[t] \in Commands
      /\ \A u \in Threads \ {t} : pc'[u] = pc[u]
  BY DEF ModelsInv, ModelsTyped, Places
<1>2. cmd[t] \notin settled /\ settled \subseteq Commands
  BY DEF ModelsInv, ModelsTyped, Alone
<1>3. \A u \in Threads : AtWork(u)' <=> AtWork(u)
  BY <1>1 DEF AtWork
<1>4. ModelsTyped'
  BY <1>1 DEF ModelsInv, ModelsTyped
<1>5. StoringUnsettles'
  <2>1. pc'[Saver] \in {"write", "insert"} => pc[Saver] = pc'[Saver]
    BY <1>1
  <2> QED
    BY <2>1 DEF StoringUnsettles, ModelsInv
<1>6. SettledCurrent'
  BY <1>2, WantedSame DEF SettledCurrent, ModelsInv
<1>7. ASSUME NEW u \in Threads
      PROVE  Alone(u)'
  BY <1>3 DEF Alone, ModelsInv
<1>8. ASSUME NEW u \in Threads \ {t}
      PROVE  Tracked(u)' /\ Ahead(u)'
  <2>1. /\ pc'[u] = pc[u] /\ jobs'[u] = jobs[u] /\ todo'[u] = todo[u] /\ offset'[u] = offset[u]
        /\ cmd[u] \in Commands
    BY <1>1 DEF ModelsInv, ModelsTyped
  <2>2. Tracked(u) /\ Alone(u) /\ Ahead(u)
    BY DEF ModelsInv
  <2>3. Tracked(u)'
    BY <2>1, <2>2 DEF Tracked
  <2>4. AtWork(u) /\ u \notin crossed => jsonl'[cmd[u]] = jsonl[cmd[u]]
    BY <2>1, <2>2 DEF Alone
  <2>5. Wanted(cmd[u])' = Wanted(cmd[u]) /\ Stored(cmd[u])' = Stored(cmd[u])
    BY DEF Wanted, Stored
  <2>6. Ahead(u)'
    BY <1>3, <2>1, <2>2, <2>4, <2>5 DEF Ahead
  <2> QED
    BY <2>3, <2>6
<1>9. Ahead(t)'
  BY DEF Ahead
<1> QED
  BY <1>4, <1>5, <1>6, <1>7, <1>8, <1>9 DEF ModelsInv

\* The profiles are fetched, and the model is made of them.
LEMMA FetchModelsInv ==
  ASSUME FilesInv, ModelsInv, NEW t \in Threads, Fetch(t)
  PROVE  ModelsInv'
<1> DEFINE M == Model(Restrict(mem, jobs[t]))
<1>1. /\ pc[t] = "fetch" /\ pc' = [pc EXCEPT ![t] = "create"]
      /\ todo' = [todo EXCEPT ![t] = M] /\ jobs' = [jobs EXCEPT ![t] = {}]
      /\ UNCHANGED <<status, mem, jsonl, models, cmd, saving, offset, settled, crossed, cut, spent>>
  BY DEF Fetch, Goto
<1>2. ModelsTyped /\ FilesTyped /\ Tracked(t) /\ Ahead(t) /\ AtWork(t)
  BY <1>1 DEF ModelsInv, FilesInv, AtWork
<1>3. status = "up"
  BY <1>1, WorkingIsUp
<1>4. /\ M \subseteq Right /\ IsFiniteSet(M) /\ Cardinality(M) <= Cardinality(Jobs)
  <2>1. jobs[t] \in SUBSET Jobs
    BY <1>2 DEF ModelsTyped
  <2>2. Restrict(mem, jobs[t]) \in [jobs[t] -> Complete]
    BY <1>1, <1>2, <2>1 DEF Restrict, Tracked, FilesTyped
  <2> QED
    BY <2>1, <2>2, ModelIs
<1>5. t \notin crossed => M = Wanted(cmd[t])
  BY <1>1, <1>2 DEF Ahead, Wanted
<1> HIDE DEF M
<1>6. /\ todo' \in [Threads -> SUBSET Right] /\ todo'[t] = M
      /\ jobs' \in [Threads -> SUBSET Jobs] /\ pc'[t] = "create"
      /\ \A u \in Threads \ {t} : jobs'[u] = jobs[u] /\ todo'[u] = todo[u]
  BY <1>1, <1>2, <1>4 DEF ModelsTyped
<1>7. Tracked(t)'
  BY <1>4, <1>6 DEF Tracked
<1>8. t \notin crossed => Ahead(t)'
  <2>1. Wanted(cmd[t])' = Wanted(cmd[t])
    BY <1>1 DEF Wanted, Stored
  <2> QED
    BY <1>5, <1>6, <2>1 DEF Ahead
<1>9. /\ jsonl' \in [Commands -> {Absent} \cup Seq({Hole} \cup Right)]
      /\ offset' \in [Threads -> 0 .. Cardinality(Jobs)]
  BY <1>1, <1>2 DEF ModelsTyped
<1> QED
  BY <1>1, <1>2, <1>3, <1>6, <1>7, <1>8, <1>9, WorkOn

\* The file is created, or truncated.
LEMMA CreateModelsInv ==
  ASSUME FilesInv, ModelsInv, NEW t \in Threads, Create(t)
  PROVE  ModelsInv'
<1>1. /\ pc[t] = "create" /\ pc' = [pc EXCEPT ![t] = "lines"]
      /\ jsonl' = [jsonl EXCEPT ![cmd[t]] = <<>>] /\ offset' = [offset EXCEPT ![t] = 0]
      /\ UNCHANGED <<status, mem, models, cmd, saving, jobs, todo, settled, crossed, cut, spent>>
  BY DEF Create, Goto
<1>2. ModelsTyped /\ Tracked(t) /\ Ahead(t) /\ AtWork(t)
  BY <1>1 DEF ModelsInv, AtWork
<1>3. status = "up" /\ cmd[t] \in Commands
  BY <1>1, <1>2, WorkingIsUp DEF ModelsTyped
<1>4. <<>> \in Seq({Hole} \cup Right) /\ <<>> # Absent
  <2>1. <<>> \in Seq({Hole} \cup Right)
    OBVIOUS
  <2> QED
    BY <2>1, LinesAreThere
<1>5. Cardinality(Jobs) \in Nat
  BY SetsAssumption, FS_CardinalityType
<1>6. /\ jsonl' \in [Commands -> {Absent} \cup Seq({Hole} \cup Right)]
      /\ jsonl'[cmd[t]] = <<>>
      /\ \A c \in Commands : c # cmd[t] => jsonl'[c] = jsonl[c]
  BY <1>1, <1>2, <1>3, <1>4 DEF ModelsTyped
<1>7. /\ offset' \in [Threads -> 0 .. Cardinality(Jobs)] /\ offset'[t] = 0
      /\ \A u \in Threads \ {t} : offset'[u] = offset[u]
  BY <1>1, <1>2, <1>5 DEF ModelsTyped
<1>8. pc'[t] = "lines" /\ cmd'[t] = cmd[t]
  BY <1>1, <1>2 DEF ModelsTyped
<1>9. Tracked(t)'
  <2>1. IsFiniteSet(todo[t]) /\ Cardinality(todo[t]) <= Cardinality(Jobs) /\ Cardinality(todo[t]) \in Nat
    BY <1>1, <1>2, FS_CardinalityType DEF Tracked
  <2> QED
    BY <1>1, <1>4, <1>6, <1>7, <1>8, <2>1 DEF Tracked
<1>10. t \notin crossed => Ahead(t)'
  <2>1. Wanted(cmd[t])' = Wanted(cmd[t])
    BY <1>1 DEF Wanted, Stored
  <2>2. t \notin crossed => todo[t] = Wanted(cmd[t])
    BY <1>1, <1>2 DEF Ahead
  <2>3. Lists(<<>>, {}) /\ Len(<<>>) = 0
    BY FS_EmptySet DEF Lists, Range
  <2>4. todo[t] \ todo[t] = {}
    OBVIOUS
  <2> QED
    BY <1>1, <1>6, <1>7, <1>8, <2>1, <2>2, <2>3, <2>4 DEF Ahead
<1>11. \A c \in Commands : jsonl[c] # Absent => jsonl'[c] # Absent
  BY <1>4, <1>6
<1>12. jobs' \in [Threads -> SUBSET Jobs] /\ todo' \in [Threads -> SUBSET Right]
  BY <1>1, <1>2 DEF ModelsTyped
<1> QED
  BY <1>1, <1>2, <1>3, <1>6, <1>7, <1>9, <1>10, <1>11, <1>12, WorkOn

\* A line written anywhere leaves a file of samples and holes.
LEMMA PutIs ==
  ASSUME NEW lines \in Seq({Hole} \cup Right), NEW i \in Nat \ {0}, NEW s \in Right
  PROVE  Put(lines, i, s) \in Seq({Hole} \cup Right)
<1> DEFINE n == IF i > Len(lines) THEN i ELSE Len(lines)
           p == [k \in 1 .. n |-> IF k = i THEN s ELSE IF k <= Len(lines) THEN lines[k] ELSE Hole]
<1>1. n \in Nat
  OBVIOUS
<1>2. \A k \in 1 .. n : p[k] \in {Hole} \cup Right
  BY <1>1
<1>3. p \in Seq({Hole} \cup Right)
  BY <1>1, <1>2
<1> QED
  BY <1>3 DEF Put

\* A line behind the last one.
LEMMA PutNext ==
  ASSUME NEW lines \in Seq({Hole} \cup Right), NEW s \in Right
  PROVE  LET p == Put(lines, Len(lines) + 1, s)
         IN  Range(p) = Range(lines) \cup {s} /\ Len(p) = Len(lines) + 1
<1> DEFINE n == Len(lines) + 1
           p == Put(lines, n, s)
<1>1. Len(lines) \in Nat /\ n \in Nat /\ DOMAIN lines = 1 .. Len(lines)
  OBVIOUS
<1>2. p = [k \in 1 .. n |-> IF k = n THEN s ELSE lines[k]]
  BY <1>1 DEF Put
<1>3. p \in Seq({Hole} \cup Right)
  <2>1. n \in Nat \ {0}
    BY <1>1
  <2> HIDE DEF n
  <2> QED
    BY <2>1, PutIs
<1> HIDE DEF p
<1>4. Len(p) = n /\ DOMAIN p = 1 .. n
  BY <1>1, <1>2, <1>3
<1>5. p[n] = s /\ \A k \in 1 .. Len(lines) : p[k] = lines[k] /\ k \in 1 .. n
  BY <1>1, <1>2
<1>6. \A k \in 1 .. n : k = n \/ k \in 1 .. Len(lines)
  BY <1>1
<1>7. n \in 1 .. n
  BY <1>1
<1> HIDE DEF n
<1>8. Range(p) = Range(lines) \cup {s}
  BY <1>1, <1>4, <1>5, <1>6, <1>7 DEF Range
<1> QED
  BY <1>4, <1>8 DEF p, n

\* One sample less to write is one more in the model.
LEMMA ListsNext ==
  ASSUME NEW lines \in Seq({Hole} \cup Right), NEW S, NEW T, NEW s \in T,
         T \subseteq S, S \subseteq Right, IsFiniteSet(S), Lists(lines, S \ T)
  PROVE  Lists(Put(lines, Len(lines) + 1, s), S \ (T \ {s}))
<1> DEFINE p == Put(lines, Len(lines) + 1, s)
<1>1. s \in Right /\ s \in S
  OBVIOUS
<1>2. Range(p) = Range(lines) \cup {s} /\ Len(p) = Len(lines) + 1
  BY <1>1, PutNext
<1> HIDE DEF p
<1>3. S \ (T \ {s}) = (S \ T) \cup {s} /\ s \notin S \ T
  BY <1>1
<1>4. IsFiniteSet(S \ T)
  BY FS_Subset
<1>5. Cardinality((S \ T) \cup {s}) = Cardinality(S \ T) + 1
  BY <1>3, <1>4, FS_AddElement
<1> QED
  BY <1>2, <1>3, <1>5 DEF Lists, p

\* A line is written.
LEMMA LineModelsInv ==
  ASSUME FilesInv, ModelsInv, NEW t \in Threads, Line(t)
  PROVE  ModelsInv'
<1>1. PICK s \in todo[t] :
        /\ jsonl' = [jsonl EXCEPT ![cmd[t]] = Put(@, offset[t] + 1, s)]
        /\ todo' = [todo EXCEPT ![t] = @ \ {s}]
  BY DEF Line
<1>2. /\ pc[t] = "lines" /\ offset' = [offset EXCEPT ![t] = @ + 1]
      /\ UNCHANGED <<status, mem, models, pc, cmd, saving, jobs, settled, crossed, cut, spent>>
  BY DEF Line
<1>3. ModelsTyped /\ Tracked(t) /\ Ahead(t) /\ AtWork(t) /\ FilesTyped
  BY <1>2 DEF ModelsInv, FilesInv, AtWork
<1>4. status = "up" /\ cmd[t] \in Commands /\ pc' = [pc EXCEPT ![t] = "lines"]
  BY <1>2, <1>3, WorkingIsUp DEF ModelsTyped
<1> DEFINE old == jsonl[cmd[t]]
           new == Put(old, offset[t] + 1, s)
           N == Cardinality(Jobs)
<1>5. /\ old \in Seq({Hole} \cup Right) /\ old # Absent /\ s \in Right /\ todo[t] \subseteq Right
      /\ offset[t] \in 0 .. N
  BY <1>2, <1>3, <1>4 DEF ModelsTyped, Tracked
<1>6. /\ IsFiniteSet(todo[t]) /\ Cardinality(todo[t]) \in Nat /\ N \in Nat
      /\ offset[t] + Cardinality(todo[t]) <= N
  BY <1>2, <1>3, SetsAssumption, FS_CardinalityType DEF Tracked
<1>7. /\ IsFiniteSet(todo[t] \ {s}) /\ Cardinality(todo[t] \ {s}) = Cardinality(todo[t]) - 1
      /\ Cardinality(todo[t] \ {s}) \in Nat
  BY <1>6, FS_RemoveElement, FS_CardinalityType
<1>8. offset[t] + 1 \in Nat \ {0} /\ offset[t] + 1 \in 0 .. N
  BY <1>5, <1>6, <1>7
<1>9. new \in Seq({Hole} \cup Right) /\ new # Absent
  <2>1. new \in Seq({Hole} \cup Right)
    BY <1>5, <1>8, PutIs
  <2> QED
    BY <2>1, LinesAreThere
<1>10. jsonl' = [jsonl EXCEPT ![cmd[t]] = new]
  BY <1>1
<1> HIDE DEF new, N
<1>11. /\ jsonl' \in [Commands -> {Absent} \cup Seq({Hole} \cup Right)]
       /\ jsonl'[cmd[t]] = new
       /\ \A c \in Commands : c # cmd[t] => jsonl'[c] = jsonl[c]
  BY <1>3, <1>4, <1>9, <1>10 DEF ModelsTyped
<1>12. \A c \in Commands : jsonl[c] # Absent => jsonl'[c] # Absent
  BY <1>9, <1>11
<1>13. /\ todo' \in [Threads -> SUBSET Right] /\ todo'[t] = todo[t] \ {s}
       /\ \A u \in Threads \ {t} : todo'[u] = todo[u]
  BY <1>1, <1>3 DEF ModelsTyped
<1>14. /\ offset' \in [Threads -> 0 .. N] /\ offset'[t] = offset[t] + 1
       /\ \A u \in Threads \ {t} : offset'[u] = offset[u]
  BY <1>2, <1>3, <1>8 DEF ModelsTyped, N
<1>15. Tracked(t)'
  <2>1. offset'[t] + Cardinality(todo'[t]) <= N
    BY <1>5, <1>6, <1>7, <1>13, <1>14
  <2> QED
    BY <1>2, <1>7, <1>9, <1>11, <1>13, <2>1 DEF Tracked, N
<1>16. ASSUME t \notin crossed PROVE Ahead(t)'
  <2> DEFINE S == Wanted(cmd[t])
  <2>1. S' = S
    BY <1>2 DEF Wanted, Stored
  <2>2. S \subseteq Right /\ IsFiniteSet(S)
    BY <1>3, WantedIs
  <2>3. todo[t] \subseteq S /\ Lists(old, S \ todo[t]) /\ Len(old) = offset[t]
    BY <1>2, <1>3, <1>16 DEF Ahead
  <2>4. Lists(new, S \ (todo[t] \ {s}))
    BY <1>5, <2>2, <2>3, ListsNext DEF new
  <2>5. Len(new) = offset[t] + 1
    BY <1>5, <2>3, PutNext DEF new
  <2> HIDE DEF S
  <2>6. todo'[t] \subseteq S /\ Lists(jsonl'[cmd[t]], S \ todo'[t]) /\ Len(jsonl'[cmd[t]]) = offset'[t]
    BY <1>11, <1>13, <1>14, <2>3, <2>4, <2>5
  <2> QED
    BY <1>2, <2>1, <2>6 DEF Ahead, S
<1>17. jobs' \in [Threads -> SUBSET Jobs]
  BY <1>2, <1>3 DEF ModelsTyped
<1> QED
  BY <1>2, <1>3, <1>4, <1>11, <1>12, <1>13, <1>14, <1>15, <1>16, <1>17, WorkOn DEF N

\* The model is complete, and settled if nobody crossed the thread.
LEMMA CloseModelsInv ==
  ASSUME FilesInv, ModelsInv, NEW t \in Threads, Close(t)
  PROVE  ModelsInv'
<1> USE SaverIsThread
<1> DEFINE to == IF t = Saver THEN "idle" ELSE "reread"
<1>1. /\ pc[t] = "lines" /\ todo[t] = {} /\ models' = models \cup {cmd[t]}
      /\ settled' = IF t \in crossed THEN settled ELSE settled \cup {cmd[t]}
      /\ pc' = [pc EXCEPT ![t] = to] /\ saving' = IF t = Saver THEN Absent ELSE saving
      /\ UNCHANGED <<status, mem, jsonl, cmd, jobs, todo, offset, crossed, cut, spent>>
  BY DEF Close, Resume, Goto
<1>2. ModelsTyped /\ Tracked(t) /\ Ahead(t) /\ Alone(t) /\ AtWork(t)
  BY <1>1 DEF ModelsInv, AtWork
<1>3. status = "up" /\ cmd[t] \in Commands /\ jsonl[cmd[t]] # Absent
  BY <1>1, <1>2, WorkingIsUp DEF ModelsTyped, Tracked
<1>4. /\ pc' \in [Threads -> Places] /\ pc'[t] = to /\ ~AtWork(t)'
      /\ \A u \in Threads \ {t} : pc'[u] = pc[u]
  BY <1>1, <1>2 DEF ModelsTyped, Places, AtWork
<1>5. ModelsTyped'
  BY <1>1, <1>2, <1>3, <1>4 DEF ModelsTyped
<1>6. t \notin crossed => t = Saver \/ (saving = Absent /\ pc[Saver] = "idle")
  BY <1>2 DEF Alone, FilesInv, SaverConsistent, Busy
<1>7. StoringUnsettles'
  <2>1. pc'[Saver] \in {"write", "insert"} => t # Saver /\ pc[Saver] = pc'[Saver] /\ t \in crossed
    BY <1>1, <1>4, <1>6
  <2> QED
    BY <1>1, <2>1 DEF StoringUnsettles, ModelsInv
<1>8. SettledCurrent'
  <2>1. t \notin crossed => Lists(jsonl[cmd[t]], Wanted(cmd[t]))
    <3>1. Wanted(cmd[t]) \ {} = Wanted(cmd[t])
      OBVIOUS
    <3> QED
      BY <1>1, <1>2, <3>1 DEF Ahead
  <2>2. \A c : Wanted(c)' = Wanted(c)
    BY <1>1, WantedSame
  <2>3. \A c \in settled' : c \in settled \/ (t \notin crossed /\ c = cmd[t])
    BY <1>1
  <2> QED
    BY <1>1, <1>3, <2>1, <2>2, <2>3 DEF SettledCurrent, ModelsInv
<1>9. ASSUME NEW u \in Threads
      PROVE  (Tracked(u) /\ Alone(u) /\ Ahead(u))'
  <2>1. CASE u = t
    BY <1>4, <2>1 DEF Tracked, Alone, Ahead, AtWork
  <2>2. CASE u # t
    <3>1. pc'[u] = pc[u]
      BY <1>4, <2>2
    <3>2. Tracked(u) /\ Alone(u) /\ Ahead(u)
      BY DEF ModelsInv
    <3>3. Tracked(u)'
      BY <1>1, <3>1, <3>2 DEF Tracked
    <3>4. Alone(u)'
      <4>1. \A v \in Threads : AtWork(v)' => AtWork(v)
        BY <1>2, <1>4 DEF AtWork
      <4>2. AtWork(u) /\ t \notin crossed => cmd[u] # cmd[t]
        BY <1>2, <2>2 DEF Alone
      <4>3. AtWork(u)' => cmd[u] \notin settled'
        BY <1>1, <3>2, <4>1, <4>2 DEF Alone
      <4>4. u # Saver /\ saving = Absent => saving' = Absent
        BY <1>1
      <4> QED
        BY <1>1, <3>2, <4>1, <4>3, <4>4 DEF Alone
    <3>5. Wanted(cmd[u])' = Wanted(cmd[u]) /\ Stored(cmd[u])' = Stored(cmd[u])
      BY <1>1 DEF Wanted, Stored
    <3>6. Ahead(u)'
      BY <1>1, <3>1, <3>2, <3>5 DEF Ahead, AtWork
    <3> QED
      BY <3>3, <3>4, <3>6
  <2> QED
    BY <2>1, <2>2
<1> QED
  BY <1>5, <1>7, <1>8, <1>9 DEF ModelsInv

-----------------------------------------------------------------------------
\* A directory without torn files has what memory has, for the settled models.
LEMMA OfferedIsWanted ==
  ASSUME FilesInv, ModelsInv, status = "up", TornJobs = {}
  PROVE  \A c \in settled : Offered(c) = Wanted(c)
<1> TAKE c \in settled
<1>1. /\ mem \in [Jobs -> {Absent} \cup Complete] /\ cut = {}
      /\ \A j \in Jobs : disk[j] \in {Absent} \cup Complete
  BY DEF FilesInv, FilesTyped, TornIsCut, TornJobs
<1>2. \A j \in Jobs : mem[j] # disk[j] => saving # Absent /\ saving.job = j
  BY <1>1 DEF FilesInv, MemoryIsDisk
<1>3. ASSUME NEW j \in Jobs, mem[j] # disk[j]
      PROVE  j \notin Found(c) /\ j \notin Stored(c)
  <2>1. saving # Absent /\ saving.job = j /\ disk[j] # Torn
    BY <1>2, <1>3 DEF TornJobs
  <2>2. pc[Saver] = "insert" /\ disk[j] = saving.profile
    BY <1>3, <2>1 DEF FilesInv, SaverConsistent, Busy
  <2>3. disk[j].of.cmd # c /\ (mem[j] # Absent => mem[j].of.cmd # c)
    BY <2>1, <2>2 DEF ModelsInv, StoringUnsettles
  <2> QED
    BY <2>3 DEF Found, Stored
<1>4. Found(c) = Stored(c)
  <2>1. \A j \in Jobs : mem[j] = disk[j] => (disk[j] \in Profiles <=> mem[j] # Absent)
    BY <1>1, NoneAssumption DEF Complete
  <2> QED
    BY <1>3, <2>1 DEF Found, Stored
<1>5. \A j \in Stored(c) : disk[j] = mem[j]
  BY <1>3 DEF Stored
<1>6. Restrict(disk, Found(c)) = Restrict(mem, Stored(c))
  BY <1>4, <1>5 DEF Restrict
<1> QED
  BY <1>6 DEF Offered, Wanted

\* The process ends.
LEMMA EndModelsInv ==
  ASSUME FilesInv, ModelsInv, status = "up", status' = "down", Empty, cut' = cut \cup CutOff,
         spent' \in [saves : 0 .. MaxSaves, asks : 0 .. MaxAsks, faults : 0 .. MaxFaults],
         UNCHANGED <<disk, jsonl, cmd, settled>>
  PROVE  ModelsInv'
<1> USE SaverIsThread
<1>1. \A t \in Threads : pc'[t] = "idle"
  BY DEF Empty
<1>2. ModelsTyped'
  <2>1. CutOff \subseteq Jobs
    BY DEF CutOff, FilesInv, FilesTyped, SaverConsistent, Busy
  <2>2. pc' \in [Threads -> Places]
    BY DEF Empty, Places
  <2>3. /\ models' = {} /\ jobs' \in [Threads -> SUBSET Jobs] /\ todo' \in [Threads -> SUBSET Right]
        /\ crossed' = {}
    BY DEF Empty
  <2>4. offset' \in [Threads -> 0 .. Cardinality(Jobs)]
    <3>1. Cardinality(Jobs) \in Nat
      BY SetsAssumption, FS_CardinalityType
    <3> QED
      BY <3>1 DEF Empty
  <2> QED
    BY <2>1, <2>2, <2>3, <2>4 DEF ModelsInv, ModelsTyped
<1>3. StoringUnsettles'
  BY <1>1 DEF StoringUnsettles
<1>4. SettledCurrent'
  <2>1. \A c : Offered(c)' = Offered(c)
    BY DEF Offered, Found
  <2>2. TornJobs' = TornJobs
    BY DEF TornJobs
  <2> QED
    BY <2>1, <2>2, OfferedIsWanted DEF SettledCurrent, ModelsInv
<1>5. \A t \in Threads : (Tracked(t) /\ Alone(t) /\ Ahead(t))'
  BY <1>1 DEF Tracked, Alone, Ahead, AtWork
<1> QED
  BY <1>2, <1>3, <1>4, <1>5 DEF ModelsInv

\* The ends of a process: a kill, or a stack that overflows.
LEMMA EndsModelsInv ==
  ASSUME FilesInv, ModelsInv, GetOverflows \/ Kill \/ \E t \in Threads : FetchOverflows(t)
  PROVE  ModelsInv'
<1>1. ModelsTyped
  BY DEF ModelsInv
<1>2. CASE GetOverflows
  <2>1. spent' \in [saves : 0 .. MaxSaves, asks : 0 .. MaxAsks, faults : 0 .. MaxFaults]
    BY <1>1, <1>2, SpendTyped DEF GetOverflows
  <2> QED
    BY <1>2, <2>1, EndModelsInv DEF GetOverflows
<1>3. CASE Kill
  <2>1. spent' \in [saves : 0 .. MaxSaves, asks : 0 .. MaxAsks, faults : 0 .. MaxFaults]
    BY <1>1, <1>3, SpendTyped DEF Kill
  <2> QED
    BY <1>3, <2>1, EndModelsInv DEF Kill
<1>4. ASSUME NEW t \in Threads, FetchOverflows(t)
      PROVE  ModelsInv'
  <2>1. status = "up"
    BY <1>4, WorkingIsUp DEF FetchOverflows
  <2>2. spent' \in [saves : 0 .. MaxSaves, asks : 0 .. MaxAsks, faults : 0 .. MaxFaults]
    BY <1>1, <1>4 DEF FetchOverflows, ModelsTyped
  <2> QED
    BY <1>4, <2>1, <2>2, EndModelsInv DEF FetchOverflows
<1> QED
  BY <1>2, <1>3, <1>4

\* A start gets the profiles that the settled models were made of.
LEMMA StartModelsInv ==
  ASSUME FilesInv, ModelsInv, Start \/ StartFails
  PROVE  ModelsInv'
<1> USE SaverIsThread
<1>1. /\ status # "up"
      /\ UNCHANGED <<disk, jsonl, pc, cmd, saving, jobs, todo, offset, settled, crossed, cut, spent>>
  BY DEF Start, StartFails, threads
<1>2. \A t \in Threads : pc[t] = "idle"
  BY <1>1 DEF FilesInv, DownIsEmpty
<1>3. ModelsTyped'
  <2>1. models' \subseteq {c \in Commands : jsonl[c] # Absent}
    BY DEF Start, StartFails, Load, ModelsInv, ModelsTyped
  <2> QED
    BY <1>1, <2>1 DEF ModelsInv, ModelsTyped
<1>4. StoringUnsettles'
  BY <1>1, <1>2 DEF StoringUnsettles
<1>5. \A t \in Threads : (Tracked(t) /\ Alone(t) /\ Ahead(t))'
  BY <1>1, <1>2 DEF Tracked, Alone, Ahead, AtWork
<1>6. TornJobs' = TornJobs /\ \A c : Offered(c)' = Offered(c)
  BY <1>1 DEF TornJobs, Offered, Found
<1>7. CASE StartFails
  <2>1. status' # "up"
    BY <1>7 DEF StartFails
  <2>2. SettledCurrent'
    BY <1>1, <1>6, <2>1 DEF SettledCurrent, ModelsInv
  <2> QED
    BY <1>3, <1>4, <1>5, <2>2 DEF ModelsInv
<1>8. CASE Start
  <2>1. /\ TornJobs = {} /\ status' = "up"
        /\ mem' = [j \in Jobs |-> IF disk[j] \in Profiles THEN disk[j] ELSE mem[j]]
    BY <1>8 DEF Start, Load
  <2>2. \A j \in Jobs : mem[j] = Absent
    BY <1>1 DEF FilesInv, DownIsEmpty
  <2>3. \A c : Stored(c)' = Found(c)
    BY <2>1, <2>2, NoneAssumption DEF Stored, Found
  <2>4. \A c : Restrict(mem', Found(c)) = Restrict(disk, Found(c))
    BY <2>1 DEF Restrict, Found
  <2>5. \A c : Wanted(c)' = Offered(c)
    BY <2>3, <2>4 DEF Wanted, Offered
  <2>6. SettledCurrent'
    BY <1>1, <1>6, <2>1, <2>5 DEF SettledCurrent, ModelsInv
  <2> QED
    BY <1>3, <1>4, <1>5, <2>6 DEF ModelsInv
<1> QED
  BY <1>7, <1>8

\* Nothing happens.
LEMMA StutterModelsInv ==
  ASSUME ModelsInv, UNCHANGED vars
  PROVE  ModelsInv'
<1> USE DEF vars, threads
<1>1. ModelsTyped' /\ StoringUnsettles'
  BY DEF ModelsInv, ModelsTyped, StoringUnsettles
<1>2. SettledCurrent'
  <2>1. TornJobs' = TornJobs /\ \A c : Offered(c)' = Offered(c) /\ Wanted(c)' = Wanted(c)
    BY DEF TornJobs, Offered, Found, Wanted, Stored
  <2> QED
    BY <2>1 DEF SettledCurrent, ModelsInv
<1>3. ASSUME NEW u \in Threads
      PROVE  (Tracked(u) /\ Alone(u) /\ Ahead(u))'
  <2>1. Wanted(cmd[u])' = Wanted(cmd[u]) /\ Stored(cmd[u])' = Stored(cmd[u])
    BY DEF Wanted, Stored
  <2>2. Tracked(u) /\ Alone(u) /\ Ahead(u)
    BY DEF ModelsInv
  <2>3. Tracked(u)' /\ Alone(u)'
    BY <2>2 DEF Tracked, Alone, AtWork
  <2>4. Ahead(u)'
    BY <2>1, <2>2 DEF Ahead, AtWork
  <2> QED
    BY <2>3, <2>4
<1> QED
  BY <1>1, <1>2, <1>3 DEF ModelsInv

\* Every step keeps the invariant.
LEMMA NextModelsInv == FilesInv /\ ModelsInv /\ [Next]_vars => ModelsInv'
<1> SUFFICES ASSUME FilesInv, ModelsInv, [Next]_vars PROVE ModelsInv'
  OBVIOUS
<1>1. FilesInv'
  BY NextFilesInv
<1>2. CASE \E j \in Jobs, r \in Runs : Save(j, r)
  BY <1>2, SaveModelsInv
<1>3. CASE WriteFails \/ Write
  BY <1>3, WriteModelsInv
<1>4. CASE Insert
  BY <1>1, <1>4, InsertModelsInv
<1>5. ASSUME NEW t \in Threads, Gather(t) \/ Fetch(t) \/ Create(t) \/ Line(t) \/ Close(t)
      PROVE  ModelsInv'
  BY <1>5, GatherModelsInv, FetchModelsInv, CreateModelsInv, LineModelsInv, CloseModelsInv
<1>6. ASSUME NEW t \in Threads, GatherNothing(t) \/ GenerateFails(t) \/ Read(t) \/ Reread(t)
      PROVE  ModelsInv'
  BY <1>6, LeavingModelsInv
<1>7. ASSUME NEW t \in Web, NEW c \in Commands, Ask(t, c)
      PROVE  ModelsInv'
  BY <1>7, LeavingModelsInv DEF Threads
<1>8. CASE \E c \in Commands : Plot(c)
  BY <1>8, PlotModelsInv
<1>9. CASE GetOverflows \/ Kill \/ \E t \in Threads : FetchOverflows(t)
  BY <1>9, EndsModelsInv
<1>10. CASE Start \/ StartFails
  BY <1>10, StartModelsInv
<1>11. CASE UNCHANGED vars
  BY <1>11, StutterModelsInv
<1> QED
  BY <1>2, <1>3, <1>4, <1>5, <1>6, <1>7, <1>8, <1>9, <1>10, <1>11 DEF Next, Work, Generate

\* ModelsInv is an invariant of the profile store.
LEMMA ModelsInvariant == Spec => [](FilesInv /\ ModelsInv)
BY InitFilesInv, NextFilesInv, InitModelsInv, NextModelsInv, PTL DEF Spec

(***************************************************************************)
(* Every variable of the store keeps its type: memory holds profiles that  *)
(* can be shown, a model file has samples and holes only, and an evaluator *)
(* is entered for files that exist (saveprofile, generate_extrap_model).   *)
(***************************************************************************)
THEOREM TypeCorrect == Spec => []TypeOK
<1>1. FilesInv /\ ModelsInv => TypeOK
  <2> SUFFICES ASSUME FilesInv, ModelsInv PROVE TypeOK
    OBVIOUS
  <2>1. /\ disk \in [Jobs -> {Absent, Torn} \cup Profiles]
        /\ mem \in [Jobs -> {Absent} \cup {p \in Profiles : ~p.nan}]
    BY DEF FilesInv, FilesTyped, Complete
  <2>2. saving \in {Absent} \cup [job : Jobs, profile : Profiles]
    BY DEF FilesInv, FilesTyped, Complete
  <2>3. jsonl \in [Commands -> {Absent} \cup Seq({Hole} \cup Samples)]
    <3>1. ASSUME NEW lines \in Seq({Hole} \cup Right)
          PROVE  lines \in Seq({Hole} \cup Samples)
      <4>1. \A i \in 1 .. Len(lines) : lines[i] \in {Hole} \cup Samples
        BY DEF Right
      <4> QED
        BY <4>1
    <3> QED
      BY <3>1 DEF ModelsInv, ModelsTyped
  <2>4. todo \in [Threads -> SUBSET Samples]
    BY DEF ModelsInv, ModelsTyped, Right
  <2> QED
    BY <2>1, <2>2, <2>3, <2>4 DEF TypeOK, FilesInv, FilesTyped, ModelsInv, ModelsTyped, Places
<1> QED
  BY <1>1, ModelsInvariant, PTL

(***************************************************************************)
(* A model that a thread wrote undisturbed has the sample of each profile  *)
(* in memory that it should have, once, and nothing else, whatever two     *)
(* writers, failures, kills and restarts had made of the file before       *)
(* (generate_extrap_model, ExtrapModel::serialize, refresh_profiles).      *)
(***************************************************************************)
THEOREM SettledModelsAreCurrent == Spec => []SettledModelIsCurrent
<1>1. FilesInv /\ ModelsInv => SettledModelIsCurrent
  BY DEF ModelsInv, SettledCurrent, SettledModelIsCurrent, Lists
<1> QED
  BY <1>1, ModelsInvariant, PTL

(***************************************************************************)
(* No model ever has a wrong wall time of a job of this proxy's own        *)
(* clients, for time stamps of any width: the subtraction of add_duration  *)
(* wraps around for jobs of children only.                                 *)
(***************************************************************************)
THEOREM WalltimesAreRight == Spec => []WalltimeUnlessScraped
<1>1. FilesInv /\ ModelsInv => WalltimeUnlessScraped
  <2> SUFFICES ASSUME ModelsInv, NEW c \in Commands, jsonl[c] # Absent, NEW s \in Range(jsonl[c])
               PROVE  s = Hole \/ s.walltime = s.of.stop - s.of.start \/ s.of.child
    BY DEF WalltimeUnlessScraped
  <2>1. jsonl[c] \in Seq({Hole} \cup Right)
    BY DEF ModelsInv, ModelsTyped
  <2>2. s \in {Hole} \cup Right
    BY <2>1 DEF Range
  <2> QED
    BY <2>2 DEF Right, Accurate
<1> QED
  BY <1>1, ModelsInvariant, PTL
=============================================================================

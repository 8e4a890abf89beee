---------------------------- MODULE ProfileStore -----------------------------
(***************************************************************************)
(* ProfileView: the profiles of the jobs that ended and the scaling models *)
(* made of them, in memory and in files.                                   *)
(*                                                                         *)
(* relax_job stores a profile with the `perjob' mutex of the factory held, *)
(* so one thread saves at a time (Saver).  Web threads read models, write  *)
(* a model again when it holds no wall time, and read the directory again  *)
(* when a plot finds no model; none of them holds a lock from one of these *)
(* steps to the next.  The proxy may be killed between any two steps.      *)
(*                                                                         *)
(* A model file is a sequence of lines, one for each profile: those of the *)
(* metric "walltime", which every profile has.  The lines are taken to be  *)
(* equally long.  What the external tool extrap fits to them is left out.  *)
(***************************************************************************)
EXTENDS Integers, FiniteSets, Functions, Sequences

CONSTANTS
  Jobs,       \* job identifiers
  Commands,   \* commands of the jobs, which name the files of the models
  Runs,       \* the runs of jobs that may end
  Web,        \* web threads
  Saver,      \* the thread in relax_job
  Absent,     \* no file, no profile
  Torn,       \* contents that cannot be read back
  Hole,       \* a part of a file that was never written
  W,          \* width of a time stamp in bits
  MaxSaves,   \* bound: profiles stored
  MaxAsks,    \* bound: web requests
  MaxFaults   \* bound: kills and failed writes

Threads == Web \cup {Saver}
Stamps == 0 .. 2^W - 1

(***************************************************************************)
(* A run of a job: its command; how many metrics it has, and whether one   *)
(* of them is called "walltime"; whether has_started and has_finished are  *)
(* set; whether a value is not a number; whether it ran on a child, so     *)
(* that a scraper relaxes it; and when it started and stopped.             *)
(***************************************************************************)
ASSUME RunsAssumption ==
  /\ Runs \subseteq [cmd : Commands, metrics : Nat, own : BOOLEAN, complete : BOOLEAN,
                     nan : BOOLEAN, child : BOOLEAN, start : Stamps, stop : Stamps]
  /\ \A r \in Runs : r.start <= r.stop
ASSUME SetsAssumption == IsFiniteSet(Jobs) /\ Commands # {}
ASSUME ThreadsAssumption == Saver \notin Web
ASSUME BoundsAssumption ==
  W \in Nat \ {0} /\ MaxSaves \in Nat /\ MaxAsks \in Nat /\ MaxFaults \in Nat

Profiles == [of : Runs, end : Stamps, nan : BOOLEAN]
Samples == [job : Jobs, of : Runs, walltime : Stamps]

ASSUME NoneAssumption ==
  /\ Absent # Torn /\ Absent \notin Profiles /\ Torn \notin Profiles
  /\ Absent \notin [job : Jobs, profile : Profiles]
  /\ Absent \notin Seq({Hole} \cup Samples)

VARIABLES
  status,   \* of the process: "up", "down", or "failed" to start
  disk,     \* <job>.profile
  mem,      \* ProfileView.profiles
  jsonl,    \* <md5 of the command>.jsonl: its lines, or Absent
  models,   \* ProfileView.models: the commands that have an evaluator
  pc,       \* where a thread is
  cmd,      \* the command whose model it reads or writes
  saving,   \* what the Saver stores: [job, profile], or Absent
  jobs,     \* the jobs that gather_by_command gave a thread
  todo,     \* samples it has still to write
  offset,   \* its position in the model file
  settled,  \* commands whose last model was written undisturbed (history)
  crossed,  \* threads that met another one at the same model (history)
  cut,      \* jobs whose file a kill or a failed write cut off (history)
  spent     \* what is used up of the bounds

threads == <<pc, cmd, saving, jobs, todo, offset>>
vars == <<status, disk, mem, jsonl, models, threads, settled, crossed, cut, spent>>

TypeOK ==
  /\ status \in {"up", "down", "failed"}
  /\ disk \in [Jobs -> {Absent, Torn} \cup Profiles]
  /\ mem \in [Jobs -> {Absent} \cup {p \in Profiles : ~p.nan}]
  /\ jsonl \in [Commands -> {Absent} \cup Seq({Hole} \cup Samples)]
  /\ models \subseteq {c \in Commands : jsonl[c] # Absent}
  /\ pc \in [Threads -> {"idle", "write", "insert", "read", "gather", "fetch",
                         "create", "lines", "reread"}]
  /\ cmd \in [Threads -> Commands]
  /\ saving \in {Absent} \cup [job : Jobs, profile : Profiles]
  /\ jobs \in [Threads -> SUBSET Jobs]
  /\ todo \in [Threads -> SUBSET Samples]
  /\ offset \in [Threads -> 0 .. Cardinality(Jobs)]
  /\ settled \subseteq Commands /\ crossed \subseteq Threads /\ cut \subseteq Jobs
  /\ spent \in [saves : 0 .. MaxSaves, asks : 0 .. MaxAsks, faults : 0 .. MaxFaults]

-----------------------------------------------------------------------------
EndTimeNeverStamped(r) == 0

\* handle_client stamps the end of the description of its client; the one that
\* a scraper has of a job on a child still has the 0 of JobDesc::new.
EndTime(r) == IF r.child THEN 0 ELSE r.stop

\* Mutant: values that are not numbers are stored as they are.
CleanNothing(p) == p

\* CounterType::clean_nan.
Clean(p) == [p EXCEPT !.nan = FALSE]

\* serde_json writes what is not a number as null, which cannot be read back.
Serialized(p) == IF p.nan THEN Torn ELSE p

\* add_duration on the copy of a profile: a subtraction of u64, unchecked in a
\* release build, that makes one more metric.
Walltime(p) == (p.end - p.of.start) % 2^W

Metrics(P) == [j \in DOMAIN P |-> P[j].of.metrics + 1]

Average(P) == SumFunction(Metrics(P)) \div Cardinality(DOMAIN P)

\* ExtrapModel::new: the samples of the profiles P, a function on some jobs.
Model(P) ==
  {[job |-> j, of |-> P[j].of, walltime |-> Walltime(P[j])] :
     j \in {i \in DOMAIN P : Metrics(P)[i] > Average(P) /\ P[i].of.complete}}

Stored(c) == {j \in Jobs : mem[j] # Absent /\ mem[j].of.cmd = c}

\* A line written at position i of a file that another thread may have
\* truncated in the meantime.
Put(lines, i, s) ==
  [k \in 1 .. (IF i > Len(lines) THEN i ELSE Len(lines)) |->
     IF k = i THEN s ELSE IF k <= Len(lines) THEN lines[k] ELSE Hole]

Goto(t, where) == pc' = [pc EXCEPT ![t] = where]

Generating(t) == pc[t] \in {"gather", "fetch", "create", "lines"}

Spend(what) == spent' = [spent EXCEPT ![what] = @ + 1]

\* Memory and threads of a process that is not there.
Empty ==
  /\ mem' = [j \in Jobs |-> Absent] /\ models' = {}
  /\ pc' = [t \in Threads |-> "idle"]
  /\ saving' = Absent
  /\ jobs' = [t \in Threads |-> {}] /\ todo' = [t \in Threads |-> {}]
  /\ offset' = [t \in Threads |-> 0]
  /\ crossed' = {}

\* The job whose file is half written when the process ends.
CutOff == IF pc[Saver] = "write" THEN {saving.job} ELSE {}

\* A new directory.
Init ==
  /\ status = "up"
  /\ disk = [j \in Jobs |-> Absent] /\ mem = [j \in Jobs |-> Absent]
  /\ jsonl = [c \in Commands |-> Absent] /\ models = {}
  /\ pc = [t \in Threads |-> "idle"]
  /\ cmd = [t \in Threads |-> CHOOSE c \in Commands : TRUE]
  /\ saving = Absent
  /\ jobs = [t \in Threads |-> {}] /\ todo = [t \in Threads |-> {}]
  /\ offset = [t \in Threads |-> 0]
  /\ settled = {} /\ crossed = {} /\ cut = {}
  /\ spent = [saves |-> 0, asks |-> 0, faults |-> 0]

-----------------------------------------------------------------------------
(***************************************************************************)
(* saveprofile, called for the last reference to job j: clean the values,  *)
(* create the file (which truncates the one of a former life of j), write  *)
(* it, enter the profile in memory and generate the model of its command.  *)
(***************************************************************************)
Save(j, r) ==
  LET p == Clean([of |-> r, end |-> EndTime(r), nan |-> r.nan])
  IN  /\ status = "up" /\ pc[Saver] = "idle" /\ spent.saves < MaxSaves
      /\ saving' = [job |-> j, profile |-> p]
      /\ disk' = [disk EXCEPT ![j] = Torn]
      /\ cmd' = [cmd EXCEPT ![Saver] = r.cmd]
      /\ Goto(Saver, "write")
      /\ settled' = settled \ ({r.cmd} \cup {c \in Commands : j \in Stored(c)})
      /\ crossed' = crossed \cup {t \in Web : Generating(t)}
      /\ Spend("saves")
      /\ UNCHANGED <<status, mem, jsonl, models, jobs, todo, offset, cut>>

Write ==
  /\ pc[Saver] = "write"
  /\ disk' = [disk EXCEPT ![saving.job] = Serialized(saving.profile)]
  /\ cut' = cut \ {saving.job}
  /\ Goto(Saver, "insert")
  /\ UNCHANGED <<status, mem, jsonl, models, cmd, saving, jobs, todo, offset, settled, crossed, spent>>

\* to_writer fails: relax_job returns the error and the file stays as it is.
WriteFails ==
  /\ pc[Saver] = "write" /\ spent.faults < MaxFaults
  /\ cut' = cut \cup {saving.job}
  /\ saving' = Absent
  /\ Goto(Saver, "idle")
  /\ Spend("faults")
  /\ UNCHANGED <<status, disk, mem, jsonl, models, cmd, jobs, todo, offset, settled, crossed>>

\* Mutant: the profile is written and not entered in memory.
InsertForgotten ==
  /\ pc[Saver] = "insert"
  /\ Goto(Saver, "gather")
  /\ UNCHANGED <<status, disk, mem, jsonl, models, cmd, saving, jobs, todo, offset, settled, crossed, cut, spent>>

Insert ==
  /\ pc[Saver] = "insert"
  /\ mem' = [mem EXCEPT ![saving.job] = saving.profile]
  /\ Goto(Saver, "gather")
  /\ UNCHANGED <<status, disk, jsonl, models, cmd, saving, jobs, todo, offset, settled, crossed, cut, spent>>

-----------------------------------------------------------------------------
(***************************************************************************)
(* generate_extrap_model, from saveprofile or from get_jsonl: which jobs   *)
(* have the command, then their profiles one by one, then the file.        *)
(***************************************************************************)
Others(t) == {u \in Threads \ {t} : Generating(u) /\ cmd[u] = cmd[t]}

\* What follows the generation of a model.
Resume(t) ==
  /\ Goto(t, IF t = Saver THEN "idle" ELSE "reread")
  /\ saving' = IF t = Saver THEN Absent ELSE saving

Gather(t) ==
  /\ pc[t] = "gather" /\ Stored(cmd[t]) # {}
  /\ jobs' = [jobs EXCEPT ![t] = Stored(cmd[t])]
  /\ Goto(t, "fetch")
  /\ settled' = settled \ {cmd[t]}
  /\ crossed' = IF Others(t) # {} THEN crossed \cup Others(t) \cup {t}
                ELSE IF t # Saver /\ saving # Absent THEN crossed \cup {t}
                ELSE crossed \ {t}
  /\ UNCHANGED <<status, disk, mem, jsonl, models, cmd, saving, todo, offset, cut, spent>>

\* No profile has the command any more: there is nothing to do.
GatherNothing(t) ==
  /\ pc[t] = "gather" /\ Stored(cmd[t]) = {}
  /\ Resume(t)
  /\ UNCHANGED <<status, disk, mem, jsonl, models, cmd, jobs, todo, offset, settled, crossed, cut, spent>>

\* get_profile for each of the jobs, and ExtrapModel::new.
Fetch(t) ==
  /\ pc[t] = "fetch" /\ \A j \in jobs[t] : ~mem[j].of.own
  /\ todo' = [todo EXCEPT ![t] = Model(Restrict(mem, jobs[t]))]
  /\ jobs' = [jobs EXCEPT ![t] = {}]
  /\ Goto(t, "create")
  /\ UNCHANGED <<status, disk, mem, jsonl, models, cmd, saving, offset, settled, crossed, cut, spent>>

\* Mutant: an existing model is opened without truncating it.
CreateAppends(t) ==
  /\ pc[t] = "create"
  /\ jsonl' = [jsonl EXCEPT ![cmd[t]] = IF @ = Absent THEN <<>> ELSE @]
  /\ offset' = [offset EXCEPT ![t] = 0]
  /\ Goto(t, "lines")
  /\ UNCHANGED <<status, disk, mem, models, cmd, saving, jobs, todo, settled, crossed, cut, spent>>

\* serialize: File::create, then line after line.
Create(t) ==
  /\ pc[t] = "create"
  /\ jsonl' = [jsonl EXCEPT ![cmd[t]] = <<>>]
  /\ offset' = [offset EXCEPT ![t] = 0]
  /\ Goto(t, "lines")
  /\ UNCHANGED <<status, disk, mem, models, cmd, saving, jobs, todo, settled, crossed, cut, spent>>

Line(t) ==
  /\ pc[t] = "lines"
  /\ \E s \in todo[t] :
       /\ jsonl' = [jsonl EXCEPT ![cmd[t]] = Put(@, offset[t] + 1, s)]
       /\ todo' = [todo EXCEPT ![t] = @ \ {s}]
  /\ offset' = [offset EXCEPT ![t] = @ + 1]
  /\ UNCHANGED <<status, disk, mem, models, pc, cmd, saving, jobs, settled, crossed, cut, spent>>

\* An evaluator is entered once; it reads the file again when it has changed.
Close(t) ==
  /\ pc[t] = "lines" /\ todo[t] = {}
  /\ models' = models \cup {cmd[t]}
  /\ settled' = IF t \in crossed THEN settled ELSE settled \cup {cmd[t]}
  /\ Resume(t)
  /\ UNCHANGED <<status, disk, mem, jsonl, cmd, jobs, todo, offset, crossed, cut, spent>>

\* The file cannot be created or written: saveprofile and get_jsonl return the
\* error, with the profile stored.
GenerateFails(t) ==
  /\ pc[t] \in {"create", "lines"} /\ spent.faults < MaxFaults
  /\ todo' = [todo EXCEPT ![t] = {}]
  /\ saving' = IF t = Saver THEN Absent ELSE saving
  /\ Goto(t, "idle")
  /\ Spend("faults")
  /\ UNCHANGED <<status, disk, mem, jsonl, models, cmd, jobs, offset, settled, crossed, cut>>

-----------------------------------------------------------------------------
\* get_jsonl for a job with command c.
Ask(t, c) ==
  /\ status = "up" /\ pc[t] = "idle" /\ spent.asks < MaxAsks
  /\ cmd' = [cmd EXCEPT ![t] = c]
  /\ Goto(t, "read")
  /\ Spend("asks")
  /\ UNCHANGED <<status, disk, mem, jsonl, models, saving, jobs, todo, offset, settled, crossed, cut>>

HasWalltime(lines) == \E i \in DOMAIN lines : lines[i] # Hole

\* The file is missing, or it is what the request wants, or it is an old or an
\* empty one and is made again.
Read(t) ==
  /\ pc[t] = "read"
  /\ Goto(t, IF jsonl[cmd[t]] = Absent \/ HasWalltime(jsonl[cmd[t]]) THEN "idle" ELSE "gather")
  /\ UNCHANGED <<status, disk, mem, jsonl, models, cmd, saving, jobs, todo, offset, settled, crossed, cut, spent>>

Reread(t) ==
  /\ pc[t] = "reread"
  /\ Goto(t, "idle")
  /\ UNCHANGED <<status, disk, mem, jsonl, models, cmd, saving, jobs, todo, offset, settled, crossed, cut, spent>>

(***************************************************************************)
(* refresh_profiles: all profiles of the directory, in the order the file  *)
(* system lists them, up to the first that cannot be read.  The keys in    *)
(* memory are never equal to paths, so that all are read every time.       *)
(***************************************************************************)
TornJobs == {j \in Jobs : disk[j] = Torn}

Load(S) ==
  /\ mem' = [j \in Jobs |-> IF j \in S THEN disk[j] ELSE mem[j]]
  /\ models' = models \cup {c \in Commands : jsonl[c] # Absent /\ \E j \in S : disk[j].of.cmd = c}

\* extrap_model_plot, which ignores the error of refresh_profiles.
Plot(c) ==
  /\ status = "up" /\ c \notin models /\ spent.asks < MaxAsks
  /\ \E S \in SUBSET {j \in Jobs : disk[j] \in Profiles} :
       /\ TornJobs = {} => S = {j \in Jobs : disk[j] \in Profiles}
       /\ Load(S)
  /\ Spend("asks")
  /\ UNCHANGED <<status, disk, jsonl, threads, settled, crossed, cut>>

(***************************************************************************)
(* A profile with a metric called "walltime": add_duration returns TRUE,   *)
(* get_profile generates the model of the command, which gets the same     *)
(* profile, without end: the stack overflows and the process aborts.       *)
(***************************************************************************)
FetchOverflows(t) ==
  /\ pc[t] = "fetch" /\ \E j \in jobs[t] : mem[j].of.own
  /\ status' = "down" /\ Empty
  /\ cut' = cut \cup CutOff
  /\ UNCHANGED <<disk, jsonl, cmd, settled, spent>>

\* The same from a request for the profile, after a restart.
GetOverflows ==
  /\ status = "up" /\ spent.asks < MaxAsks
  /\ \E j \in Jobs : mem[j] # Absent /\ mem[j].of.own
  /\ status' = "down" /\ Empty
  /\ cut' = cut \cup CutOff
  /\ Spend("asks")
  /\ UNCHANGED <<disk, jsonl, cmd, settled>>

\* The proxy is killed.
Kill ==
  /\ status = "up" /\ spent.faults < MaxFaults
  /\ status' = "down" /\ Empty
  /\ cut' = cut \cup CutOff
  /\ Spend("faults")
  /\ UNCHANGED <<disk, jsonl, cmd, settled>>

\* ProfileView::new in a new process, which stops when refresh_profiles fails.
Start ==
  /\ status # "up" /\ TornJobs = {}
  /\ status' = "up"
  /\ Load({j \in Jobs : disk[j] \in Profiles})
  /\ UNCHANGED <<disk, jsonl, threads, settled, crossed, cut, spent>>

StartFails ==
  /\ status = "down" /\ TornJobs # {}
  /\ status' = "failed"
  /\ UNCHANGED <<disk, mem, jsonl, models, threads, settled, crossed, cut, spent>>

Generate(t) ==
  Gather(t) \/ GatherNothing(t) \/ Fetch(t) \/ FetchOverflows(t) \/ Create(t) \/ Line(t) \/ Close(t)

Work(t) == Generate(t) \/ (t = Saver /\ (Write \/ Insert)) \/ Read(t) \/ Reread(t)

Next ==
  \/ \E j \in Jobs, r \in Runs : Save(j, r)
  \/ WriteFails
  \/ \E t \in Threads : Work(t) \/ GenerateFails(t)
  \/ \E t \in Web, c \in Commands : Ask(t, c)
  \/ \E c \in Commands : Plot(c)
  \/ GetOverflows \/ Kill \/ Start \/ StartFails

Spec == Init /\ [][Next]_vars

-----------------------------------------------------------------------------
(***************************************************************************)
(* What memory shows of a job is what its file holds, so that a restart    *)
(* brings it back (saveprofile writes before it inserts, refresh_profiles  *)
(* overwrites memory): only while the job is being stored, or when its     *)
(* file was cut off by a failed write, are they different.                 *)
(***************************************************************************)
MemoryIsDisk ==
  status = "up" =>
    \A j \in Jobs : mem[j] # disk[j] => j \in cut \/ (saving # Absent /\ saving.job = j)

(***************************************************************************)
(* A start fails only on a file that a kill or a failed write left half    *)
(* written (saveprofile creates the file before it writes it, and          *)
(* refresh_profiles stops at one it cannot read): a value that is not a    *)
(* number, which JSON cannot hold, never makes one.                        *)
(***************************************************************************)
StartFailsOnCutOnly == status = "failed" => cut \cap TornJobs # {}

(***************************************************************************)
(* The inductive invariant of the two properties above: what the store     *)
(* keeps are complete profiles (no value that is not a number, the end as  *)
(* relax_job found it); the Saver has a job in hand exactly while it is    *)
(* busy, written when it comes to enter it and entered when it comes to    *)
(* the model; a file that cannot be read was cut off or is being written;  *)
(* and a process that is not there has no memory and no threads.           *)
(***************************************************************************)
Busy == pc[Saver] # "idle"

Complete == {p \in Profiles : ~p.nan /\ p.end = EndTime(p.of)}

FilesTyped ==
  /\ status \in {"up", "down", "failed"}
  /\ disk \in [Jobs -> {Absent, Torn} \cup Complete]
  /\ mem \in [Jobs -> {Absent} \cup Complete]
  /\ DOMAIN pc = Threads
  /\ saving \in {Absent} \cup [job : Jobs, profile : Complete]

SaverConsistent ==
  /\ Busy <=> saving # Absent
  /\ pc[Saver] \in {"idle", "write", "insert", "gather", "fetch", "create", "lines"}
  /\ pc[Saver] = "write" => disk[saving.job] = Torn
  /\ pc[Saver] = "insert" => disk[saving.job] = saving.profile
  /\ pc[Saver] \in {"gather", "fetch", "create", "lines"} => mem[saving.job] = disk[saving.job]

TornIsCut == TornJobs \subseteq cut \cup CutOff /\ cut \subseteq TornJobs

DownIsEmpty ==
  status # "up" => /\ mem = [j \in Jobs |-> Absent]
                   /\ \A t \in Threads : pc[t] = "idle"

FilesInv ==
  /\ FilesTyped /\ SaverConsistent /\ TornIsCut /\ DownIsEmpty
  /\ MemoryIsDisk /\ StartFailsOnCutOnly

\* The samples that the model of c should have.
Wanted(c) == Model(Restrict(mem, Stored(c)))

(***************************************************************************)
(* A model that was written with no other thread at the same file and no   *)
(* job stored meanwhile has the sample of each profile in memory it should *)
(* have, once, and no other line; one such generation after any disorder   *)
(* (two writers, a kill, a failure) is enough.                             *)
(***************************************************************************)
SettledModelIsCurrent ==
  status = "up" =>
    \A c \in settled :
      /\ jsonl[c] # Absent
      /\ Range(jsonl[c]) = Wanted(c)
      /\ Len(jsonl[c]) = Cardinality(Range(jsonl[c]))

(***************************************************************************)
(* The wall time in any model is the time that the job took, unless the    *)
(* job ran on a child of this proxy: then end_time is still 0 and the      *)
(* difference wraps around (add_duration), which no job of this proxy's    *)
(* own clients may suffer.                                                 *)
(***************************************************************************)
WalltimeUnlessScraped ==
  \A c \in Commands : jsonl[c] # Absent =>
    \A s \in Range(jsonl[c]) :
      s = Hole \/ s.walltime = s.of.stop - s.of.start \/ s.of.child

-----------------------------------------------------------------------------
(***************************************************************************)
(* The inductive invariant of the models, on top of FilesInv.  First types *)
(* and bounds: what is written or to be written has accurate wall times,   *)
(* and a model has no more lines than there are jobs.                      *)
(***************************************************************************)
Accurate(s) == s.walltime = s.of.stop - s.of.start \/ s.of.child
Right == {s \in Samples : Accurate(s)}

Places == {"idle", "write", "insert", "read", "gather", "fetch", "create", "lines", "reread"}

ModelsTyped ==
  /\ jsonl \in [Commands -> {Absent} \cup Seq({Hole} \cup Right)]
  /\ models \subseteq {c \in Commands : jsonl[c] # Absent}
  /\ pc \in [Threads -> Places] /\ cmd \in [Threads -> Commands]
  /\ jobs \in [Threads -> SUBSET Jobs] /\ todo \in [Threads -> SUBSET Right]
  /\ offset \in [Threads -> 0 .. Cardinality(Jobs)]
  /\ settled \subseteq Commands /\ crossed \subseteq Threads /\ cut \subseteq Jobs
  /\ spent \in [saves : 0 .. MaxSaves, asks : 0 .. MaxAsks, faults : 0 .. MaxFaults]

Tracked(t) ==
  /\ pc[t] = "fetch" => \A j \in jobs[t] : mem[j] # Absent
  /\ pc[t] \in {"create", "lines"} => IsFiniteSet(todo[t])
  /\ pc[t] = "create" => Cardinality(todo[t]) <= Cardinality(Jobs)
  /\ pc[t] = "lines" => /\ jsonl[cmd[t]] # Absent
                        /\ offset[t] + Cardinality(todo[t]) <= Cardinality(Jobs)

(***************************************************************************)
(* A thread that nobody has crossed since it gathered its jobs is alone    *)
(* with its model, which is not settled, and a web thread then knows that  *)
(* nothing is being stored; what is being stored concerns no settled       *)
(* model.                                                                  *)
(***************************************************************************)
AtWork(t) == pc[t] \in {"fetch", "create", "lines"}

Alone(t) ==
  AtWork(t) =>
    /\ cmd[t] \notin settled
    /\ t \notin crossed => /\ \A u \in Threads \ {t} : AtWork(u) => cmd[u] # cmd[t]
                           /\ t # Saver => saving = Absent

StoringUnsettles ==
  pc[Saver] \in {"write", "insert"} =>
    /\ saving.profile.of.cmd \notin settled
    /\ mem[saving.job] # Absent => mem[saving.job].of.cmd \notin settled

\* The lines of a model are samples of these, each once.
Lists(lines, S) == Range(lines) = S /\ Len(lines) = Cardinality(S)

\* What such a thread has read, fetched or written is what the model should have.
Ahead(t) ==
  AtWork(t) /\ t \notin crossed =>
    /\ pc[t] = "fetch" => jobs[t] = Stored(cmd[t])
    /\ pc[t] = "create" => todo[t] = Wanted(cmd[t])
    /\ pc[t] = "lines" => /\ todo[t] \subseteq Wanted(cmd[t])
                          /\ Lists(jsonl[cmd[t]], Wanted(cmd[t]) \ todo[t])
                          /\ Len(jsonl[cmd[t]]) = offset[t]

\* Settled models agree with memory, and with the profiles that a start will find.
Found(c) == {j \in Jobs : disk[j] \in Profiles /\ disk[j].of.cmd = c}
Offered(c) == Model(Restrict(disk, Found(c)))

SettledCurrent ==
  \A c \in settled :
    /\ jsonl[c] # Absent
    /\ status = "up" => Lists(jsonl[c], Wanted(c))
    /\ status # "up" /\ TornJobs = {} => Lists(jsonl[c], Offered(c))

ModelsInv ==
  /\ ModelsTyped /\ StoringUnsettles /\ SettledCurrent
  /\ \A t \in Threads : Tracked(t) /\ Alone(t) /\ Ahead(t)
=============================================================================

------------------------------ MODULE TraceStore ------------------------------
(***************************************************************************)
(* The trace of one job on an aggregating proxy (src/src/trace.rs): a file *)
(* of frames and the copy of them in memory.  The job's trace scraper      *)
(* pushes a sample once per period; a file above its maximum size is       *)
(* folded to half of its samples and the period is doubled.  Any write may *)
(* fail, or be short without anybody noticing, and the proxy may be killed *)
(* between any two writes and finds the file when it starts again.         *)
(*                                                                         *)
(* The mutex of the trace is held during a push, a fold and a load, so     *)
(* each is one step; what a failure or a kill in the middle leaves is a    *)
(* step of its own.                                                        *)
(***************************************************************************)
EXTENDS Integers, Sequences, FiniteSets, Functions

CONSTANTS
  Names,        \* names of counters
  MaxTraceSize, \* --max-trace-size, in bytes
  LengthBytes,  \* bytes of the length in front of a frame
  DescBytes,    \* bytes of a description of the job, its length included
  MetaBytes,    \* bytes of a description of a counter
  SampleBytes,  \* bytes of a sample without its counters
  EntryBytes,   \* bytes of a counter in a sample
  MaxClock,     \* bound on the time that is sampled
  MaxKills,     \* bound on the number of kills
  MaxFaults     \* bound on the number of operations with failing or short writes

ASSUME SizesAssumption ==
  /\ IsFiniteSet(Names) /\ Names # {}
  /\ MaxTraceSize \in Nat \ {0} /\ MaxClock \in Nat /\ MaxKills \in Nat /\ MaxFaults \in Nat
  /\ \A b \in {LengthBytes, DescBytes, MetaBytes, SampleBytes, EntryBytes} : b \in Nat \ {0}

VARIABLES
  exists,    \* whether the trace file exists
  disk,      \* its frames
  proc,      \* the process: "up", "down", "hung" in TraceView::new, or "stuck":
             \* a reader waits for ever with the mutex of the trace
  known,     \* the store has a Trace for the job
  loaded,    \* TraceState.loaded
  frames,    \* TraceData.frames
  nextId,    \* TraceState.current_counter_id
  maxSize,   \* TraceState.max_size
  done,      \* Trace.done
  failed,    \* a push of this process has failed
  active,    \* the job has a trace scraper
  period,    \* its period, in units of the first one
  clock,     \* time sampled so far
  kills,     \* number of kills so far
  faults     \* number of operations with failing or short writes so far

state  == <<known, loaded, frames, nextId, maxSize, done, failed>>
memory == <<state, active, period>>
vars   == <<exists, disk, proc, memory, clock, kills, faults>>

(***************************************************************************)
(* Frames.  A counters frame stands for the time from `from' to `to' and   *)
(* has the ids of the counters that are listed in it.  A torn frame is a   *)
(* length without all of its data: a reader takes what follows for the     *)
(* rest of it and reads nothing behind it.                                 *)
(***************************************************************************)
DescFrame == [kind |-> "desc"]
TornFrame == [kind |-> "torn"]
MetaFrames == [kind : {"meta"}, name : Names, id : Nat]
CountersFrames == [kind : {"counters"}, from : Nat, to : Nat, ids : SUBSET Nat]
Frame == {DescFrame, TornFrame} \cup MetaFrames \cup CountersFrames

\* Where the frames of a kind are.
At(s, kind) == {i \in DOMAIN s : s[i].kind = kind}

\* The frames of a kind, in their order: filter(is_metadata), filter(is_counters).
OfKind(s, kind) ==
  LET upto[i \in 0 .. Len(s)] ==
        IF i = 0 THEN <<>>
        ELSE IF s[i].kind = kind THEN Append(upto[i - 1], s[i]) ELSE upto[i - 1]
  IN  upto[Len(s)]

Metas(s) == OfKind(s, "meta")
Samples(s) == OfKind(s, "counters")

HasTorn(s) == \E i \in DOMAIN s : s[i] = TornFrame

\* What a reader finds: the frames in front of the first torn one.
Legible(s) ==
  LET n == CHOOSE n \in 0 .. Len(s) :
             /\ \A i \in 1 .. n : s[i] # TornFrame
             /\ n = Len(s) \/ s[n + 1] = TornFrame
  IN  SubSeq(s, 1, n)

\* The counters in the samples.
Entries(s) == {e \in At(s, "counters") \X UNION {s[i].ids : i \in At(s, "counters")} :
                 e[2] \in s[e[1]].ids}

\* TraceState.size, in bytes.  Of a torn frame at least the length is there.
Size(s) ==
  LengthBytes * Cardinality(At(s, "torn")) + DescBytes * Cardinality(At(s, "desc"))
    + MetaBytes * Cardinality(At(s, "meta")) + SampleBytes * Cardinality(At(s, "counters"))
    + EntryBytes * Cardinality(Entries(s))

(***************************************************************************)
(* The type invariant.  A file starts with the description of the job, the *)
(* only frame TraceState::desc_from_file accepts, unless it is torn there; *)
(* no torn frame is ever taken into memory.                                *)
(***************************************************************************)
TypeOK ==
  /\ exists \in BOOLEAN /\ known \in BOOLEAN /\ loaded \in BOOLEAN
  /\ done \in BOOLEAN /\ failed \in BOOLEAN /\ active \in BOOLEAN
  /\ proc \in {"up", "down", "hung", "stuck"}
  /\ disk \in Seq(Frame)
  /\ \A i \in DOMAIN disk :
       /\ disk[i] = DescFrame => i = 1
       /\ i = 1 => disk[i] \in {DescFrame, TornFrame}
  /\ frames \in Seq(Frame \ {TornFrame})
  /\ nextId \in Nat /\ maxSize \in {0, MaxTraceSize}
  /\ period \in Nat \ {0} /\ clock \in 0 .. MaxClock
  /\ kills \in 0 .. MaxKills /\ faults \in 0 .. MaxFaults

Init ==
  /\ exists = FALSE /\ disk = <<>> /\ proc = "up"
  /\ known = FALSE /\ loaded = FALSE /\ frames = <<>> /\ nextId = 0
  /\ maxSize = 0 /\ done = FALSE /\ failed = FALSE
  /\ active = FALSE /\ period = 1
  /\ clock = 0 /\ kills = 0 /\ faults = 0

-----------------------------------------------------------------------------
\* TraceData.counters: the id of a name is the one described last.
Describes(s, name) == {i \in At(s, "meta") : s[i].name = name}
Described(s) == {n \in Names : Describes(s, n) # {}}
IdOf(s, name) ==
  LET last == CHOOSE i \in Describes(s, name) : \A j \in Describes(s, name) : j <= i
  IN  s[last].id

\* Mutant: the id is not counted up within a push.
NewMetasSameId(order) ==
  [i \in DOMAIN order |-> [kind |-> "meta", name |-> order[i], id |-> nextId]]

\* check_counter: descriptions of the counters that are new, in the order in
\* which the profile lists them.
NewMetas(order) ==
  [i \in DOMAIN order |-> [kind |-> "meta", name |-> order[i], id |-> nextId + i - 1]]

Orders(S) == Bijection(1 .. Cardinality(S), S)

Sample(s, S) ==
  [kind |-> "counters", from |-> clock + 1, to |-> clock + period,
   ids |-> {IdOf(s, n) : n \in S}]

\* Mutant: the sample is written before the descriptions.
WrittenSampleFirst(order, S) ==
  LET metas == NewMetas(order) IN <<Sample(frames \o metas, S)>> \o metas

\* The frames of one push, in the order in which they are written.
Written(order, S) ==
  LET metas == NewMetas(order) IN metas \o <<Sample(frames \o metas, S)>>

\* TraceFrame::sum: the counters of the second frame, the time of both.
SumOf(first, second) == [second EXCEPT !.from = first.from]

\* Mutant: a sample without a partner is kept as it is.
FoldKeepsOdd(s) ==
  LET c == Samples(s) IN
  Metas(s) \o [i \in 1 .. (Len(c) + 1) \div 2 |->
                 IF 2 * i <= Len(c) THEN SumOf(c[2 * i - 1], c[2 * i]) ELSE c[2 * i - 1]]

\* Mutant: neighbours overlap.
FoldOverlaps(s) ==
  LET c == Samples(s) IN
  Metas(s) \o [i \in 1 .. Len(c) \div 2 |-> SumOf(c[i], c[i + 1])]

\* fold: descriptions first, then the samples in pairs; one without a partner
\* is dropped.
Fold(s) ==
  LET c == Samples(s) IN
  Metas(s) \o [i \in 1 .. Len(c) \div 2 |-> SumOf(c[2 * i - 1], c[2 * i])]

-----------------------------------------------------------------------------
(***************************************************************************)
(* Writes.  do_write_frame reports a failing write, and writes the rest of *)
(* a frame with one write_at whose count it ignores.                       *)
(***************************************************************************)
\* Frames of s that are all written, some of them short.
Blurred(s) ==
  {[i \in DOMAIN s |-> IF i \in short THEN TornFrame ELSE s[i]] : short \in SUBSET DOMAIN s}

\* What is left when one of the writes fails.
Broken(s) == UNION {Blurred(SubSeq(s, 1, k)) : k \in 0 .. Len(s)}

\* What is left when the process is killed during the writes.
Torn(s) ==
  {SubSeq(s, 1, k) : k \in 0 .. Len(s)}
    \cup {Append(SubSeq(s, 1, k), TornFrame) : k \in 0 .. Len(s) - 1}

Fault == faults < MaxFaults /\ faults' = faults + 1

\* The size of the file is compared with its maximum; how much of a torn frame
\* is there is not known.
MayFold(d) == Size(d) > maxSize \/ HasTorn(d)
MayStay(d) == Size(d) <= maxSize

-----------------------------------------------------------------------------
\* A trace that is already in the store: TraceView::get.  As long as the job has
\* not ended resolve_job does not look for it again, scraper or not.
Reopen ==
  /\ proc = "up" /\ known /\ ~active /\ (failed => done)
  /\ active' = TRUE /\ period' = 1
  /\ UNCHANGED <<exists, disk, proc, state, clock, kills, faults>>

\* A new one: Trace::new, which refuses a file that exists.
Created ==
  /\ exists' = TRUE
  /\ known' = TRUE /\ loaded' = TRUE /\ frames' = <<>> /\ nextId' = 0
  /\ maxSize' = MaxTraceSize /\ done' = FALSE /\ failed' = FALSE
  /\ active' = TRUE /\ period' = 1
  /\ UNCHANGED <<proc, clock, kills>>

Create ==
  /\ proc = "up" /\ ~known /\ ~exists
  /\ Created
  /\ disk' = <<DescFrame>>
  /\ UNCHANGED faults

CreateShort ==
  /\ proc = "up" /\ ~known /\ ~exists /\ Fault
  /\ Created
  /\ disk' = <<TornFrame>>

\* The job then has no trace, and none later: the file is there.
CreateFails ==
  /\ proc = "up" /\ ~known /\ ~exists /\ Fault
  /\ exists' = TRUE /\ disk' \in {<<>>, <<TornFrame>>}
  /\ UNCHANGED <<proc, memory, clock, kills>>

\* Mutant: the memory is left as it was when the file is folded.
StorePushFileOnly(new, appended, folded) ==
  \/ /\ MayStay(disk \o appended) /\ disk' = disk \o appended
     /\ frames' = frames \o new /\ UNCHANGED period
  \/ /\ MayFold(disk \o appended) /\ disk' = folded
     /\ frames' = frames \o new /\ period' = 2 * period

\* Mutant: no fold, the file only grows.
StorePushNoFold(new, appended, folded) ==
  /\ disk' = disk \o appended
  /\ frames' = frames \o new
  /\ UNCHANGED period

\* TraceState::push without an error: file and memory, and both folded when the
\* file is too large; scrape_trace takes the doubled period.
StorePush(new, appended, folded) ==
  \/ /\ MayStay(disk \o appended) /\ disk' = disk \o appended
     /\ frames' = frames \o new /\ UNCHANGED period
  \/ /\ MayFold(disk \o appended) /\ disk' = folded
     /\ frames' = Fold(frames \o new) /\ period' = 2 * period

Folded(new) == <<DescFrame>> \o Fold(frames \o new)

\* The trace takes a sample, for which check_counter has counted the ids up.
Takes == proc = "up" /\ active /\ ~done /\ clock + period <= MaxClock /\ clock' = clock + period

Push(S) ==
  /\ Takes
  /\ \E order \in Orders(S \ Described(frames)) :
       LET new == Written(order, S) IN
       /\ StorePush(new, new, Folded(new))
       /\ nextId' = nextId + Len(order)
  /\ UNCHANGED <<exists, proc, known, loaded, maxSize, done, failed, active, kills, faults>>

\* Some of the frames are short, and nobody notices.
PushShort(S) ==
  /\ Takes /\ Fault
  /\ \E order \in Orders(S \ Described(frames)) :
       LET new == Written(order, S) IN
       /\ \E appended \in Blurred(new), folded \in Blurred(Folded(new)) :
            StorePush(new, appended, folded)
       /\ nextId' = nextId + Len(order)
  /\ UNCHANGED <<exists, proc, known, loaded, maxSize, done, failed, active, kills>>

\* A write fails: `at' is the frame that fails, if it is the sample its
\* descriptions are in memory already.
AppendFails(order, new) ==
  \E at \in 1 .. Len(new) :
    /\ \E part \in Blurred(SubSeq(new, 1, at)) \cup Blurred(SubSeq(new, 1, at - 1)) :
         disk' = disk \o part
    /\ frames' = IF at = Len(new) THEN frames \o NewMetas(order) ELSE frames
    /\ UNCHANGED exists

\* The fold fails with its samples in memory: the file cannot be removed, it is
\* removed, or it is written in part.
FoldFails(new) ==
  /\ frames' = frames \o new
  /\ \E appended \in Blurred(new) :
       /\ MayFold(disk \o appended)
       /\ \/ disk' = disk \o appended /\ UNCHANGED exists
          \/ disk' = <<>> /\ exists' = FALSE
          \/ disk' \in Broken(Folded(new)) /\ UNCHANGED exists

\* The scraper is deleted when its push fails.
PushFails(S) ==
  /\ Takes /\ Fault
  /\ \E order \in Orders(S \ Described(frames)) :
       LET new == Written(order, S) IN
       /\ AppendFails(order, new) \/ FoldFails(new)
       /\ nextId' = nextId + Len(order)
  /\ failed' = TRUE /\ active' = FALSE
  /\ UNCHANGED <<proc, known, loaded, maxSize, done, period, kills>>

\* A finished trace refuses the sample, and the scraper is deleted.
PushRefused ==
  /\ proc = "up" /\ active /\ done
  /\ active' = FALSE
  /\ UNCHANGED <<exists, disk, proc, state, period, clock, kills, faults>>

\* The job has ended (relax_job).
Done ==
  /\ proc = "up" /\ known /\ (active \/ failed) /\ ~done
  /\ done' = TRUE
  /\ UNCHANGED <<exists, disk, proc, known, loaded, frames, nextId, maxSize, failed, active, period,
                 clock, kills, faults>>

\* Mutant: a torn frame is taken for a frame.
LoadTorn ==
  /\ proc = "up" /\ known /\ ~loaded /\ exists
  /\ frames' = disk /\ loaded' = TRUE
  /\ UNCHANGED <<exists, disk, proc, known, nextId, maxSize, done, failed, active, period, clock,
                 kills, faults>>

\* Something reads the trace: a web page, or the FTIO scraper of the job.
Load ==
  /\ proc = "up" /\ known /\ ~loaded /\ exists /\ ~HasTorn(disk)
  /\ frames' = disk /\ loaded' = TRUE
  /\ UNCHANGED <<exists, disk, proc, known, nextId, maxSize, done, failed, active, period, clock,
                 kills, faults>>

\* It reads a torn frame.  If not enough bytes follow, read_frame_at never
\* returns and keeps the mutex; else it may also report an error, which changes
\* nothing.
LoadSticks ==
  /\ proc = "up" /\ known /\ ~loaded /\ exists /\ HasTorn(disk)
  /\ proc' = "stuck"
  /\ UNCHANGED <<exists, disk, memory, clock, kills, faults>>

-----------------------------------------------------------------------------
Killed ==
  /\ kills < MaxKills /\ kills' = kills + 1
  /\ proc' = "down"
  /\ known' = FALSE /\ loaded' = FALSE /\ frames' = <<>> /\ nextId' = 0
  /\ maxSize' = 0 /\ done' = FALSE /\ failed' = FALSE
  /\ active' = FALSE /\ period' = 1
  /\ UNCHANGED faults

Kill == proc # "down" /\ Killed /\ UNCHANGED <<exists, disk, clock>>

KillInCreate ==
  /\ proc = "up" /\ ~known /\ ~exists
  /\ Killed
  /\ exists' = TRUE /\ disk' \in Torn(<<DescFrame>>)
  /\ UNCHANGED clock

\* While frames are appended, or after that and before the file is removed to
\* be folded, or while the folded file is written.
KillInPush(S) ==
  /\ Takes
  /\ Killed
  /\ \E order \in Orders(S \ Described(frames)) :
       LET new == Written(order, S) IN
       \/ /\ \E part \in Torn(new) : disk' = disk \o part
          /\ UNCHANGED exists
       \/ /\ MayFold(disk \o new)
          /\ \/ exists' = FALSE /\ disk' = <<>>
             \/ disk' \in Torn(Folded(new)) /\ UNCHANGED exists

\* read_frame_at never returns from a torn frame that not enough bytes follow:
\* the description is read before anything else.
MayHang == exists /\ disk # <<>> /\ disk[1] = TornFrame

\* Mutant: only the description is looked at.
ReadableIfDescribed == exists /\ disk # <<>> /\ disk[1] = DescFrame

\* offset_of_last_frame_start adds the lengths up and reports a torn frame, as
\* they do not end at the end of the file; a file without a description is an
\* error too.
Readable == exists /\ disk # <<>> /\ ~HasTorn(disk)

\* TraceView::new: a readable trace is entered with maximum size 0, no frames
\* in memory and ids from 0; another one is skipped.
Restart ==
  /\ proc = "down"
  /\ proc' \in IF MayHang THEN {"hung", "up"} ELSE {"up"}
  /\ known' = Readable
  /\ UNCHANGED <<exists, disk, loaded, frames, nextId, maxSize, done, failed, active, period, clock,
                 kills, faults>>

Next ==
  \/ Reopen \/ Create \/ CreateShort \/ CreateFails \/ PushRefused \/ Done
  \/ Load \/ LoadSticks
  \/ Kill \/ KillInCreate \/ Restart
  \/ \E S \in SUBSET Names : Push(S) \/ PushShort(S) \/ PushFails(S) \/ KillInPush(S)

Spec == Init /\ [][Next]_vars

-----------------------------------------------------------------------------
\* The frames of d are the first ones of s, up to torn ones.
Within(d, s) == Len(d) <= Len(s) /\ \A i \in DOMAIN d : d[i] \in {s[i], TornFrame}

\* d has the frames of s, up to torn ones, and perhaps more behind them.
Covers(d, s) == Len(s) <= Len(d) /\ \A i \in DOMAIN s : d[i] \in {s[i], TornFrame}

(***************************************************************************)
(* A trace that was read or created by this process is the same in memory  *)
(* and on disk, folds included, up to frames whose write was short: what   *)
(* the web pages show is what a later start of the proxy finds.  Once a    *)
(* push has failed the file has at least what the memory has, or it was    *)
(* lost in a fold and has no frame that is not of the fold of the memory:  *)
(* no half-made state is taken further.  One that was read has the         *)
(* description of the job in memory until it is folded (TraceState::push,  *)
(* fold, load, scrape_trace).                                              *)
(***************************************************************************)
DiskIsMemory ==
  LET file == <<DescFrame>> \o frames IN
  loaded =>
    IF failed
    THEN \/ \E whole \in {frames, file} : Covers(disk, whole)
         \/ Within(disk, <<DescFrame>> \o Fold(frames))
    ELSE /\ \E whole \in {frames, file} : Covers(disk, whole) /\ Within(disk, whole)
         /\ HasTorn(disk) => faults > 0

(***************************************************************************)
(* Every counter id in a sample has been described earlier in the file,    *)
(* whatever write failed, was short or was cut off by a kill and whatever  *)
(* was folded: the file can be read from the front up to a torn frame      *)
(* (push writes descriptions first, fold keeps them).                      *)
(***************************************************************************)
IdsDescribed(s) ==
  \A j \in At(s, "counters") : \A id \in s[j].ids :
    \E i \in At(s, "meta") : i < j /\ s[i].id = id

SamplesDescribed == IdsDescribed(Legible(disk))

(***************************************************************************)
(* The samples a reader of the file finds are in the order of time and do  *)
(* not overlap, across folds, failures, kills and restarts (par_chunks(2), *)
(* sum).                                                                   *)
(***************************************************************************)
InOrder(s) == \A i, j \in At(s, "counters") : i < j => s[i].to < s[j].from

SamplesInOrder == InOrder(Legible(disk))

(***************************************************************************)
(* As long as the proxy was not restarted every sample in a file without a *)
(* torn frame stands for at least one period of the scraper, and there is  *)
(* one for every period that has passed: what all folds together have      *)
(* dropped is less than a period, as the fold and the doubling of the      *)
(* period go together (fold, scrape_trace).                                *)
(***************************************************************************)
SampledPerPeriod ==
  kills = 0 /\ active /\ ~done /\ ~HasTorn(disk) =>
    /\ \A i \in At(disk, "counters") : disk[i].to - disk[i].from + 1 >= period
    /\ Cardinality(At(disk, "counters")) = clock \div period

(***************************************************************************)
(* As long as the proxy was not restarted an id means one counter, also    *)
(* after folds and failed pushes (check_counter, current_counter_id).      *)
(***************************************************************************)
OneIdPerName(s) ==
  \A i, j \in At(s, "meta") : s[i].id = s[j].id \/ s[i].name = s[j].name => i = j

IdsAreUnique == kills = 0 => OneIdPerName(disk)

(***************************************************************************)
(* However many counters the samples have, a file never has more samples   *)
(* than fit into its maximum size without any counters, but for one for    *)
(* every kill, which may come before the fold, and unless writes fail.     *)
(* The size itself is not bounded by the maximum: a fold keeps the second, *)
(* perhaps larger, sample of each pair (push, fold).                       *)
(***************************************************************************)
Few(s, k) == (Cardinality(At(s, "counters")) - k) * SampleBytes <= MaxTraceSize

SamplesBounded == faults = 0 => Few(disk, kills)

(***************************************************************************)
(* A reader of a trace waits for ever only if a write of a live process    *)
(* failed or was short: no torn frame that a kill has left gets into the   *)
(* store, as all frames of a file are looked at when the proxy starts      *)
(* (load_existing_traces, read_last, read_frame_at).                       *)
(***************************************************************************)
ReadersReturn == proc = "stuck" => faults > 0

-----------------------------------------------------------------------------
(***************************************************************************)
(* The inductive invariant.  As long as no push has failed a trace of the  *)
(* store has a file, and the memory is the file without its description    *)
(* up to torn frames, or, for a trace that was found by a restart and not  *)
(* folded yet, the file or empty; such a trace has maximum size 0, so      *)
(* every push folds it.  A failed push is the last one of the process.     *)
(***************************************************************************)
Mirrors(d, s) == Len(d) = Len(s) /\ Within(d, s)

Stored ==
  /\ ~exists => disk = <<>>
  /\ known => proc \in {"up", "stuck"}
  /\ known /\ ~failed => exists /\ disk # <<>>
  /\ ~known => frames = <<>>
  /\ ~loaded => maxSize = 0
  /\ active \/ loaded \/ failed => known
  /\ active /\ ~done => ~failed
  /\ known /\ HasTorn(disk) => faults > 0
  /\ known /\ ~failed =>
       \/ Mirrors(disk, <<DescFrame>> \o frames) /\ At(frames, "desc") = {}
       \/ maxSize = 0 /\ ~HasTorn(disk) /\ (frames = disk \/ (frames = <<>> /\ ~loaded))

\* Samples end in the past and are not of negative length.
Past(s, t) == \A i \in At(s, "counters") : s[i].from <= s[i].to /\ s[i].to <= t

\* The samples of s at time t can be read from the front.
Sound(s, t) == IdsDescribed(s) /\ InOrder(s) /\ Past(s, t)

\* While the proxy was not restarted: the ids in use are below the next one, and
\* the memory has a sample for every period.
Numbered(s, n) == OneIdPerName(s) /\ \A i \in At(s, "meta") : s[i].id < n

PerPeriod(s, t, p) ==
  /\ \A i \in At(s, "counters") : s[i].to - s[i].from + 1 >= p
  /\ Cardinality(At(s, "counters")) = t \div p

Unbroken ==
  kills = 0 =>
    /\ proc = "up"
    /\ ~known => clock = 0
    /\ known => loaded /\ maxSize = MaxTraceSize
    /\ known /\ ~done => active \/ failed
    /\ Numbered(frames, nextId) /\ Numbered(disk, nextId)
    /\ known /\ ~done /\ ~failed => PerPeriod(frames, clock, period)

IndInv ==
  /\ TypeOK /\ Stored /\ DiskIsMemory
  /\ Sound(frames, clock) /\ Sound(Legible(disk), clock)
  /\ Unbroken
  /\ SamplesBounded /\ ReadersReturn
===============================================================================

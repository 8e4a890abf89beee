------------------------------ MODULE ClientLib ------------------------------
(***************************************************************************)
(* The client library (src/src/lib.rs) in one process, and the thread of   *)
(* the proxy at the other end of its socket (src/src/proxy.rs).            *)
(*                                                                         *)
(* Application threads create metrics and change them in a table.  The     *)
(* polling thread empties the table into a batch and sends the batch; so   *)
(* does a thread that calls metric_proxy_release, and the main thread in   *)
(* the destructor of the library.  A batch is collected under the read     *)
(* lock of the table, but each value has a mutex of its own, taken twice:  *)
(* once to see whether it was updated, once to copy and clear it.          *)
(***************************************************************************)
EXTENDS Integers, Sequences, FiniteSets, Functions

CONSTANTS
  Threads,     \* application threads
  Main,        \* the one that leaves main()
  Releasers,   \* those that call metric_proxy_release
  Poller,      \* the polling thread of the library
  Names,       \* names of metrics
  Finished,    \* the counter "has_finished" of metric_proxy_release
  Asks,        \* the types that the application creates a name with
  GaugeValues, \* values a gauge is set to
  Others,      \* what other processes may have described before: sets of
               \* functions from Names to a type or "none"
  MaxAdds,     \* bound on the number of increments of a counter
  MaxWire      \* commands the socket holds

Kinds == {"counter", "gauge"}
Dumpers == Threads \cup {Poller}

ASSUME ThreadsAssumption ==
  /\ IsFiniteSet(Threads) /\ Poller \notin Threads
  /\ Main \in Threads /\ Releasers \subseteq Threads
ASSUME NamesAssumption ==
  /\ Finished \in Names
  /\ Asks \in [Names -> SUBSET Kinds]
  /\ Others \subseteq [Names -> Kinds \cup {"none"}]
ASSUME ValuesAssumption == GaugeValues \subseteq Int /\ MaxAdds \in Nat /\ MaxWire \in Nat \ {0}

VARIABLES
  alive,    \* the process runs
  running,  \* MetricProxyClient.running
  link,     \* MetricProxyClient.stream: "up", or "none" when connect failed
  kind,     \* MetricProxyClient.counters: the type of an entry, "none" without
  val,      \* its value, or total
  hits,     \* whether a gauge was set since its last reset
  pc,       \* where a thread is
  call,     \* the API call it is in: what it does, on which metric; NoCall outside
  handle,   \* pointers returned by metric_proxy_counter_new, _gauge_new
  todo,     \* entries that dump_values has still to visit
  peek,     \* the entry it has found updated and not copied yet
  batch,    \* values_to_send
  wire,     \* commands in the socket
  server,   \* the proxy's thread: "open", "closed" on an error, "left" at end of file
  types,    \* the types its exporter knows
  total,    \* what this process has contributed to a counter, or a gauge there
  added,    \* increments so far (history)
  late,     \* those since the destructor started (history)
  last,     \* last value a gauge was set to (history)
  overlap   \* whether two dumps ever were under way at a time (history)

table   == <<kind, val, hits>>
dumping == <<todo, peek, batch>>
proxy   == <<server, types, total>>
history == <<added, late, last>>
vars == <<alive, running, link, table, pc, call, handle, dumping, wire, proxy, history, overlap>>

Desc(n, k)  == [op |-> "desc", name |-> n, kind |-> k, v |-> 0]
Value(n, k, v) == [op |-> "value", name |-> n, kind |-> k, v |-> v]

Commands == [op : {"desc", "value"}, name : Names, kind : Kinds, v : Int]

NoCall == [op |-> "none", name |-> Finished, kind |-> "counter"]

TypeOK ==
  /\ alive \in BOOLEAN /\ running \in BOOLEAN /\ overlap \in BOOLEAN
  /\ link \in {"up", "none"}
  /\ kind \in [Names -> Kinds \cup {"none"}]
  /\ val \in [Names -> Int] /\ hits \in [Names -> BOOLEAN]
  /\ pc \in [Dumpers -> {"idle", "insert", "describe", "stop", "collect", "send", "ended"}]
  /\ call \in [Threads -> [op : {"none", "new", "count", "release", "exit"},
                           name : Names, kind : Kinds]]
  /\ handle \subseteq Names
  /\ todo \in [Dumpers -> SUBSET Names]
  /\ peek \in [Dumpers -> SUBSET Names]
  /\ batch \in [Dumpers -> Seq(Commands)]
  /\ wire \in Seq(Commands)
  /\ server \in {"open", "closed", "left"}
  /\ types \in [Names -> Kinds \cup {"none"}]
  /\ total \in [Names -> Int]
  /\ added \in [Names -> Nat] /\ late \in [Names -> Nat] /\ last \in [Names -> Int]

-----------------------------------------------------------------------------
(***************************************************************************)
(* MetricProxyClient::new in the constructor of the library: connected, or *)
(* without a proxy and then not running and without a polling thread.  The *)
(* JobDesc it sends first is in JobRegistry.                               *)
(***************************************************************************)
Init ==
  /\ alive = TRUE /\ overlap = FALSE
  /\ link \in {"up", "none"} /\ running = (link = "up")
  /\ kind = [n \in Names |-> "none"]
  /\ val = [n \in Names |-> 0] /\ hits = [n \in Names |-> FALSE]
  /\ pc = [d \in Dumpers |-> IF d = Poller /\ link = "none" THEN "ended" ELSE "idle"]
  /\ call = [t \in Threads |-> NoCall]
  /\ handle = {}
  /\ todo = [d \in Dumpers |-> {}] /\ peek = [d \in Dumpers |-> {}]
  /\ batch = [d \in Dumpers |-> <<>>]
  /\ wire = <<>>
  /\ server = IF link = "up" THEN "open" ELSE "left"
  /\ types \in Others
  /\ total = [n \in Names |-> 0]
  /\ added = [n \in Names |-> 0] /\ late = [n \in Names |-> 0]
  /\ last = [n \in Names |-> 0]

\* `send' holds the mutex of the stream for one whole command.
CanSend  == link = "up" /\ server = "open" /\ Len(wire) < MaxWire
SendFails == link = "none" \/ server = "closed"

Goto(d, where) == pc' = [pc EXCEPT ![d] = where]

Dumping(d) == pc[d] \in {"collect", "send"}

\* dump_values: take the read lock of the table and iterate.
StartDump(d) ==
  /\ Goto(d, "collect")
  /\ todo' = [todo EXCEPT ![d] = {n \in Names : kind[n] # "none"}]
  /\ overlap' = (overlap \/ \E e \in Dumpers \ {d} : Dumping(e))

-----------------------------------------------------------------------------
(***************************************************************************)
(* The application threads.  A call that creates a metric, counts a        *)
(* function entry or a start, or releases the client, goes through         *)
(* push_entry: insert, then send the description.                          *)
(***************************************************************************)
Call(t, op, n, k) ==
  /\ alive /\ pc[t] = "idle"
  /\ call' = [call EXCEPT ![t] = [op |-> op, name |-> n, kind |-> k]]
  /\ Goto(t, "insert")
  /\ UNCHANGED <<alive, running, link, table, handle, dumping, wire, proxy, history, overlap>>

\* metric_proxy_counter_new, metric_proxy_gauge_new: NULL when not running.
New(t, n, k) == running /\ Call(t, "new", n, k)

\* metric_proxy_init, __cyg_profile_func_enter: create and increment by one.
Count(t, n) == "counter" \in Asks[n] /\ added[n] < MaxAdds /\ Call(t, "count", n, "counter")

Release(t) == t \in Releasers /\ added[Finished] < MaxAdds /\ Call(t, "release", Finished, "counter")

\* push_entry, under the write lock of the table.
Insert(t) ==
  /\ alive /\ pc[t] = "insert"
  /\ \A d \in Dumpers : pc[d] # "collect"
  /\ kind' = IF kind[call[t].name] = "none"
               THEN [kind EXCEPT ![call[t].name] = call[t].kind] ELSE kind
  /\ Goto(t, "describe")
  /\ UNCHANGED <<alive, running, link, val, hits, call, handle, dumping, wire, proxy, history, overlap>>

\* MetricProxyValue::inc refuses a gauge.
Inc(n) ==
  IF kind[n] = "counter"
    THEN /\ val' = [val EXCEPT ![n] = @ + 1]
         /\ added' = [added EXCEPT ![n] = @ + 1]
         /\ late' = IF call[Main].op = "exit"
                      THEN [late EXCEPT ![n] = @ + 1] ELSE late
    ELSE UNCHANGED <<val, added, late>>

\* The call returns; metric_proxy_release goes on to stop the library.
Return(t) ==
  IF call[t].op = "release"
    THEN Goto(t, "stop") /\ UNCHANGED call
    ELSE Goto(t, "idle") /\ call' = [call EXCEPT ![t] = NoCall]

\* push_entry: the description is sent and the entry returned.
Describe(t) ==
  LET n == call[t].name IN
  /\ alive /\ pc[t] = "describe" /\ CanSend
  /\ wire' = Append(wire, Desc(n, call[t].kind))
  /\ IF call[t].op = "new"
       THEN handle' = handle \cup {n} /\ UNCHANGED <<val, added, late>>
       ELSE Inc(n) /\ UNCHANGED handle
  /\ Return(t)
  /\ UNCHANGED <<alive, running, link, kind, hits, dumping, proxy, last, overlap>>

\* Mutant: the caller gets a pointer although there is no entry for it.
DescribeFailsReturnsNull(t) ==
  /\ alive /\ pc[t] = "describe" /\ SendFails
  /\ running' = (running /\ link # "none")
  /\ Return(t)
  /\ handle' = handle \cup {"null"}
  /\ UNCHANGED <<alive, link, table, dumping, wire, proxy, history, overlap>>

\* Not connected, or the proxy is gone: no entry is returned.
DescribeFails(t) ==
  /\ alive /\ pc[t] = "describe" /\ SendFails
  /\ running' = (running /\ link # "none")
  /\ Return(t)
  /\ UNCHANGED <<alive, link, table, handle, dumping, wire, proxy, history, overlap>>

\* metric_proxy_counter_inc
CounterInc(t, n) ==
  /\ alive /\ pc[t] = "idle" /\ n \in handle
  /\ kind[n] = "counter" /\ added[n] < MaxAdds
  /\ Inc(n)
  /\ UNCHANGED <<alive, running, link, kind, hits, pc, call, handle, dumping, wire, proxy, last, overlap>>

\* metric_proxy_gauge_set
GaugeSet(t, n) ==
  /\ alive /\ pc[t] = "idle" /\ n \in handle /\ kind[n] = "gauge"
  /\ \E v \in GaugeValues :
       /\ val' = [val EXCEPT ![n] = v]
       /\ last' = [last EXCEPT ![n] = v]
  /\ hits' = [hits EXCEPT ![n] = TRUE]
  /\ UNCHANGED <<alive, running, link, kind, pc, call, handle, dumping, wire, proxy, added, late, overlap>>

\* metric_proxy_release: stop the polling thread, then dump what is left.
Stop(t) ==
  /\ alive /\ pc[t] = "stop"
  /\ running' = FALSE
  /\ StartDump(t)
  /\ UNCHANGED <<alive, link, table, call, handle, peek, batch, wire, proxy, history>>

\* Mutant: the destructor dumps nothing.
ExitWithoutDump ==
  /\ alive /\ pc[Main] = "idle"
  /\ call' = [call EXCEPT ![Main].op = "exit"]
  /\ alive' = FALSE
  /\ UNCHANGED <<running, link, table, pc, handle, dumping, wire, proxy, history, overlap>>

\* rust_dtor, called when main() returns; the other threads go on meanwhile.
Exit ==
  /\ alive /\ pc[Main] = "idle"
  /\ call' = [call EXCEPT ![Main].op = "exit"]
  /\ StartDump(Main)
  /\ UNCHANGED <<alive, running, link, table, handle, peek, batch, wire, proxy, history>>

\* The polling thread wakes up.
Poll ==
  /\ alive /\ pc[Poller] = "idle" /\ running
  /\ StartDump(Poller)
  /\ UNCHANGED <<alive, running, link, table, call, handle, peek, batch, wire, proxy, history>>

PollerEnds ==
  /\ alive /\ pc[Poller] = "idle" /\ ~running
  /\ Goto(Poller, "ended")
  /\ UNCHANGED <<alive, running, link, table, call, handle, dumping, wire, proxy, history, overlap>>

-----------------------------------------------------------------------------
(***************************************************************************)
(* dump_values.                                                            *)
(***************************************************************************)
\* MetricProxyValue::updated
Updated(n) == IF kind[n] = "counter" THEN val[n] > 0 ELSE hits[n]

\* Mutant: every entry of the table is copied and sent.
PeekAll(d, n) ==
  /\ alive /\ pc[d] = "collect" /\ peek[d] = {} /\ n \in todo[d]
  /\ todo' = [todo EXCEPT ![d] = @ \ {n}]
  /\ peek' = [peek EXCEPT ![d] = {n}]
  /\ UNCHANGED <<alive, running, link, table, pc, call, handle, batch, wire, proxy, history, overlap>>

\* The filter: one lock of the value.
Peek(d, n) ==
  /\ alive /\ pc[d] = "collect" /\ peek[d] = {} /\ n \in todo[d]
  /\ todo' = [todo EXCEPT ![d] = @ \ {n}]
  /\ peek' = [peek EXCEPT ![d] = IF Updated(n) THEN {n} ELSE {}]
  /\ UNCHANGED <<alive, running, link, table, pc, call, handle, batch, wire, proxy, history, overlap>>

\* Mutant: the entry is copied and not cleared.
TakeWithoutReset(d, n) ==
  /\ alive /\ pc[d] = "collect" /\ n \in peek[d]
  /\ batch' = [batch EXCEPT ![d] = Append(@, Value(n, kind[n], val[n]))]
  /\ peek' = [peek EXCEPT ![d] = {}]
  /\ UNCHANGED <<alive, running, link, table, pc, call, handle, todo, wire, proxy, history, overlap>>

\* The map: another lock, under which the value is copied and cleared.
Take(d, n) ==
  /\ alive /\ pc[d] = "collect" /\ n \in peek[d]
  /\ batch' = [batch EXCEPT ![d] = Append(@, Value(n, kind[n], val[n]))]
  /\ val' = [val EXCEPT ![n] = 0]
  /\ hits' = [hits EXCEPT ![n] = FALSE]
  /\ peek' = [peek EXCEPT ![d] = {}]
  /\ UNCHANGED <<alive, running, link, kind, pc, call, handle, todo, wire, proxy, history, overlap>>

\* The read lock of the table is given back.
EndCollect(d) ==
  /\ alive /\ pc[d] = "collect" /\ todo[d] = {} /\ peek[d] = {}
  /\ Goto(d, "send")
  /\ UNCHANGED <<alive, running, link, table, call, handle, dumping, wire, proxy, history, overlap>>

SendValue(d) ==
  /\ alive /\ pc[d] = "send" /\ batch[d] # <<>> /\ CanSend
  /\ wire' = Append(wire, Head(batch[d]))
  /\ batch' = [batch EXCEPT ![d] = Tail(@)]
  /\ UNCHANGED <<alive, running, link, table, pc, call, handle, todo, peek, proxy, history, overlap>>

\* The process ends with the destructor; a thread returns from release.
Leave(d) ==
  /\ Goto(d, "idle")
  /\ alive' = ~(d = Main /\ call[Main].op = "exit")
  /\ call' = IF d = Poller \/ ~alive' THEN call ELSE [call EXCEPT ![d] = NoCall]

\* Mutant: the polling thread ends after one dump.
EndDumpOnce(d) ==
  /\ alive /\ pc[d] = "send" /\ batch[d] = <<>>
  /\ IF d = Poller THEN Goto(d, "ended") /\ UNCHANGED <<alive, call>> ELSE Leave(d)
  /\ UNCHANGED <<running, link, table, handle, dumping, wire, proxy, history, overlap>>

EndDump(d) ==
  /\ alive /\ pc[d] = "send" /\ batch[d] = <<>>
  /\ Leave(d)
  /\ UNCHANGED <<running, link, table, handle, dumping, wire, proxy, history, overlap>>

\* The `?' drops what is left of the batch, and ends the polling thread.
SendValueFails(d) ==
  /\ alive /\ pc[d] = "send" /\ batch[d] # <<>> /\ SendFails
  /\ batch' = [batch EXCEPT ![d] = <<>>]
  /\ running' = (running /\ link # "none")
  /\ IF d = Poller THEN Goto(d, "ended") /\ UNCHANGED <<alive, call>> ELSE Leave(d)
  /\ UNCHANGED <<link, table, handle, todo, peek, wire, proxy, history, overlap>>

-----------------------------------------------------------------------------
(***************************************************************************)
(* The thread of the proxy: handle_command on the next command.            *)
(***************************************************************************)
\* Exporter::push leaves an existing entry alone, whatever its type.
RecvDesc ==
  LET m == Head(wire) IN
  /\ server = "open" /\ wire # <<>> /\ m.op = "desc"
  /\ wire' = Tail(wire)
  /\ types' = IF types[m.name] = "none" THEN [types EXCEPT ![m.name] = m.kind] ELSE types
  /\ UNCHANGED <<alive, running, link, table, pc, call, handle, dumping, server, total, history, overlap>>

\* Mutant: gauges are added up like counters.
RecvValueSums ==
  LET m == Head(wire) IN
  /\ server = "open" /\ wire # <<>> /\ m.op = "value" /\ types[m.name] = m.kind
  /\ wire' = Tail(wire)
  /\ total' = [total EXCEPT ![m.name] = @ + m.v]
  /\ UNCHANGED <<alive, running, link, table, pc, call, handle, dumping, server, types, history, overlap>>

\* CounterType::set: a counter is added, a gauge overwritten.
RecvValue ==
  LET m == Head(wire) IN
  /\ server = "open" /\ wire # <<>> /\ m.op = "value" /\ types[m.name] = m.kind
  /\ wire' = Tail(wire)
  /\ total' = [total EXCEPT ![m.name] = IF m.kind = "counter" THEN @ + m.v ELSE m.v]
  /\ UNCHANGED <<alive, running, link, table, pc, call, handle, dumping, server, types, history, overlap>>

Close(how) ==
  /\ server' = how /\ wire' = <<>>
  /\ UNCHANGED <<alive, running, link, table, pc, call, handle, dumping, types, total, history, overlap>>

\* No such key, or another type: the `?' ends the thread.
Rejects(m) == m.op = "value" /\ types[m.name] # m.kind
RecvFails == server = "open" /\ wire # <<>> /\ Rejects(Head(wire)) /\ Close("closed")

EndOfFile == server = "open" /\ wire = <<>> /\ ~alive /\ Close("left")

ProxyKilled == server = "open" /\ Close("closed")

-----------------------------------------------------------------------------
ThreadStep(t) ==
  \/ \E n \in Names : \E k \in Asks[n] : New(t, n, k)
  \/ \E n \in Names : Count(t, n) \/ CounterInc(t, n) \/ GaugeSet(t, n)
  \/ Release(t) \/ Insert(t) \/ Describe(t) \/ DescribeFails(t) \/ Stop(t)

DumpStep(d) ==
  \/ \E n \in Names : Peek(d, n) \/ Take(d, n)
  \/ EndCollect(d) \/ SendValue(d) \/ EndDump(d) \/ SendValueFails(d)

PollStep == Poll \/ PollerEnds \/ DumpStep(Poller)
Receive  == RecvDesc \/ RecvValue \/ RecvFails \/ EndOfFile

\* Both ends are gone.
Terminated == ~alive /\ server # "open" /\ UNCHANGED vars

Next ==
  \/ \E t \in Threads : ThreadStep(t) \/ DumpStep(t)
  \/ PollStep \/ Receive
  \/ Exit \/ ProxyKilled \/ Terminated

(***************************************************************************)
(* The polling thread wakes up again and again and the proxy reads its     *)
(* sockets.  Strong fairness of a send: a thread that waits for the mutex  *)
(* of the stream or for room in the socket gets through in the end, even   *)
(* while other threads send.                                               *)
(***************************************************************************)
Fairness ==
  /\ WF_vars(Poll) /\ WF_vars(Receive)
  /\ \A d \in Dumpers : WF_vars(DumpStep(d)) /\ SF_vars(SendValue(d))

Spec == Init /\ [][Next]_vars /\ Fairness

-----------------------------------------------------------------------------
\* A command that carries a value for n, and what those in a sequence add up to.
ValueFor(m, n) == m.op = "value" /\ m.name = n
Weight(m, n) == IF ValueFor(m, n) THEN m.v ELSE 0
Carried(s, n) == SumFunctionOnSet([i \in 1 .. Len(s) |-> Weight(s[i], n)], 1 .. Len(s))

Batched(n) == SumFunctionOnSet([d \in Dumpers |-> Carried(batch[d], n)], Dumpers)

(***************************************************************************)
(* No increment of a counter is lost or counted twice on its way through   *)
(* table, batches and socket, however many threads increment and dump it   *)
(* at once, as long as the proxy's thread does not fail (lib.rs inc,       *)
(* dump_values, send; proxy.rs).  Once the process has ended, the table    *)
(* and the batches of its threads are what it took with it.                *)
(***************************************************************************)
Conserved ==
  server # "closed" =>
    \A n \in Names : kind[n] = "counter" =>
      added[n] = total[n] + Carried(wire, n) + Batched(n) + val[n]

(***************************************************************************)
(* A value never overtakes the description of its metric: push_entry       *)
(* publishes the entry to the dumping threads before it has sent the       *)
(* description, but nobody can change the entry before, and dump_values    *)
(* skips unchanged ones.  So the proxy never answers "No such key".        *)
(***************************************************************************)
DescribedFirst ==
  server = "open" =>
    \A i \in 1 .. Len(wire) : wire[i].op = "value" =>
      \/ types[wire[i].name] # "none"
      \/ \E j \in 1 .. i - 1 : wire[j].op = "desc" /\ wire[j].name = wire[i].name

(***************************************************************************)
(* A process that ends through the destructor loses nothing it counted     *)
(* before: what did not arrive was added while the destructor ran, or was  *)
(* in the batch of another dump that the end of the process cut off        *)
(* (lib.rs rust_dtor, dump_values).                                        *)
(***************************************************************************)
ExitFlushes ==
  /\ server = "left" /\ link = "up"
  /\ \A d \in Dumpers \ {Main} : ~Dumping(d)
  => \A n \in Names : total[n] >= added[n] - late[n] \/ kind[n] = "gauge"

\* Nothing of n is on its way from this process to the proxy.
AtRest(n) ==
  /\ ~hits[n] /\ server = "open" /\ types[n] = "gauge"
  /\ \A i \in 1 .. Len(wire) : wire[i].name # n \/ wire[i].op = "desc"
  /\ \A d \in Dumpers : n \notin peek[d] /\ \A i \in 1 .. Len(batch[d]) : batch[d][i].name # n

(***************************************************************************)
(* At rest the proxy has the last value a gauge was set to, unless two     *)
(* dumps have overlapped: then an older value may arrive last, or the 0 of *)
(* a gauge that the other dump has just cleared (lib.rs:268-276).          *)
(***************************************************************************)
LastGaugeUnlessOverlap ==
  ~overlap => \A n \in Names : kind[n] = "gauge" /\ AtRest(n) => total[n] = last[n]

-----------------------------------------------------------------------------
(***************************************************************************)
(* The inductive invariant of the properties above.  First, where threads  *)
(* are: only a dump that collects has entries to visit, only one that is   *)
(* under way has a batch, a process ends in its destructor, and the proxy  *)
(* leaves an open connection only then.                                    *)
(***************************************************************************)
Phases ==
  /\ \A d \in Dumpers : pc[d] # "collect" => todo[d] = {} /\ peek[d] = {}
  /\ \A d \in Dumpers : ~Dumping(d) => batch[d] = <<>>
  /\ alive /\ call[Main].op = "exit" => Dumping(Main)
  /\ ~alive => call[Main].op = "exit" /\ pc[Main] = "idle"
  /\ server = "left" /\ link = "up" => ~alive
  /\ server # "open" => wire = <<>>

\* Without a proxy no pointer was ever returned, so nothing was ever counted.
Unlinked ==
  link = "none" =>
    /\ server = "left" /\ handle = {}
    /\ \A n \in Names : val[n] = 0 /\ ~hits[n]
    /\ \A d \in Dumpers : peek[d] = {} /\ batch[d] = <<>>

\* There are no values without an entry, and a dump visits one entry at a time.
ValuesOfEntries == \A n \in Names : kind[n] = "none" => val[n] = 0
OnePeek == \A d \in Dumpers : \A m, n \in peek[d] : m = n

\* Who dumps an entry finds it in the table, and sends it with the type it has there.
OfItsKind(s) == \A i \in 1 .. Len(s) : s[i].op = "value" => kind[s[i].name] = s[i].kind
KindsAgree ==
  /\ \A d \in Dumpers : \A n \in todo[d] \cup peek[d] : kind[n] # "none"
  /\ \A d \in Dumpers : OfItsKind(batch[d])
  /\ OfItsKind(wire)

\* As Conserved, of the names without an entry too.
ConservedAll ==
  server # "closed" =>
    \A n \in Names : kind[n] # "gauge" =>
      added[n] = total[n] + Carried(wire, n) + Batched(n) + val[n]

\* What can be changed, was changed or is being sent has been described.
Announced(n) == types[n] # "none" \/ \E j \in 1 .. Len(wire) : wire[j].op = "desc" /\ wire[j].name = n
Touched(n) ==
  \/ val[n] # 0 \/ hits[n] \/ n \in handle
  \/ \E d \in Dumpers : n \in peek[d] \/ \E i \in 1 .. Len(batch[d]) : batch[d][i].name = n
TouchedIsAnnounced == server = "open" => \A n \in Names : Touched(n) => Announced(n)

\* What the destructor has gone past holds no more than was added since it started.
CollectedOnExit ==
  call[Main].op = "exit" =>
    \A n \in Names : kind[n] # "gauge" /\ n \notin todo[Main] \cup peek[Main] => val[n] <= late[n]

\* Without overlap one dump is under way at a time, and no other clears what it has found.
OneDump ==
  ~overlap =>
    /\ \A d, e \in Dumpers : Dumping(d) /\ Dumping(e) => d = e
    /\ \A d \in Dumpers : \A n \in peek[d] : kind[n] = "gauge" => hits[n]

\* The last value a gauge was set to is the newest on its way to the proxy, or there.
Carries(s, n) == \E i \in 1 .. Len(s) : ValueFor(s[i], n)
Newest(s, n, v) ==
  \E i \in 1 .. Len(s) :
    ValueFor(s[i], n) /\ s[i].v = v /\ \A j \in i + 1 .. Len(s) : ~ValueFor(s[j], n)
Latest(n) ==
  IF hits[n] THEN val[n] = last[n]
  ELSE \/ \E d \in Dumpers : Newest(batch[d], n, last[n])
       \/ /\ \A d \in Dumpers : ~Carries(batch[d], n)
          /\ IF Carries(wire, n) THEN Newest(wire, n, last[n]) ELSE total[n] = last[n]
LatestGauge ==
  ~overlap /\ server = "open" => \A n \in Names : kind[n] # "counter" => Latest(n)

IndInv ==
  /\ TypeOK /\ Phases /\ Unlinked /\ ValuesOfEntries /\ OnePeek /\ KindsAgree /\ ConservedAll
  /\ DescribedFirst /\ TouchedIsAnnounced /\ CollectedOnExit /\ OneDump /\ LatestGauge

(***************************************************************************)
(* What is counted arrives: with the polling thread and the proxy's thread *)
(* scheduled, every increment reaches the proxy unless the process ends or *)
(* releases the client, or the connection is lost (lib.rs:176-181).        *)
(***************************************************************************)
Delivered ==
  \A n \in Names : \A i \in 1 .. MaxAdds :
    (added[n] = i) ~> (total[n] >= i \/ ~alive \/ ~running \/ server = "closed")
==============================================================================
